---------------------------- MODULE OrderPolicy ----------------------------
(***************************************************************************)
(* args_core/policy_v0.py: which orders the engine may send.               *)
(*                                                                         *)
(* A position is an integer number of shares, negative when short; the     *)
(* floats of the code carry whole share counts.  Symbols and modes are     *)
(* compared by the code after upper(); here they are values.               *)
(***************************************************************************)
EXTENDS Integers

Sides == {"BUY", "SELL"}

Abs(n) == IF n < 0 THEN -n ELSE n

\* The change of the position when qty shares are executed on a side.
Delta(side, qty) == IF side = "BUY" THEN qty ELSE -qty

\* Mutant: the size of the order is not compared with the position.
is_exit_order_mutant(position_qty, side, qty) ==
    /\ qty > 0
    /\ \/ position_qty > 0 /\ side = "SELL"
       \/ position_qty < 0 /\ side = "BUY"

is_exit_order(position_qty, side, qty) ==
    /\ qty > 0
    /\ \/ position_qty > 0 /\ side = "SELL" /\ qty <= position_qty
       \/ position_qty < 0 /\ side = "BUY" /\ qty <= Abs(position_qty)

would_increase_exposure(position_qty, side, qty) ==
    qty > 0 /\ Abs(position_qty + Delta(side, qty)) > Abs(position_qty)

\* check_order_allowed; cp has the fields of the control plane that it reads.
check_order_allowed(cp, symbol, side, qty, position_qty, action) ==
    \/ action = "CANCEL"
    \/ /\ cp.global_mode = "ONLY_EXITS"
       /\ is_exit_order(position_qty, side, qty)
    \/ /\ cp.global_mode # "ONLY_EXITS"
       /\ \/ cp.allowlist = {}
          \/ symbol \in cp.allowlist
          \/ is_exit_order(position_qty, side, qty)
       /\ action = "REPLACE" => ~would_increase_exposure(position_qty, side, qty)

=============================================================================
