--------------------------- MODULE OrderLifecycle ---------------------------
(***************************************************************************)
(* What the execution engine promises for each intent, as its run          *)
(* directory and the broker show it from outside.                          *)
(*                                                                         *)
(* An intent is unknown, then recorded and pending, then worked by the     *)
(* broker, then ended.  The broker receives its order at most once, only   *)
(* while the intent is recorded as pending, and an intent is recorded as   *)
(* worked only when the broker has its order.  An intent that is refused   *)
(* ends without an order.  Adopted intents are worked from the start.      *)
(***************************************************************************)
EXTENDS Integers

CONSTANTS Intents, Adopted   \* intents; those whose order the broker already has

VARIABLES
    phase,   \* [Intents -> {"unknown", "pending", "worked", "ended"}]
    sent     \* [Intents -> {0, 1}]: place_order calls the broker received

vars == <<phase, sent>>

Init ==
    /\ phase = [i \in Intents |-> "unknown"]
    /\ sent = [i \in Intents |-> 0]

\* The step from phase p to phase q is one the intent may take.
MayGo(i, p, q) ==
    \/ p = q
    \/ p = "unknown" /\ q = "pending" /\ i \notin Adopted
    \/ p = "unknown" /\ q = "worked" /\ i \in Adopted
    \/ p = "pending" /\ q = "worked" /\ sent[i] = 1
    \/ p = "pending" /\ q = "ended" /\ sent[i] = 0
    \/ p = "worked" /\ q = "ended"

\* The record of any number of intents moves on at once.
Record ==
    /\ \E next \in [Intents -> {"unknown", "pending", "worked", "ended"}] :
          /\ \A i \in Intents : MayGo(i, phase[i], next[i])
          /\ phase' = next
    /\ UNCHANGED sent

\* The broker receives the order of an intent.
Send(i) ==
    /\ phase[i] = "pending" /\ sent[i] = 0
    /\ sent' = [sent EXCEPT ![i] = 1]
    /\ UNCHANGED phase

Next == Record \/ \E i \in Intents : Send(i)

Spec == Init /\ [][Next]_vars

=============================================================================
