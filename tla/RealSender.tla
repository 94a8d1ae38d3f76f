----------------------------- MODULE RealSender -----------------------------
(***************************************************************************)
(* legacy_fin/args_fin_snapshot/ibkr/ibkr_sender_real_v1.py: real_sender   *)
(* reads a plan of orders, gates it, and sends what is left of it to IBKR. *)
(* Three files remember what was sent: the ledger (state of each send key, *)
(* replaced as a whole), the sent log (appended), the order id cursor.     *)
(*                                                                         *)
(* A process may die between any two file operations, and two processes    *)
(* may run at once: nothing here keeps them apart (OpsLoop does).          *)
(* Everything is about one run_id.  Left out: the exec and would-send logs *)
(* (written, never read), the cancel-all record beyond its effect on       *)
(* gating, prices and quantities beyond "is a strict stage 5 test order".  *)
(***************************************************************************)
EXTENDS Integers, Sequences, FiniteSets

CONSTANTS
    Senders,      \* processes that run the sender
    Keys,         \* idempotency keys
    Plans,        \* the plans to choose from: sequences of PlanRecord
    RunModes,     \* risk modes a run report may carry
    Controls,     \* contents of control_state.json an operator may write
    ExecModes,    \* modes an operator may write to execution_mode.json
    KLimit,       \* k_limit_orders, per invocation
    RunLimit,     \* run_limit_orders, per run_id
    OrderIdFloor, \* ORDER_ID_FLOOR
    MaxCrashes,   \* bound: senders that die
    MaxEdits,     \* bound: writes of an operator
    MaxResets     \* bound: how often the server forgets its order ids

\* test: a strict stage 5 test order; valid: passes the validator; clean: sanitize_order_v0 takes its order.
PlanRecord == [kind : {"ORDER", "CANCEL_ALL"}, key : Keys, test : BOOLEAN, valid : BOOLEAN, clean : BOOLEAN]
ControlFile == [armed : BOOLEAN, simulate : BOOLEAN, override : BOOLEAN, autoreset : BOOLEAN, expired : BOOLEAN]
LedgerStates == {"NONE", "RESERVED", "SENT_SIM", "SENT_REAL"}

ASSUME PlansAssumption == Plans \subseteq Seq(PlanRecord)
ASSUME FilesAssumption == Controls \subseteq ControlFile /\ ExecModes \subseteq {"DRY_RUN", "EXIT_ONLY", "FULL"}
ASSUME LimitsAssumption == KLimit \in Nat \ {0} /\ RunLimit \in Nat \ {0} /\ OrderIdFloor \in Nat \ {0}
ASSUME BoundsAssumption == MaxCrashes \in Nat /\ MaxEdits \in Nat /\ MaxResets \in Nat

VARIABLES
    plan, run_mode,             \* the sendplan and the run report's risk mode
    control, exec_mode, stop_flag, \* the operator's files
    ledger, sent, cursor,       \* the sender's files
    orders, server_next,        \* IBKR: orders placed, its next valid id
    run,                        \* the locals of each process
    crashes, edits, resets,     \* counters of the bounds
    overlapped                  \* history: two senders ran at the same time

files == <<ledger, sent, cursor>>
given == <<plan, run_mode>>
operator == <<control, exec_mode, stop_flag, edits>>
ibkr == <<orders, server_next, resets>>
senderVars == <<plan, run_mode, control, exec_mode, stop_flag, ledger, sent, cursor, orders, server_next,
                run, crashes, edits, resets, overlapped>>

-----------------------------------------------------------------------------
(* Local state of a process.                                               *)

EmptyLedger == [k \in Keys |-> "NONE"]
Disarmed == [armed |-> FALSE, simulate |-> FALSE, override |-> FALSE, autoreset |-> TRUE, expired |-> FALSE]

Off == [pc |-> "off", control |-> Disarmed, mode |-> "DRY_RUN", stop |-> FALSE, ledger |-> EmptyLedger,
        seen |-> {}, already |-> 0, allowed |-> {}, pos |-> 1, executed |-> 0, next_id |-> 0, last_oid |-> 0,
        sim |-> FALSE, reset_done |-> FALSE]

Running(s) == run[s].pc # "off"
At(s, pc) == run[s].pc = pc
Goto(s, pc) == run' = [run EXCEPT ![s].pc = pc]
Exit(s) == run' = [run EXCEPT ![s] = Off]

\* The record that comes next, if there is one.
More(s) == run[s].pos <= Len(plan)
Current(s) == plan[run[s].pos]

Larger(m, n) == IF m >= n THEN m ELSE n

-----------------------------------------------------------------------------
(* Gating.                                                                 *)

\* compute_effective_permissions: every order counts as an entry.
AllowEntry(mode) == mode = "FULL" /\ run_mode = "ALLOW_NEW_ENTRIES"

\* allowed_sendplan_record: it reads control_state.json again, whatever the mode and the expiry.
CentralAllows(rec, mode) == (control.override /\ rec.test) \/ AllowEntry(mode)

\* _stage5_is_safe_test_order.
LocalOverride(rec, p) ==
    /\ ~p.stop /\ p.control.override /\ ~p.control.expired
    /\ p.mode = "FULL" /\ run_mode = "NO_TRADE" /\ rec.test

Allowed(rec, p) ==
    \/ rec.kind = "CANCEL_ALL"
    \/ ~p.stop /\ (CentralAllows(rec, p.mode) \/ LocalOverride(rec, p))

PlanValid == \A i \in DOMAIN plan : plan[i].valid
HasCancel(p) == \E i \in p.allowed : plan[i].kind = "CANCEL_ALL"
LimitReachedMutant(p) == p.already + p.executed >= RunLimit \/ p.already + p.executed >= KLimit

LimitReached(p) == p.already + p.executed >= RunLimit \/ p.executed >= KLimit
DedupedMutant(p, rec) == p.ledger[rec.key] \in {"SENT_SIM", "SENT_REAL"} \/ rec.key \in p.seen

Deduped(p, rec) == p.ledger[rec.key] # "NONE" \/ rec.key \in p.seen
Sendable(p, i) == i \in p.allowed /\ plan[i].kind = "ORDER" /\ ~LimitReached(p) /\ ~Deduped(p, plan[i])

\* A real order is sanitized before it is reserved; one that cannot be is left out.
Submitted(p, i) == Sendable(p, i) /\ (p.sim \/ plan[i].clean)

NeedConnect(p) == HasCancel(p) \/ \E i \in DOMAIN plan : Sendable(p, i)

-----------------------------------------------------------------------------
(* One invocation of real_sender.                                          *)

Launch(s) ==
    /\ ~Running(s)
    /\ Goto(s, "control")
    /\ overlapped' = (overlapped \/ \E t \in Senders : Running(t))
    /\ UNCHANGED <<given, operator, files, ibkr, crashes>>

ReadControl(s) ==
    /\ At(s, "control")
    /\ run' = [run EXCEPT ![s].pc = "mode", ![s].control = control]
    /\ UNCHANGED <<given, operator, files, ibkr, crashes, overlapped>>

ReadMode(s) ==
    /\ At(s, "mode")
    /\ run' = [run EXCEPT ![s].pc = "ledger", ![s].mode = exec_mode, ![s].stop = stop_flag,
                          ![s].sim = (run[s].control.simulate \/ exec_mode = "DRY_RUN")]
    /\ UNCHANGED <<given, operator, files, ibkr, crashes, overlapped>>

LoadLedger(s) ==
    /\ At(s, "ledger")
    /\ run' = [run EXCEPT ![s].pc = "sent", ![s].ledger = ledger]
    /\ UNCHANGED <<given, operator, files, ibkr, crashes, overlapped>>

ReadSent(s) ==
    /\ At(s, "sent")
    /\ run' = [run EXCEPT ![s].pc = "gate", ![s].seen = sent.keys, ![s].already = sent.count]
    /\ UNCHANGED <<given, operator, files, ibkr, crashes, overlapped>>

\* An invalid plan blocks everything; so does a sender that is not armed.
Refuse(s) ==
    /\ At(s, "gate")
    /\ ~PlanValid \/ ~run[s].control.armed
    /\ Exit(s)
    /\ UNCHANGED <<given, operator, files, ibkr, crashes, overlapped>>

Admitted(s) == At(s, "gate") /\ PlanValid /\ run[s].control.armed

\* Record after record, the permission matrix is asked, which reads control_state.json each time.
Gate(s) ==
    /\ Admitted(s) /\ More(s)
    /\ run' = [run EXCEPT ![s].pos = run[s].pos + 1,
                          ![s].allowed = run[s].allowed \cup
                              {i \in {run[s].pos} : Allowed(plan[i], run[s])}]
    /\ UNCHANGED <<given, operator, files, ibkr, crashes, overlapped>>

\* All records judged, the orders are gone through from the first one.
Gated(s) == [run[s] EXCEPT !.pos = 1]

GateToSimulation(s) ==
    /\ Admitted(s) /\ ~More(s)
    /\ run[s].sim
    /\ run' = [run EXCEPT ![s] = [Gated(s) EXCEPT !.pc = "send",
                                                  !.next_id = Larger(cursor + 1, OrderIdFloor)]]
    /\ UNCHANGED <<given, operator, files, ibkr, crashes, overlapped>>

GateToConnect(s) ==
    /\ Admitted(s) /\ ~More(s)
    /\ ~run[s].sim
    /\ IF (run[s].stop /\ ~HasCancel(run[s])) \/ ~NeedConnect(run[s])
       THEN Exit(s)
       ELSE run' = [run EXCEPT ![s] = [Gated(s) EXCEPT !.pc = "preflight"]]
    /\ UNCHANGED <<given, operator, files, ibkr, crashes, overlapped>>

\* preflight_next_valid_id succeeds; then the cursor is read, before connecting.
Preflight(s) ==
    /\ At(s, "preflight")
    /\ run' = [run EXCEPT ![s].pc = "connect", ![s].next_id = cursor + 1]
    /\ UNCHANGED <<given, operator, files, ibkr, crashes, overlapped>>

ConnectFails(s) ==
    /\ At(s, "preflight") \/ At(s, "connect")
    /\ Exit(s)
    /\ UNCHANGED <<given, operator, files, ibkr, crashes, overlapped>>

\* The server admits one connection with the sender's client id.
Connected(s) == ~run[s].sim /\ run[s].pc \in {"send", "reserved", "placed", "status", "marked"}

ConnectMutant(s) ==
    /\ At(s, "connect")
    /\ \A t \in Senders : ~Connected(t)
    /\ run' = [run EXCEPT ![s].pc = "send", ![s].next_id = Larger(run[s].next_id, OrderIdFloor)]
    /\ UNCHANGED <<given, operator, files, ibkr, crashes, overlapped>>

Connect(s) ==
    /\ At(s, "connect")
    /\ \A t \in Senders : ~Connected(t)
    /\ run' = [run EXCEPT ![s].pc = "send",
                          ![s].next_id = Larger(Larger(server_next, run[s].next_id), OrderIdFloor)]
    /\ UNCHANGED <<given, operator, files, ibkr, crashes, overlapped>>

Skip(s) ==
    /\ At(s, "send") /\ More(s)
    /\ ~Submitted(run[s], run[s].pos)
    /\ run' = [run EXCEPT ![s].pos = run[s].pos + 1]
    /\ UNCHANGED <<given, operator, files, ibkr, crashes, overlapped>>

MarkLedgerMutant(s, state) ==
    ledger' = [run[s].ledger EXCEPT ![Current(s).key] = IF state = "SENT_SIM" THEN "SIMULATED" ELSE state]

\* The ledger in memory is marked, and written over the file.
MarkLedger(s, state) ==
    ledger' = [run[s].ledger EXCEPT ![Current(s).key] = state]

Reserve(s) ==
    /\ At(s, "send") /\ More(s)
    /\ Submitted(run[s], run[s].pos)
    /\ MarkLedger(s, "RESERVED")
    /\ run' = [run EXCEPT ![s].pc = IF run[s].sim THEN "status" ELSE "reserved",
                          ![s].ledger = ledger',
                          ![s].next_id = run[s].next_id + 1,
                          ![s].last_oid = IF run[s].sim THEN run[s].next_id ELSE run[s].last_oid]
    /\ UNCHANGED <<given, operator, sent, cursor, ibkr, crashes, overlapped>>

\* place_order; the id that next_order_id has just given out is next_id - 1.
Place(s) ==
    /\ At(s, "reserved")
    /\ orders' = Append(orders, [key |-> Current(s).key, oid |-> run[s].next_id - 1])
    /\ server_next' = Larger(server_next, run[s].next_id)
    /\ run' = [run EXCEPT ![s].pc = "placed", ![s].last_oid = run[s].next_id - 1]
    /\ UNCHANGED <<given, operator, files, resets, crashes, overlapped>>

\* After the first order placed, the stage 5 override is switched off in the file.
ResetOverride(s) ==
    /\ At(s, "placed")
    /\ LET wanted == ~run[s].reset_done /\ run[s].control.override /\ run[s].control.autoreset
       IN  /\ control' = IF wanted THEN [control EXCEPT !.override = FALSE] ELSE control
           /\ run' = [run EXCEPT ![s].pc = "status", ![s].reset_done = (run[s].reset_done \/ wanted)]
    /\ UNCHANGED <<given, exec_mode, stop_flag, edits, files, ibkr, crashes, overlapped>>

MarkSent(s) ==
    /\ At(s, "status")
    /\ MarkLedger(s, IF run[s].sim THEN "SENT_SIM" ELSE "SENT_REAL")
    /\ run' = [run EXCEPT ![s].pc = "marked", ![s].ledger = ledger']
    /\ UNCHANGED <<given, operator, sent, cursor, ibkr, crashes, overlapped>>

LogSentMutant(s) ==
    /\ At(s, "marked")
    /\ sent' = [sent EXCEPT !.keys = sent.keys \cup {Current(s).key}]
    /\ run' = [run EXCEPT ![s].pc = "send", ![s].executed = run[s].executed + 1,
                          ![s].seen = run[s].seen \cup {Current(s).key},
                          ![s].pos = run[s].pos + 1]
    /\ UNCHANGED <<given, operator, ledger, cursor, ibkr, crashes, overlapped>>

LogSent(s) ==
    /\ At(s, "marked")
    /\ LET key == Current(s).key
       IN  /\ sent' = [count |-> sent.count + 1, keys |-> sent.keys \cup {key}]
           /\ run' = [run EXCEPT ![s].pc = "send", ![s].executed = run[s].executed + 1,
                                 ![s].seen = run[s].seen \cup {key},
                                 ![s].pos = run[s].pos + 1]
    /\ UNCHANGED <<given, operator, ledger, cursor, ibkr, crashes, overlapped>>

\* _set_cursor_last and disconnect.
Finish(s) ==
    /\ At(s, "send") /\ ~More(s)
    /\ cursor' = IF run[s].last_oid # 0 THEN run[s].last_oid ELSE cursor
    /\ Exit(s)
    /\ UNCHANGED <<given, operator, ledger, sent, ibkr, crashes, overlapped>>

\* The process dies, or an exception ends it.
Crash(s) ==
    /\ Running(s) /\ crashes < MaxCrashes
    /\ Exit(s)
    /\ crashes' = crashes + 1
    /\ UNCHANGED <<given, operator, files, ibkr, overlapped>>

\* _save_cursor writes in place: a torn file reads as no cursor.
CrashInCursorWrite(s) ==
    /\ At(s, "send") /\ ~More(s) /\ run[s].last_oid # 0
    /\ crashes < MaxCrashes
    /\ cursor' = 0
    /\ Exit(s)
    /\ crashes' = crashes + 1
    /\ UNCHANGED <<given, operator, ledger, sent, ibkr, overlapped>>

-----------------------------------------------------------------------------
(* The operator and the server.                                            *)

Edit ==
    /\ edits < MaxEdits
    /\ edits' = edits + 1
    /\ \/ \E c \in Controls : control' = c /\ UNCHANGED <<exec_mode, stop_flag>>
       \/ \E m \in ExecModes : exec_mode' = m /\ UNCHANGED <<control, stop_flag>>
       \/ stop_flag' = ~stop_flag /\ UNCHANGED <<control, exec_mode>>
    /\ UNCHANGED <<given, files, ibkr, run, crashes, overlapped>>

ServerForgets ==
    /\ resets < MaxResets
    /\ \A s \in Senders : ~Connected(s)
    /\ resets' = resets + 1
    /\ server_next' = 1
    /\ UNCHANGED <<given, operator, files, orders, run, crashes, overlapped>>

-----------------------------------------------------------------------------

SenderInit ==
    /\ plan \in Plans
    /\ run_mode \in RunModes
    /\ control \in Controls
    /\ exec_mode \in ExecModes
    /\ stop_flag = FALSE
    /\ ledger = EmptyLedger
    /\ sent = [count |-> 0, keys |-> {}]
    /\ cursor = 0
    /\ orders = <<>>
    /\ server_next = 1
    /\ run = [s \in Senders |-> Off]
    /\ crashes = 0 /\ edits = 0 /\ resets = 0
    /\ overlapped = FALSE

\* What a launched sender does by itself.
Work(s) ==
    \/ ReadControl(s) \/ ReadMode(s) \/ LoadLedger(s) \/ ReadSent(s)
    \/ Refuse(s) \/ Gate(s) \/ GateToSimulation(s) \/ GateToConnect(s)
    \/ Preflight(s) \/ ConnectFails(s) \/ Connect(s)
    \/ Skip(s) \/ Reserve(s) \/ Place(s) \/ ResetOverride(s) \/ MarkSent(s) \/ LogSent(s) \/ Finish(s)

Die(s) == Crash(s) \/ CrashInCursorWrite(s)

SenderNext ==
    \/ \E s \in Senders : Launch(s) \/ Work(s) \/ Die(s)
    \/ Edit \/ ServerForgets

SenderSpec == SenderInit /\ [][SenderNext]_senderVars

-----------------------------------------------------------------------------
(* Properties.                                                             *)

SenderPcs == {"off", "control", "mode", "ledger", "sent", "gate", "preflight", "connect", "send",
              "reserved", "placed", "status", "marked"}
Locals == [pc : SenderPcs, control : ControlFile, mode : ExecModes \cup {"DRY_RUN"}, stop : BOOLEAN,
           ledger : [Keys -> LedgerStates], seen : SUBSET Keys, already : Nat, allowed : SUBSET Nat,
           pos : Nat \ {0}, executed : Nat, next_id : Nat, last_oid : Nat, sim : BOOLEAN, reset_done : BOOLEAN]

SenderTypeOK ==
    /\ plan \in Seq(PlanRecord) /\ run_mode \in RunModes
    /\ control \in ControlFile /\ exec_mode \in ExecModes /\ stop_flag \in BOOLEAN
    /\ ledger \in [Keys -> LedgerStates]
    /\ sent \in [count : Nat, keys : SUBSET Keys]
    /\ cursor \in Nat
    /\ orders \in Seq([key : Keys, oid : Nat])
    /\ server_next \in Nat
    /\ run \in [Senders -> Locals]
    /\ crashes \in Nat /\ edits \in Nat /\ resets \in Nat
    /\ overlapped \in BOOLEAN

\* "Strong idempotency/dedupe across runs" (ibkr_sender_real_v1.py:419): as long as no two senders
\* overlapped, IBKR receives the order of a key at most once, whoever died where and however the
\* operator armed, disarmed, simulated or overrode in between.
SentAtMostOnce ==
    ~overlapped => \A i, j \in DOMAIN orders : orders[i].key = orders[j].key => i = j

\* RUN_LIMIT_ORDERS (ibkr_sender_real_v1.py:43) across invocations: a run sends at most that many orders,
\* and one more for each sender that died, because an order counts only once it is in the sent log.
RunLimitUpToCrashes ==
    ~overlapped => Len(orders) <= RunLimit + crashes

\* The cursor is there for a server that forgets its ids, the server for a cursor that was not
\* written: unless both happen, order ids increase from order to order.
OrderIdsIncrease ==
    ~overlapped /\ (crashes = 0 \/ resets = 0)
        => \A i, j \in DOMAIN orders : i < j => orders[i].oid < orders[j].oid
=============================================================================
