----------------------------- MODULE WaExecutor -----------------------------
(***************************************************************************)
(* legacy_fin/args_fin_snapshot/wa/wa_ibkr_executor_v0.py: an executor     *)
(* walks through a plan and submits what its guards, the snapshot of open  *)
(* orders (reconcile_open_orders_v0.py, written by                         *)
(* ibkr_open_orders_snapshot_v0.py) and the ledger (order_ledger_v0.py)    *)
(* let through.  An executor may die anywhere and be run again; two may    *)
(* overlap.                                                                *)
(*                                                                         *)
(* The ledger file is an append-only log; of it the model keeps what       *)
(* loading it yields, per key the record of highest rank.  An append that  *)
(* raises leaves the whole line in the file or none of it.                 *)
(*                                                                         *)
(* An abstraction: match_open_orders compares conId, then local symbol,    *)
(* then symbol, type and currency, of the plan with those of each open     *)
(* order, and for futures the month.  Here a plan and an open order have a *)
(* Contract each, and match when it is the same one.                       *)
(*                                                                         *)
(* Left out: the events file (one per invocation, not read back), prices,  *)
(* sizes and the sanitising of orders, the reasons that go with a refusal, *)
(* the bridge to a sender function (ibkr_sender_real_v1 exposes none it    *)
(* looks for).                                                             *)
(***************************************************************************)
EXTENDS Integers, Sequences, FiniteSets

CONSTANTS
    Executors,  \* processes
    Keys,       \* ledger keys
    Contracts,
    Plan,       \* the plan: a sequence of PlanRecord
    Modes,      \* modes an operator may write to execution_mode.json
    AllowRetry, \* --ledger-allow-retry (0 by default)
    Reconcile,  \* --reconcile
    EmptyOk,    \* --reconcile-empty-ok (1 by default)
    MaxOrders,  \* --max-orders, 0 for no limit
    LateOrders, LateSnapshots, \* callbacks may come too late, of an order, of a snapshot
    MaxRuns, MaxEdits, MaxSnapshots \* bounds: invocations, operator's writes, snapshots

PlanRecord == [key : Keys, contract : Contracts, order : BOOLEAN, exit : BOOLEAN, allowed : BOOLEAN,
               execute : BOOLEAN]
States == {"NONE", "RESERVED", "ACK", "REJECT", "ERROR"}

ASSUME PlanAssumption == Plan \in Seq(PlanRecord)
ASSUME OptionAssumption == {AllowRetry, Reconcile, EmptyOk, LateOrders, LateSnapshots} \subseteq BOOLEAN /\ MaxOrders \in Nat
ASSUME ModesAssumption == Modes \subseteq {"DRY_RUN", "EXIT_ONLY", "FULL"}
ASSUME BoundsAssumption == MaxRuns \in Nat /\ MaxEdits \in Nat /\ MaxSnapshots \in Nat

VARIABLES
    exec_mode, stop_flag, mapping, \* the operator's files; mapping: the default contract files are there
    ledger,        \* what loading the ledger file yields
    snapshot,      \* the latest snapshot of open orders
    orders,        \* IBKR: the orders submitted
    run,           \* the locals of each executor
    runs, edits, snapshots, \* counters of the bounds
    overlapped     \* history: two executors ran at the same time

operator == <<exec_mode, stop_flag, mapping, edits>>
snapshotter == <<snapshot, snapshots>>
vars == <<exec_mode, stop_flag, mapping, ledger, snapshot, orders, run, runs, edits, snapshots, overlapped>>

-----------------------------------------------------------------------------
(* OrderLedgerV0.                                                          *)

Rank(state) == CASE state = "NONE" -> -1 [] state = "RESERVED" -> 10 [] state = "ACK" -> 30 [] OTHER -> 40

\* _load_best_effort, one record more: the higher rank wins, of equal ranks the later record.
Loaded(old, state) == IF Rank(state) >= Rank(old) THEN state ELSE old

ReservableMutant(state) == state \in {"NONE", "RESERVED"} \/ (AllowRetry /\ state \in {"REJECT", "ERROR"})

Reservable(state) == state = "NONE" \/ (AllowRetry /\ state \in {"REJECT", "ERROR"})

\* reserve, of a key that may be: the index takes the record whatever its rank.  The attempt counts.
ReserveKey(e, key) ==
    /\ ledger' = [ledger EXCEPT ![key] = Loaded(ledger[key], "RESERVED")]
    /\ run' = [run EXCEPT ![e].pc = "reserved", ![e].index[key] = "RESERVED",
                          ![e].attempted = run[e].attempted + 1]

-----------------------------------------------------------------------------
(* Local state.                                                            *)

NoSnapshot == [exists |-> FALSE, end |-> FALSE, fresh |-> FALSE, seen |-> {}, open |-> {}]
Off == [pc |-> "off", mode |-> "DRY_RUN", index |-> [k \in Keys |-> "NONE"], snap |-> NoSnapshot,
        pos |-> 1, attempted |-> 0]

Running(e) == run[e].pc # "off"
At(e, pc) == run[e].pc = pc
InPlan(e) == At(e, "plan") /\ run[e].pos <= Len(Plan)
Current(e) == Plan[run[e].pos]

\* The next plan record, with an index that has taken a record in the given state.
NextPlan(e, index) == run' = [run EXCEPT ![e].pc = "plan", ![e].index = index, ![e].pos = run[e].pos + 1]

\* _append raises: the index has not taken the record, the file may have.
AppendRaises(e, key, state) ==
    /\ ledger' \in {ledger, [ledger EXCEPT ![key] = Loaded(ledger[key], state)]}
    /\ NextPlan(e, run[e].index)

\* finalize: the index never falls in rank; the file keeps the record in any case.  The executor
\* swallows an exception.
Finalize(e, key, state) ==
    \/ /\ ledger' = [ledger EXCEPT ![key] = Loaded(ledger[key], state)]
       /\ NextPlan(e, [run[e].index EXCEPT ![key] = Loaded(run[e].index[key], state)])
    \/ AppendRaises(e, key, state)

-----------------------------------------------------------------------------
(* Guards of a plan record.                                                *)

\* is_action_allowed: the mode as read at the start, the stop flag as it is.
ActionAllowed(e) ==
    /\ ~stop_flag
    /\ \/ Current(e).exit /\ run[e].mode # "DRY_RUN"
       \/ Current(e).allowed /\ run[e].mode = "FULL"

\* The contract, of the plan or of the default files, and the order of the plan.
HasParts(e) == mapping /\ Current(e).order

Guarded(e) ==
    /\ Current(e).execute
    /\ MaxOrders = 0 \/ run[e].attempted < MaxOrders
    /\ ActionAllowed(e)

\* snapshot_validity, the age, then match_open_orders.
SnapshotUsable(snap) == snap.exists /\ snap.end /\ (snap.seen # {} \/ EmptyOk) /\ snap.fresh
ReconcileBlocksMutant(e) ==
    Reconcile /\ Current(e).contract \in run[e].snap.seen

ReconcileBlocks(e) ==
    Reconcile /\ (~SnapshotUsable(run[e].snap) \/ Current(e).contract \in run[e].snap.seen)

-----------------------------------------------------------------------------
(* One invocation.                                                         *)

Start(e) ==
    /\ ~Running(e) /\ runs < MaxRuns
    /\ runs' = runs + 1
    /\ run' = [run EXCEPT ![e] = [Off EXCEPT !.pc = "snapshot", !.mode = exec_mode, !.index = ledger]]
    /\ overlapped' = (overlapped \/ \E f \in Executors : Running(f))
    /\ UNCHANGED <<operator, snapshotter, ledger, orders>>

ReadSnapshot(e) ==
    /\ At(e, "snapshot")
    /\ run' = [run EXCEPT ![e].pc = "plan", ![e].snap = snapshot]
    /\ UNCHANGED <<operator, snapshotter, ledger, orders, runs, overlapped>>

Skip(e) ==
    /\ InPlan(e)
    /\ ~Guarded(e)
    /\ NextPlan(e, run[e].index)
    /\ UNCHANGED <<operator, snapshotter, ledger, orders, runs, overlapped>>

\* A plan without a contract or without an order is finalized as REJECT, reserved or not.
MissingParts(e) ==
    /\ InPlan(e) /\ Guarded(e)
    /\ ~HasParts(e)
    /\ Finalize(e, Current(e).key, "REJECT")
    /\ UNCHANGED <<operator, snapshotter, orders, runs, overlapped>>

BlockedByReconcile(e) ==
    /\ InPlan(e) /\ Guarded(e) /\ HasParts(e)
    /\ ReconcileBlocks(e)
    /\ NextPlan(e, run[e].index)
    /\ UNCHANGED <<operator, snapshotter, ledger, orders, runs, overlapped>>

\* What comes to the ledger.
Checked(e) == InPlan(e) /\ Guarded(e) /\ HasParts(e) /\ ~ReconcileBlocks(e)

Duplicate(e) ==
    /\ Checked(e)
    /\ ~Reservable(run[e].index[Current(e).key])
    /\ NextPlan(e, run[e].index)
    /\ UNCHANGED <<operator, snapshotter, ledger, orders, runs, overlapped>>

Reserve(e) ==
    /\ Checked(e)
    /\ Reservable(run[e].index[Current(e).key])
    /\ ReserveKey(e, Current(e).key)
    /\ UNCHANGED <<operator, snapshotter, orders, runs, overlapped>>

\* The record is given up, in the ledger or not.
ReserveRaises(e) ==
    /\ Checked(e)
    /\ Reservable(run[e].index[Current(e).key])
    /\ AppendRaises(e, Current(e).key, "RESERVED")
    /\ UNCHANGED <<operator, snapshotter, orders, runs, overlapped>>

Submit(e) ==
    /\ At(e, "reserved")
    /\ orders' = Append(orders, [key |-> Current(e).key, contract |-> Current(e).contract, by |-> e,
                                 state |-> "pending"])
    /\ run' = [run EXCEPT ![e].pc = "waiting"]
    /\ UNCHANGED <<operator, snapshotter, ledger, runs, overlapped>>

\* An exception: no connection, placeOrder raises, or what follows it, when the broker has the order.
SubmitFails(e) ==
    /\ At(e, "reserved") \/ At(e, "waiting")
    /\ Finalize(e, Current(e).key, "ERROR")
    /\ UNCHANGED <<operator, snapshotter, orders, runs, overlapped>>

\* The order that executor e waits for is the last one it submitted.
Awaited(e) == CHOOSE i \in DOMAIN orders :
                  orders[i].by = e /\ \A j \in DOMAIN orders : orders[j].by = e => j <= i

Acked(e) ==
    /\ At(e, "waiting")
    /\ orders[Awaited(e)].state \in {"open", "done"}
    /\ Finalize(e, Current(e).key, "ACK")
    /\ UNCHANGED <<operator, snapshotter, orders, runs, overlapped>>

RejectedMutant(e) ==
    /\ At(e, "waiting")
    /\ orders[Awaited(e)].state = "dead"
    /\ Finalize(e, Current(e).key, "REJECTED")
    /\ UNCHANGED <<operator, snapshotter, orders, runs, overlapped>>

Rejected(e) ==
    /\ At(e, "waiting")
    /\ orders[Awaited(e)].state = "dead"
    /\ Finalize(e, Current(e).key, "REJECT")
    /\ UNCHANGED <<operator, snapshotter, orders, runs, overlapped>>

\* place_order gives up: the ledger says REJECT, whatever becomes of the order.
TimesOut(e) ==
    /\ At(e, "waiting") /\ LateOrders
    /\ Finalize(e, Current(e).key, "REJECT")
    /\ UNCHANGED <<operator, snapshotter, orders, runs, overlapped>>

Finish(e) ==
    /\ At(e, "plan") /\ run[e].pos > Len(Plan)
    /\ run' = [run EXCEPT ![e] = Off]
    /\ UNCHANGED <<operator, snapshotter, ledger, orders, runs, overlapped>>

Crash(e) ==
    /\ Running(e)
    /\ run' = [run EXCEPT ![e] = Off]
    /\ UNCHANGED <<operator, snapshotter, ledger, orders, runs, overlapped>>

-----------------------------------------------------------------------------
(* The broker, the snapshotter, the operator.                              *)

Open(contract) == \E i \in DOMAIN orders : orders[i].contract = contract /\ orders[i].state = "open"

BrokerAnswers(i) ==
    /\ orders[i].state = "pending"
    /\ \E s \in {"open", "dead"} : orders' = [orders EXCEPT ![i].state = s]
    /\ UNCHANGED <<operator, snapshotter, ledger, run, runs, overlapped>>

\* Filled or cancelled.
OrderEnds(i) ==
    /\ orders[i].state = "open"
    /\ orders' = [orders EXCEPT ![i].state = "done"]
    /\ UNCHANGED <<operator, snapshotter, ledger, run, runs, overlapped>>

\* request_snapshot: the start marker, the open orders one by one, the end marker.
SnapshotStarts ==
    /\ snapshots < MaxSnapshots
    /\ snapshots' = snapshots + 1
    /\ snapshot' = [exists |-> TRUE, end |-> FALSE, fresh |-> TRUE, seen |-> {},
                    open |-> {c \in Contracts : Open(c)}]
    /\ UNCHANGED <<operator, ledger, orders, run, runs, overlapped>>

SnapshotRow(c) ==
    /\ snapshot.exists /\ ~snapshot.end /\ c \in snapshot.open \ snapshot.seen
    /\ snapshot' = [snapshot EXCEPT !.seen = snapshot.seen \cup {c}]
    /\ UNCHANGED <<operator, snapshots, ledger, orders, run, runs, overlapped>>

\* The wait for openOrderEnd is not looked at: a timeout ends the file all the same.
SnapshotEnds ==
    /\ snapshot.exists /\ ~snapshot.end
    /\ LateSnapshots \/ snapshot.seen = snapshot.open
    /\ snapshot' = [snapshot EXCEPT !.end = TRUE]
    /\ UNCHANGED <<operator, snapshots, ledger, orders, run, runs, overlapped>>

SnapshotAges ==
    /\ snapshot.fresh /\ snapshot.end
    /\ snapshot' = [snapshot EXCEPT !.fresh = FALSE]
    /\ UNCHANGED <<operator, snapshots, ledger, orders, run, runs, overlapped>>

Edit ==
    /\ edits < MaxEdits
    /\ edits' = edits + 1
    /\ \/ \E m \in Modes : exec_mode' = m /\ UNCHANGED <<stop_flag, mapping>>
       \/ stop_flag' = ~stop_flag /\ UNCHANGED <<exec_mode, mapping>>
       \/ mapping' = ~mapping /\ UNCHANGED <<exec_mode, stop_flag>>
    /\ UNCHANGED <<snapshotter, ledger, orders, run, runs, overlapped>>

-----------------------------------------------------------------------------

Init ==
    /\ exec_mode \in Modes
    /\ stop_flag = FALSE
    /\ mapping = TRUE
    /\ ledger = [k \in Keys |-> "NONE"]
    /\ snapshot = NoSnapshot
    /\ orders = <<>>
    /\ run = [e \in Executors |-> Off]
    /\ runs = 0 /\ edits = 0 /\ snapshots = 0
    /\ overlapped = FALSE

Work(e) ==
    \/ ReadSnapshot(e) \/ Skip(e) \/ MissingParts(e) \/ BlockedByReconcile(e) \/ Duplicate(e)
    \/ Reserve(e) \/ ReserveRaises(e) \/ Submit(e) \/ SubmitFails(e)
    \/ Acked(e) \/ Rejected(e) \/ TimesOut(e) \/ Finish(e)

Next ==
    \/ \E e \in Executors : Start(e) \/ Work(e) \/ Crash(e)
    \/ \E i \in DOMAIN orders : BrokerAnswers(i) \/ OrderEnds(i)
    \/ SnapshotStarts \/ (\E c \in Contracts : SnapshotRow(c)) \/ SnapshotEnds \/ SnapshotAges
    \/ Edit

Spec == Init /\ [][Next]_vars

-----------------------------------------------------------------------------
(* Properties.                                                             *)

SnapshotType == [exists : BOOLEAN, end : BOOLEAN, fresh : BOOLEAN, seen : SUBSET Contracts, open : SUBSET Contracts]

TypeOK ==
    /\ exec_mode \in Modes /\ stop_flag \in BOOLEAN /\ mapping \in BOOLEAN
    /\ ledger \in [Keys -> States]
    /\ snapshot \in SnapshotType
    /\ orders \in Seq([key : Keys, contract : Contracts, by : Executors,
                       state : {"pending", "open", "dead", "done"}])
    /\ run \in [Executors -> [pc : {"off", "snapshot", "plan", "reserved", "waiting"}, mode : Modes \cup {"DRY_RUN"},
                              index : [Keys -> States], snap : SnapshotType, pos : Nat \ {0}, attempted : Nat]]
    /\ runs \in Nat /\ edits \in Nat /\ snapshots \in Nat
    /\ overlapped \in BOOLEAN

\* "JSONL-backed, monotonic ledger for idempotency" (order_ledger_v0.py:136): without retries, and as
\* long as no two executors overlapped, a key is submitted at most once, whoever died where.
SubmittedOnce ==
    ~AllowRetry /\ ~overlapped => \A i, j \in DOMAIN orders : orders[i].key = orders[j].key => i = j

\* "Fail-closed snapshot validity for reconcile gate" (reconcile_open_orders_v0.py:325): nothing is
\* submitted for a contract that had an open order when the snapshot was asked for and still has it,
\* if the answer to the snapshot came in time.
OpenOrdersBlock ==
    [][\A e \in Executors : Reconcile /\ ~LateSnapshots /\ Submit(e) =>
           ~(Open(Current(e).contract) /\ Current(e).contract \in run[e].snap.open)]_vars
=============================================================================
