--------------------------- MODULE WaExecutorProofs ---------------------------
(***************************************************************************)
(* The executor's types, that without retries no key is submitted twice,   *)
(* and that an open order blocks its contract (WaExecutor.tla), for any    *)
(* plan, options, executors and bounds.                                    *)
(*                                                                         *)
(* A key is reserved before it is submitted, no record takes a key back to *)
(* "never seen", and the index of the one executor that runs takes no key  *)
(* for unseen that was submitted (IndexKnows), though it may miss what an  *)
(* append that raised has left in the file.                                *)
(***************************************************************************)
EXTENDS WaExecutor, SequenceTheorems, TLAPS

ExecPcs == {"off", "snapshot", "plan", "reserved", "waiting"}
Locals == [pc : ExecPcs, mode : Modes \cup {"DRY_RUN"}, index : [Keys -> States], snap : SnapshotType,
           pos : Nat \ {0}, attempted : Nat]
Orders == [key : Keys, contract : Contracts, by : Executors, state : {"pending", "open", "dead", "done"}]

-----------------------------------------------------------------------------
(* Types.                                                                  *)

\* An executor that is about to submit, or waits, has a record of the plan.
TInv == TypeOK /\ \A e \in Executors : run[e].pc \in {"reserved", "waiting"} => run[e].pos <= Len(Plan)

Becomes(e, r) == run' = [run EXCEPT ![e] = r]

LEMMA Typed ==
    ASSUME TInv, NEW e \in Executors
    PROVE  /\ run \in [Executors -> Locals] /\ run[e] \in Locals
           /\ run[e].index \in [Keys -> States] /\ run[e].pos \in Nat \ {0} /\ run[e].attempted \in Nat
           /\ ledger \in [Keys -> States] /\ snapshot \in SnapshotType /\ exec_mode \in Modes
           /\ orders \in Seq(Orders)
BY DEF TInv, TypeOK, Locals, ExecPcs, Orders

LEMMA CurrentType ==
    ASSUME TInv, NEW e \in Executors, run[e].pos <= Len(Plan)
    PROVE  Current(e).key \in Keys /\ Current(e).contract \in Contracts
<1>1. run[e].pos \in 1..Len(Plan) /\ Plan \in Seq(PlanRecord)
  BY Typed, PlanAssumption
<1>2. Current(e) \in PlanRecord
  BY <1>1, ElementOfSeq DEF Current
<1> QED BY <1>2 DEF PlanRecord

LEMMA OffType == Off \in Locals /\ Off.pc = "off"
BY DEF Off, Locals, ExecPcs, States, NoSnapshot, SnapshotType

LEMMA LoadedType ==
    ASSUME NEW old \in States, NEW state \in States \ {"NONE"}
    PROVE  Loaded(old, state) \in States \ {"NONE"}
BY DEF Loaded, Rank, States

\* A record in the ledger and in the index leaves both typed, and its key seen.
Record(files, key, state) == [files EXCEPT ![key] = Loaded(files[key], state)]

\* The file takes the record, unless the append raises before.
MayRecord(key, state) == ledger' = ledger \/ ledger' = Record(ledger, key, state)

LEMMA RecordType ==
    ASSUME NEW files \in [Keys -> States], NEW key \in Keys, NEW state \in States \ {"NONE"}
    PROVE  /\ Record(files, key, state) \in [Keys -> States]
           /\ Record(files, key, state)[key] # "NONE"
           /\ \A k \in Keys : k # key => Record(files, key, state)[k] = files[k]
           /\ \A k \in Keys : files[k] # "NONE" => Record(files, key, state)[k] # "NONE"
<1>1. Loaded(files[key], state) \in States \ {"NONE"}
  BY LoadedType
<1> QED BY <1>1 DEF Record

-----------------------------------------------------------------------------
(* What each step does to the locals of its executor.                      *)

LEMMA NextPlanLocals ==
    ASSUME TInv, NEW e \in Executors, NEW index \in [Keys -> States], NextPlan(e, index)
    PROVE  \E r \in Locals : Becomes(e, r) /\ r.pc = "plan" /\ r.index = index
<1> DEFINE r == [run[e] EXCEPT !.pc = "plan", !.index = index, !.pos = run[e].pos + 1]
<1>1. run[e].pos + 1 \in Nat \ {0} /\ run[e] \in Locals
  BY Typed
<1>2. r \in Locals /\ r.pc = "plan" /\ r.index = index
  BY <1>1 DEF Locals, ExecPcs
<1>3. run' = [run EXCEPT ![e] = r]
  BY DEF NextPlan
<1> QED BY <1>2, <1>3 DEF Becomes

LEMMA FinalizeLocals ==
    ASSUME TInv, NEW e \in Executors, run[e].pos <= Len(Plan), NEW state \in States \ {"NONE"},
           Finalize(e, Current(e).key, state)
    PROVE  /\ MayRecord(Current(e).key, state)
           /\ \E r \in Locals : /\ Becomes(e, r) /\ r.pc = "plan"
                                /\ \/ r.index = run[e].index
                                   \/ r.index = Record(run[e].index, Current(e).key, state)
<1>1. CASE AppendRaises(e, Current(e).key, state)
  <2>1. run[e].index \in [Keys -> States] /\ NextPlan(e, run[e].index)
    BY <1>1, Typed DEF AppendRaises
  <2> QED BY <1>1, <2>1, NextPlanLocals DEF AppendRaises, MayRecord, Record
<1>2. CASE ~AppendRaises(e, Current(e).key, state)
  <2>1. Record(run[e].index, Current(e).key, state) \in [Keys -> States]
    BY Typed, CurrentType, RecordType
  <2>2. NextPlan(e, Record(run[e].index, Current(e).key, state))
    BY <1>2 DEF Finalize, Record
  <2> QED BY <1>2, <2>1, <2>2, NextPlanLocals DEF Finalize, MayRecord, Record
<1> QED BY <1>1, <1>2

\* A step of an executor is one of these; "key" is that of its plan record.
Starts(e, r) == r.pc = "snapshot" /\ r.index = ledger /\ UNCHANGED <<ledger, orders>>
Idles(e, r) == r.pc \in {"off", "plan"} /\ r.index = run[e].index /\ UNCHANGED <<ledger, orders, overlapped>>
Stops(e, r) == r.pc = "off" /\ UNCHANGED <<ledger, orders, overlapped>>
Reserves(e, r, key) ==
    /\ r.pc = "reserved" /\ r.pos = run[e].pos
    /\ Reservable(run[e].index[key])
    /\ ledger' = Record(ledger, key, "RESERVED")
    /\ r.index = [run[e].index EXCEPT ![key] = "RESERVED"]
    /\ UNCHANGED <<orders, overlapped>>
Submits(e, r, key) ==
    /\ run[e].pc = "reserved" /\ r.pc = "waiting" /\ r.pos = run[e].pos /\ r.index = run[e].index
    /\ \E order \in Orders : order.key = key /\ orders' = Append(orders, order)
    /\ UNCHANGED <<ledger, overlapped>>
Finalizes(e, r, key) ==
    /\ r.pc = "plan"
    /\ \E state \in States \ {"NONE"} :
          /\ MayRecord(key, state)
          /\ r.index = run[e].index \/ r.index = Record(run[e].index, key, state)
    /\ UNCHANGED <<orders, overlapped>>

Planned(e) == run[e].pos <= Len(Plan) /\ Current(e).key \in Keys

LEMMA StepLocals ==
    ASSUME TInv, NEW e \in Executors, Start(e) \/ Work(e) \/ Crash(e)
    PROVE  \E r \in Locals :
             /\ Becomes(e, r)
             /\ \/ Start(e) /\ Starts(e, r)
                \/ /\ Running(e)
                   /\ \/ Idles(e, r)
                      \/ Stops(e, r)
                      \/ Planned(e) /\ \/ Reserves(e, r, Current(e).key)
                                       \/ Submits(e, r, Current(e).key)
                                       \/ Finalizes(e, r, Current(e).key)
<1> /\ run \in [Executors -> Locals] /\ run[e] \in Locals
    /\ run[e].index \in [Keys -> States] /\ run[e].attempted \in Nat
    /\ ledger \in [Keys -> States] /\ snapshot \in SnapshotType /\ exec_mode \in Modes
  BY Typed
<1>1. CASE Start(e)
  <2> DEFINE r == [Off EXCEPT !.pc = "snapshot", !.mode = exec_mode, !.index = ledger]
  <2>1. r \in Locals /\ r.pc = "snapshot" /\ r.index = ledger
    BY OffType DEF Locals, ExecPcs
  <2>2. run' = [run EXCEPT ![e] = r] /\ UNCHANGED <<ledger, orders>>
    BY <1>1 DEF Start
  <2> HIDE DEF r
  <2> QED BY <1>1, <2>1, <2>2 DEF Becomes, Starts
<1>2. CASE ReadSnapshot(e)
  <2> DEFINE r == [run[e] EXCEPT !.pc = "plan", !.snap = snapshot]
  <2>1. r \in Locals /\ r.pc = "plan" /\ r.index = run[e].index
    BY DEF Locals, ExecPcs
  <2>2. run' = [run EXCEPT ![e] = r] /\ UNCHANGED <<ledger, orders, overlapped>> /\ Running(e)
    BY <1>2 DEF ReadSnapshot, At, Running
  <2> HIDE DEF r
  <2> QED BY <2>1, <2>2 DEF Becomes, Idles
<1>3. CASE Skip(e) \/ BlockedByReconcile(e) \/ Duplicate(e)
  <2>1. NextPlan(e, run[e].index) /\ UNCHANGED <<ledger, orders, overlapped>> /\ Running(e)
    BY <1>3 DEF Skip, BlockedByReconcile, Duplicate, Checked, InPlan, At, Running
  <2>2. PICK r \in Locals : Becomes(e, r) /\ r.pc = "plan" /\ r.index = run[e].index
    BY <2>1, NextPlanLocals
  <2> QED BY <2>1, <2>2 DEF Idles
<1>4. ASSUME InPlan(e) \/ At(e, "reserved") \/ At(e, "waiting")
      PROVE  Planned(e) /\ Running(e)
  <2>1. run[e].pos <= Len(Plan) /\ Running(e)
    BY <1>4 DEF InPlan, At, TInv, Running
  <2> QED BY <2>1, CurrentType DEF Planned
<1>5. CASE MissingParts(e) \/ ReserveRaises(e) \/ SubmitFails(e) \/ Acked(e) \/ Rejected(e) \/ TimesOut(e)
  <2>1. PICK state \in States \ {"NONE"} : Finalize(e, Current(e).key, state)
    BY <1>5 DEF MissingParts, ReserveRaises, SubmitFails, Acked, Rejected, TimesOut, Finalize, States
  <2>2. Planned(e) /\ Running(e) /\ UNCHANGED <<orders, overlapped>>
    BY <1>4, <1>5 DEF MissingParts, ReserveRaises, Checked, SubmitFails, Acked, Rejected, TimesOut
  <2>3. /\ MayRecord(Current(e).key, state)
        /\ \E r \in Locals : /\ Becomes(e, r) /\ r.pc = "plan"
                             /\ \/ r.index = run[e].index
                                \/ r.index = Record(run[e].index, Current(e).key, state)
    BY <2>1, <2>2, FinalizeLocals DEF Planned
  <2> QED BY <2>2, <2>3 DEF Finalizes
<1>6. CASE Reserve(e)
  <2> DEFINE key == Current(e).key
             index == [run[e].index EXCEPT ![key] = "RESERVED"]
             r == [run[e] EXCEPT !.pc = "reserved", !.index = index, !.attempted = run[e].attempted + 1]
  <2>1. Planned(e) /\ Running(e) /\ UNCHANGED <<orders, overlapped>> /\ Reservable(run[e].index[key])
    BY <1>4, <1>6 DEF Reserve, Checked
  <2>2. ledger' = Record(ledger, key, "RESERVED") /\ run' = [run EXCEPT ![e] = r]
    BY <1>6 DEF Reserve, ReserveKey, Record
  <2>3. index \in [Keys -> States]
    BY <2>1 DEF Planned, States
  <2>4. r \in Locals /\ r.pc = "reserved" /\ r.pos = run[e].pos /\ r.index = index
    <3>1. run[e].attempted + 1 \in Nat /\ "reserved" \in ExecPcs
      BY DEF ExecPcs
    <3> HIDE DEF index
    <3> QED BY <2>3, <3>1 DEF Locals
  <2> HIDE DEF r
  <2> QED BY <2>1, <2>2, <2>4 DEF Becomes, Reserves
<1>7. CASE Submit(e)
  <2> DEFINE order == [key |-> Current(e).key, contract |-> Current(e).contract, by |-> e, state |-> "pending"]
             r == [run[e] EXCEPT !.pc = "waiting"]
  <2>1. Planned(e) /\ Running(e) /\ run[e].pc = "reserved" /\ UNCHANGED <<ledger, overlapped>>
    BY <1>4, <1>7 DEF Submit, At
  <2>2. order \in Orders /\ order.key = Current(e).key
    BY <2>1, CurrentType DEF Planned, Orders
  <2>3. orders' = Append(orders, order) /\ run' = [run EXCEPT ![e] = r]
    BY <1>7 DEF Submit
  <2>4. r \in Locals /\ r.pc = "waiting" /\ r.pos = run[e].pos /\ r.index = run[e].index
    BY DEF Locals, ExecPcs
  <2> HIDE DEF r, order
  <2> QED BY <2>1, <2>2, <2>3, <2>4 DEF Becomes, Submits
<1>8. CASE Finish(e) \/ Crash(e)
  <2>1. run' = [run EXCEPT ![e] = Off] /\ UNCHANGED <<ledger, orders, overlapped>> /\ Running(e)
    BY <1>8 DEF Finish, Crash, At, Running
  <2> QED BY <2>1, OffType DEF Becomes, Stops
<1> QED BY <1>1, <1>2, <1>3, <1>5, <1>6, <1>7, <1>8 DEF Work

\* What another than an executor does: it touches neither run nor ledger, and of the orders only their state.
Outside ==
    \/ \E i \in DOMAIN orders : BrokerAnswers(i) \/ OrderEnds(i)
    \/ SnapshotStarts \/ (\E c \in Contracts : SnapshotRow(c)) \/ SnapshotEnds \/ SnapshotAges
    \/ Edit
    \/ UNCHANGED vars

SameKeys == DOMAIN orders' = DOMAIN orders /\ \A i \in DOMAIN orders : orders'[i].key = orders[i].key

LEMMA OrderMoves ==
    ASSUME TInv, NEW i \in DOMAIN orders, NEW s \in {"open", "dead", "done"},
           orders' = [orders EXCEPT ![i].state = s]
    PROVE  orders' \in Seq(Orders) /\ SameKeys
<1> DEFINE order == [orders[i] EXCEPT !.state = s]
<1>1. orders \in Seq(Orders) /\ i \in 1..Len(orders) /\ orders[i] \in Orders
  <2>1. orders \in Seq(Orders)
    BY DEF TInv, TypeOK, Orders
  <2>2. i \in 1..Len(orders)
    BY <2>1
  <2> QED BY <2>1, <2>2, ElementOfSeq
<1>2. order \in Orders /\ order.key = orders[i].key
  BY <1>1 DEF Orders
<1>3. orders' = [orders EXCEPT ![i] = order]
  OBVIOUS
<1> HIDE DEF order
<1>4. /\ orders' \in Seq(Orders) /\ Len(orders') = Len(orders)
      /\ \A j \in 1..Len(orders) : orders'[j] = IF j = i THEN order ELSE orders[j]
  BY <1>1, <1>2, <1>3, ExceptSeq
<1>5. DOMAIN orders = 1..Len(orders) /\ DOMAIN orders' = 1..Len(orders')
  BY <1>1, <1>4
<1> QED BY <1>2, <1>4, <1>5 DEF SameKeys

LEMMA OutsideFacts ==
    ASSUME TInv, Outside
    PROVE  /\ orders' \in Seq(Orders) /\ SameKeys
           /\ exec_mode' \in Modes /\ stop_flag' \in BOOLEAN /\ mapping' \in BOOLEAN
           /\ snapshot' \in SnapshotType /\ edits' \in Nat /\ snapshots' \in Nat
           /\ UNCHANGED <<run, ledger, runs, overlapped>>
<1> orders \in Seq(Orders)
  BY DEF TInv, TypeOK, Orders
<1> TypeOK
  BY DEF TInv
<1> USE DEF operator, snapshotter
<1>1. ASSUME NEW i \in DOMAIN orders, BrokerAnswers(i) \/ OrderEnds(i)
      PROVE  orders' \in Seq(Orders) /\ SameKeys
  <2>1. PICK s \in {"open", "dead", "done"} : orders' = [orders EXCEPT ![i].state = s]
    BY <1>1 DEF BrokerAnswers, OrderEnds
  <2> QED BY <2>1, OrderMoves
<1>2. CASE \E i \in DOMAIN orders : BrokerAnswers(i) \/ OrderEnds(i)
  BY <1>1, <1>2 DEF BrokerAnswers, OrderEnds, TypeOK
<1>3. CASE SnapshotStarts
  BY <1>3 DEF SnapshotStarts, SnapshotType, TypeOK, SameKeys
<1>4. CASE (\E c \in Contracts : SnapshotRow(c)) \/ SnapshotEnds \/ SnapshotAges
  <2>1. UNCHANGED <<operator, snapshots, ledger, orders, run, runs, overlapped>>
    BY <1>4 DEF SnapshotRow, SnapshotEnds, SnapshotAges
  <2>2. snapshot \in SnapshotType
    BY DEF TypeOK
  <2>3. snapshot' \in SnapshotType
    <3>1. CASE \E c \in Contracts : SnapshotRow(c)
      <4>1. PICK c \in Contracts : snapshot' = [snapshot EXCEPT !.seen = snapshot.seen \cup {c}]
        BY <3>1 DEF SnapshotRow
      <4>2. snapshot.seen \cup {c} \in SUBSET Contracts
        BY <2>2 DEF SnapshotType
      <4> QED BY <2>2, <4>1, <4>2 DEF SnapshotType
    <3>2. CASE SnapshotEnds \/ SnapshotAges
      <4>1. snapshot' = [snapshot EXCEPT !.end = TRUE] \/ snapshot' = [snapshot EXCEPT !.fresh = FALSE]
        BY <3>2 DEF SnapshotEnds, SnapshotAges
      <4> QED BY <2>2, <4>1 DEF SnapshotType
    <3> QED BY <1>4, <3>1, <3>2
  <2> QED BY <2>1, <2>3 DEF TypeOK, SameKeys
<1>5. CASE Edit
  <2>1. exec_mode' \in Modes /\ edits' \in Nat /\ UNCHANGED <<snapshotter, ledger, orders, run, runs, overlapped>>
    BY <1>5 DEF Edit, TypeOK
  <2>2. stop_flag' = stop_flag \/ stop_flag' = ~stop_flag
    BY <1>5 DEF Edit
  <2>3. mapping' \in BOOLEAN
    BY <1>5 DEF Edit, TypeOK
  <2> QED BY <2>1, <2>2, <2>3 DEF TypeOK, SameKeys
<1>6. CASE UNCHANGED vars
  BY <1>6 DEF vars, TypeOK, SameKeys
<1> QED BY <1>2, <1>3, <1>4, <1>5, <1>6 DEF Outside

LEMMA StepUnchanged ==
    ASSUME TypeOK, NEW e \in Executors, Start(e) \/ Work(e) \/ Crash(e)
    PROVE  /\ UNCHANGED <<exec_mode, stop_flag, mapping, edits, snapshot, snapshots>>
           /\ runs' \in Nat /\ overlapped' \in BOOLEAN
<1> USE DEF operator, snapshotter
<1>1. CASE Start(e)
  BY <1>1 DEF Start, TypeOK
<1>2. CASE \/ ReadSnapshot(e) \/ Skip(e) \/ MissingParts(e) \/ BlockedByReconcile(e) \/ Duplicate(e)
           \/ Reserve(e) \/ ReserveRaises(e)
  BY <1>2 DEF ReadSnapshot, Skip, MissingParts, BlockedByReconcile, Duplicate, Reserve, ReserveRaises, TypeOK
<1>3. CASE Submit(e) \/ SubmitFails(e) \/ Acked(e) \/ Rejected(e) \/ TimesOut(e) \/ Finish(e) \/ Crash(e)
  BY <1>3 DEF Submit, SubmitFails, Acked, Rejected, TimesOut, Finish, Crash, TypeOK
<1> QED BY <1>1, <1>2, <1>3 DEF Work

LEMMA TypesInit == Init => TInv
<1> SUFFICES ASSUME Init PROVE TInv
  OBVIOUS
<1>1. run \in [Executors -> Locals] /\ \A e \in Executors : run[e].pc = "off"
  BY OffType DEF Init
<1>2. orders = << >> /\ << >> \in Seq([key : Keys, contract : Contracts, by : Executors,
                                       state : {"pending", "open", "dead", "done"}])
  BY DEF Init
<1>3. snapshot \in SnapshotType /\ ledger \in [Keys -> States]
  BY DEF Init, NoSnapshot, SnapshotType, States
<1> QED BY <1>1, <1>2, <1>3 DEF Init, TInv, TypeOK, Locals, ExecPcs

LEMMA TypesStep == TInv /\ [Next]_vars => TInv'
<1> SUFFICES ASSUME TInv, Next \/ UNCHANGED vars PROVE TInv'
  OBVIOUS
<1> TypeOK
  BY DEF TInv
<1>1. ASSUME NEW e \in Executors, Start(e) \/ Work(e) \/ Crash(e)
      PROVE  TInv'
  <2>1. PICK r \in Locals :
          /\ Becomes(e, r)
          /\ Starts(e, r) \/ Idles(e, r) \/ Stops(e, r)
             \/ (Planned(e) /\ (\/ Reserves(e, r, Current(e).key) \/ Submits(e, r, Current(e).key)
                                \/ Finalizes(e, r, Current(e).key)))
    BY <1>1, StepLocals
  <2>2. /\ run' \in [Executors -> Locals] /\ run'[e] = r
        /\ \A f \in Executors \ {e} : run'[f] = run[f]
    BY <2>1, Typed DEF Becomes
  <2>3. ledger' \in [Keys -> States]
    <3>1. ledger \in [Keys -> States] /\ "RESERVED" \in States \ {"NONE"}
      BY Typed DEF States
    <3> QED BY <2>1, <3>1, RecordType DEF Starts, Idles, Stops, Planned, Reserves, Submits, Finalizes, MayRecord
  <2>4. orders' \in Seq(Orders)
    <3>1. orders \in Seq(Orders)
      BY Typed
    <3> QED BY <2>1, <3>1, AppendProperties DEF Starts, Idles, Stops, Reserves, Submits, Finalizes
  <2>5. r.pc \in {"reserved", "waiting"} => r.pos <= Len(Plan)
    BY <2>1 DEF Starts, Idles, Stops, Planned, Reserves, Submits, Finalizes
  <2>6. \A f \in Executors : run'[f].pc \in {"reserved", "waiting"} => run'[f].pos <= Len(Plan)
    BY <2>2, <2>5 DEF TInv
  <2> QED BY <1>1, <2>2, <2>3, <2>4, <2>6, StepUnchanged DEF TInv, TypeOK, Locals, ExecPcs, Orders
<1>2. ASSUME Outside PROVE TInv'
  BY <1>2, OutsideFacts DEF TInv, TypeOK, Orders
<1> QED BY <1>1, <1>2 DEF Next, Outside

\* Whatever answers come late, whoever dies and whatever the operator writes, the executors' locals,
\* the ledger, the snapshot and the orders keep their types.
THEOREM ExecutorTypeCorrect == Spec => []TypeOK
<1>1. TInv => TypeOK
  BY DEF TInv
<1> QED BY <1>1, TypesInit, TypesStep, PTL DEF Spec

-----------------------------------------------------------------------------
(* No key is submitted twice.                                              *)

Alone == \A e, f \in Executors : Running(e) /\ Running(f) => e = f

KeySubmitted(key) == \E i \in DOMAIN orders : orders[i].key = key

\* The ledger knows every order, and no key has two.
LedgerKnows == \A i \in DOMAIN orders : ledger[orders[i].key] # "NONE"
OneOrderPerKey == \A i, j \in DOMAIN orders : orders[i].key = orders[j].key => i = j

\* What the locals of a running executor have to do with ledger and orders.
IndexKnows(r) == r.pc # "off" => \A k \in Keys : r.index[k] = "NONE" => ~KeySubmitted(k)
ReservedIsNew(r) ==
    r.pc = "reserved" => LET key == Plan[r.pos].key
                         IN  ~KeySubmitted(key) /\ ledger[key] # "NONE" /\ r.index[key] # "NONE"

SInv ==
    ~AllowRetry /\ ~overlapped =>
        /\ Alone /\ LedgerKnows /\ OneOrderPerKey
        /\ \A e \in Executors : IndexKnows(run[e]) /\ ReservedIsNew(run[e])

LEMMA OrderKeys ==
    ASSUME TInv, NEW i \in DOMAIN orders
    PROVE  orders[i].key \in Keys
<1>1. orders \in Seq(Orders)
  BY DEF TInv, TypeOK, Orders
<1>2. i \in 1..Len(orders)
  BY <1>1
<1>3. orders[i] \in Orders
  BY <1>1, <1>2, ElementOfSeq
<1> QED BY <1>3 DEF Orders

\* A record of any state in ledger and index keeps what they know of each other and of the orders.
LEMMA RecordKeeps ==
    ASSUME TInv, NEW e \in Executors, NEW r \in Locals, NEW key \in Keys, NEW state \in States \ {"NONE"},
           MayRecord(key, state), UNCHANGED orders,
           LedgerKnows, OneOrderPerKey, Running(e), IndexKnows(run[e]),
           \A k \in Keys : r.index[k] = "NONE" => run[e].index[k] = "NONE"
    PROVE  LedgerKnows' /\ OneOrderPerKey' /\ IndexKnows(r)'
<1>1. ledger \in [Keys -> States]
  BY Typed
<1>2. \A k \in Keys : ledger[k] # "NONE" => ledger'[k] # "NONE"
  BY <1>1, RecordType DEF MayRecord
<1>3. LedgerKnows' /\ OneOrderPerKey'
  BY <1>2, OrderKeys DEF LedgerKnows, OneOrderPerKey
<1>4. IndexKnows(r)'
  BY DEF IndexKnows, Running, KeySubmitted
<1> QED BY <1>3, <1>4

LEMMA StepKeeps ==
    ASSUME TInv, NEW e \in Executors, Start(e) \/ Work(e) \/ Crash(e), ~AllowRetry,
           LedgerKnows, OneOrderPerKey, IndexKnows(run[e]), ReservedIsNew(run[e])
    PROVE  \E r \in Locals : /\ Becomes(e, r)
                             /\ Start(e) \/ (Running(e) /\ overlapped' = overlapped)
                             /\ LedgerKnows' /\ OneOrderPerKey' /\ IndexKnows(r)' /\ ReservedIsNew(r)'
<1>1. PICK r \in Locals :
        /\ Becomes(e, r)
        /\ \/ Start(e) /\ Starts(e, r)
           \/ /\ Running(e)
              /\ \/ Idles(e, r)
                 \/ Stops(e, r)
                 \/ Planned(e) /\ \/ Reserves(e, r, Current(e).key)
                                  \/ Submits(e, r, Current(e).key)
                                  \/ Finalizes(e, r, Current(e).key)
  BY StepLocals
<1>2. run[e].index \in [Keys -> States] /\ ledger \in [Keys -> States] /\ orders \in Seq(Orders)
  BY Typed
<1>3. CASE Start(e) /\ Starts(e, r)
  BY <1>1, <1>3 DEF Starts, LedgerKnows, OneOrderPerKey, IndexKnows, ReservedIsNew, KeySubmitted
<1>4. CASE Running(e) /\ (Idles(e, r) \/ Stops(e, r))
  BY <1>1, <1>4 DEF Idles, Stops, Running, LedgerKnows, OneOrderPerKey, IndexKnows, ReservedIsNew,
         KeySubmitted
<1>5. CASE Running(e) /\ Planned(e) /\ Reserves(e, r, Current(e).key)
  <2> DEFINE key == Current(e).key
  <2>1. key \in Keys /\ run[e].index[key] = "NONE" /\ "RESERVED" \in States \ {"NONE"}
    BY <1>5 DEF Planned, Reserves, Reservable, States
  <2>2. r.pc = "reserved" /\ r.pos = run[e].pos /\ r.index = [run[e].index EXCEPT ![key] = "RESERVED"]
        /\ ledger' = Record(ledger, key, "RESERVED") /\ UNCHANGED <<orders, overlapped>>
    BY <1>5 DEF Reserves
  <2>3. r.index[key] # "NONE" /\ \A k \in Keys : r.index[k] = "NONE" => run[e].index[k] = "NONE"
    BY <1>2, <2>1, <2>2
  <2>4. LedgerKnows' /\ OneOrderPerKey' /\ IndexKnows(r)'
    <3>1. /\ TInv /\ e \in Executors /\ r \in Locals /\ key \in Keys /\ "RESERVED" \in States \ {"NONE"}
          /\ MayRecord(key, "RESERVED") /\ UNCHANGED orders
          /\ LedgerKnows /\ OneOrderPerKey /\ Running(e) /\ IndexKnows(run[e])
      BY <1>5, <2>1, <2>2 DEF MayRecord
    <3>2. \A k \in Keys : r.index[k] = "NONE" => run[e].index[k] = "NONE"
      BY <2>3
    <3> HIDE DEF key
    <3> QED BY ONLY <3>1, <3>2, RecordKeeps
  <2>5. ~KeySubmitted(key) /\ ledger'[key] # "NONE"
    <3>1. ~KeySubmitted(key)
      BY <1>5, <2>1 DEF IndexKnows, Running
    <3> HIDE DEF key
    <3> QED BY <1>2, <2>1, <2>2, <3>1, RecordType
  <2>6. ReservedIsNew(r)'
    BY <2>2, <2>3, <2>5 DEF ReservedIsNew, KeySubmitted, Current
  <2> QED BY <1>1, <1>5, <2>2, <2>4, <2>6
<1>6. CASE Running(e) /\ Planned(e) /\ Submits(e, r, Current(e).key)
  <2> DEFINE key == Current(e).key
  <2>1. PICK order \in Orders : order.key = key /\ orders' = Append(orders, order)
    BY <1>6 DEF Submits
  <2>2. run[e].pc = "reserved" /\ r.pc = "waiting" /\ r.index = run[e].index /\ UNCHANGED <<ledger, overlapped>>
    BY <1>6 DEF Submits
  <2>3. ~KeySubmitted(key) /\ ledger[key] # "NONE" /\ run[e].index[key] # "NONE"
    BY <2>2 DEF ReservedIsNew, Current
  <2>4. /\ DOMAIN orders' = DOMAIN orders \cup {Len(orders) + 1}
        /\ \A i \in DOMAIN orders : orders'[i] = orders[i]
        /\ orders'[Len(orders) + 1] = order
    BY <1>2, <2>1, AppendProperties
  <2>5. LedgerKnows' /\ OneOrderPerKey'
    BY <2>1, <2>2, <2>3, <2>4 DEF LedgerKnows, OneOrderPerKey, KeySubmitted
  <2>6. ASSUME NEW k \in Keys, r.index[k] = "NONE" PROVE ~KeySubmitted(k)'
    <3>1. ~KeySubmitted(k) /\ k # key
      BY <1>6, <2>2, <2>3, <2>6 DEF IndexKnows, Running
    <3> QED BY <2>1, <2>4, <3>1 DEF KeySubmitted
  <2>7. IndexKnows(r)' /\ ReservedIsNew(r)'
    BY <2>2, <2>6 DEF IndexKnows, ReservedIsNew
  <2> QED BY <1>1, <1>6, <2>2, <2>5, <2>7
<1>7. CASE Running(e) /\ Planned(e) /\ Finalizes(e, r, Current(e).key)
  <2> DEFINE key == Current(e).key
  <2>1. PICK state \in States \ {"NONE"} :
          /\ MayRecord(key, state)
          /\ r.index = run[e].index \/ r.index = Record(run[e].index, key, state)
    BY <1>7 DEF Finalizes
  <2>2. key \in Keys /\ r.pc = "plan" /\ UNCHANGED <<orders, overlapped>>
    BY <1>7 DEF Finalizes, Planned
  <2>3. \A k \in Keys : r.index[k] = "NONE" => run[e].index[k] = "NONE"
    <3>1. run[e].index \in [Keys -> States] /\ key \in Keys /\ state \in States \ {"NONE"}
      BY <1>2, <2>1, <2>2
    <3> HIDE DEF key
    <3>2. \A k \in Keys : run[e].index[k] # "NONE" => Record(run[e].index, key, state)[k] # "NONE"
      BY ONLY <3>1, RecordType
    <3> QED BY <2>1, <3>2
  <2>4. LedgerKnows' /\ OneOrderPerKey' /\ IndexKnows(r)'
    <3>1. /\ TInv /\ e \in Executors /\ r \in Locals /\ key \in Keys /\ state \in States \ {"NONE"}
          /\ MayRecord(key, state) /\ UNCHANGED orders
          /\ LedgerKnows /\ OneOrderPerKey /\ Running(e) /\ IndexKnows(run[e])
      BY <1>7, <2>1, <2>2
    <3>2. \A k \in Keys : r.index[k] = "NONE" => run[e].index[k] = "NONE"
      BY <2>3
    <3> HIDE DEF key
    <3> QED BY ONLY <3>1, <3>2, RecordKeeps
  <2>5. ReservedIsNew(r)'
    BY <2>2 DEF ReservedIsNew
  <2> QED BY <1>1, <1>7, <2>2, <2>4, <2>5
<1> QED BY <1>1, <1>3, <1>4, <1>5, <1>6, <1>7

LEMMA InvStep ==
    ASSUME TInv, SInv, NEW e \in Executors, Start(e) \/ Work(e) \/ Crash(e)
    PROVE  SInv'
<1> SUFFICES ASSUME ~AllowRetry, ~overlapped'
             PROVE  /\ Alone' /\ LedgerKnows' /\ OneOrderPerKey'
                    /\ \A f \in Executors : IndexKnows(run[f])' /\ ReservedIsNew(run[f])'
  BY DEF SInv
<1>1. Start(e) => ~overlapped /\ \A f \in Executors : ~Running(f)
  BY DEF Start
<1>2. ~Start(e) => overlapped' = overlapped
  BY DEF Work, Crash, ReadSnapshot, Skip, MissingParts, BlockedByReconcile, Duplicate, Reserve, ReserveRaises,
         Submit, SubmitFails, Acked, Rejected, TimesOut, Finish
<1>3. /\ Alone /\ LedgerKnows /\ OneOrderPerKey
      /\ \A f \in Executors : IndexKnows(run[f]) /\ ReservedIsNew(run[f])
  BY <1>1, <1>2 DEF SInv
<1>4. PICK r \in Locals : /\ Becomes(e, r)
                          /\ Start(e) \/ (Running(e) /\ overlapped' = overlapped)
                          /\ LedgerKnows' /\ OneOrderPerKey' /\ IndexKnows(r)' /\ ReservedIsNew(r)'
  BY <1>3, StepKeeps
<1>5. \A f \in Executors \ {e} : ~Running(f)
  BY <1>1, <1>3, <1>4 DEF Alone
<1>6. run' \in [Executors -> Locals] /\ run'[e] = r /\ \A f \in Executors \ {e} : run'[f] = run[f]
  BY <1>4, Typed DEF Becomes
<1>7. Alone'
  BY <1>5, <1>6 DEF Alone, Running
<1>8. ASSUME NEW f \in Executors PROVE IndexKnows(run[f])' /\ ReservedIsNew(run[f])'
  <2>1. CASE f = e
    BY <1>4, <1>6, <2>1 DEF IndexKnows, ReservedIsNew, KeySubmitted
  <2>2. CASE f # e
    BY <1>5, <1>6, <2>2 DEF Running, IndexKnows, ReservedIsNew
  <2> QED BY <2>1, <2>2
<1> QED BY <1>4, <1>7, <1>8

LEMMA InvOutside ==
    ASSUME TInv, SInv, Outside
    PROVE  SInv'
<1>1. SameKeys /\ UNCHANGED <<run, ledger, overlapped>>
  BY OutsideFacts
<1> QED BY <1>1 DEF SInv, SameKeys, Alone, Running, LedgerKnows, OneOrderPerKey, IndexKnows, ReservedIsNew, KeySubmitted

LEMMA InvInit == Init => SInv
<1> SUFFICES ASSUME Init PROVE SInv
  OBVIOUS
<1>1. \A e \in Executors : run[e].pc = "off"
  BY OffType DEF Init
<1>2. orders = << >> /\ DOMAIN orders = {}
  BY DEF Init
<1> QED BY <1>1, <1>2 DEF SInv, Alone, Running, LedgerKnows, OneOrderPerKey, IndexKnows, ReservedIsNew

LEMMA ExecutorInvariant == Spec => [](TInv /\ SInv)
<1>1. Init => TInv /\ SInv
  BY TypesInit, InvInit
<1>2. TInv /\ SInv /\ [Next]_vars => (TInv /\ SInv)'
  <2> SUFFICES ASSUME TInv, SInv, Next \/ UNCHANGED vars PROVE TInv' /\ SInv'
    OBVIOUS
  <2>1. TInv'
    BY TypesStep
  <2>2. SInv'
    BY InvStep, InvOutside DEF Next, Outside
  <2> QED BY <2>1, <2>2
<1> QED BY <1>1, <1>2, PTL DEF Spec

\* Without retries, and unless two executors overlapped, a key is submitted at most once, whoever
\* died between reserving, submitting and recording, and however late an answer came.
THEOREM SubmittedAtMostOnce == Spec => []SubmittedOnce
<1>1. TInv /\ SInv => SubmittedOnce
  BY DEF SInv, OneOrderPerKey, SubmittedOnce
<1> QED BY <1>1, ExecutorInvariant, PTL

-----------------------------------------------------------------------------
(* An open order blocks its contract.                                      *)

\* A finished snapshot holds every order that was open when it was asked for, if its answer came in time.
Faithful(snap) == ~LateSnapshots /\ snap.end => snap.seen = snap.open

\* Who has reserved found the snapshot usable, and the contract not in it.
Cleared(r) == Reconcile /\ r.pc = "reserved" => SnapshotUsable(r.snap) /\ Plan[r.pos].contract \notin r.snap.seen

GInv == Faithful(snapshot) /\ \A e \in Executors : Faithful(run[e].snap) /\ Cleared(run[e])

LEMMA OffCleared == Faithful(Off.snap) /\ Cleared(Off)
BY DEF Faithful, Cleared, Off, NoSnapshot

\* Only reading the snapshot changes the one an executor knows, and only reserving brings it to "reserved".
LEMMA SnapLocals ==
    ASSUME TInv, GInv, NEW e \in Executors, Start(e) \/ Work(e) \/ Crash(e)
    PROVE  /\ Faithful(run'[e].snap) /\ Cleared(run'[e])
           /\ \A f \in Executors \ {e} : run'[f] = run[f]
<1>1. run \in [Executors -> Locals] /\ run[e] \in Locals /\ Off \in Locals
  BY Typed, OffType
<1>2. /\ Faithful(snapshot) /\ Faithful(run[e].snap)
      /\ \A snap : Faithful(snap) <=> (~LateSnapshots /\ snap.end => snap.seen = snap.open)
  BY DEF GInv, Faithful
<1> USE DEF Cleared
<1>3. CASE Start(e)
  <2>1. /\ run'[e].pc = "snapshot" /\ run'[e].snap = Off.snap
        /\ \A f \in Executors \ {e} : run'[f] = run[f]
    BY <1>1, <1>3 DEF Start, Locals
  <2> QED BY <2>1, OffCleared
<1>4. CASE ReadSnapshot(e)
  <2>1. /\ run'[e].pc = "plan" /\ run'[e].snap = snapshot
        /\ \A f \in Executors \ {e} : run'[f] = run[f]
    BY <1>1, <1>4 DEF ReadSnapshot, Locals
  <2> QED BY <1>2, <2>1
<1>5. ASSUME NEW index, NextPlan(e, index)
      PROVE  /\ run'[e].pc = "plan" /\ run'[e].snap = run[e].snap
             /\ \A f \in Executors \ {e} : run'[f] = run[f]
  BY <1>1, <1>5 DEF NextPlan, Locals
<1>6. CASE \/ Skip(e) \/ MissingParts(e) \/ BlockedByReconcile(e) \/ Duplicate(e) \/ ReserveRaises(e)
           \/ SubmitFails(e) \/ Acked(e) \/ Rejected(e) \/ TimesOut(e)
  <2>1. \E index : NextPlan(e, index)
    BY <1>6 DEF Skip, MissingParts, BlockedByReconcile, Duplicate, ReserveRaises, SubmitFails, Acked, Rejected,
                TimesOut, Finalize, AppendRaises
  <2> QED BY <1>2, <1>5, <2>1
<1>7. CASE Reserve(e)
  <2>1. /\ run'[e].snap = run[e].snap /\ run'[e].pos = run[e].pos
        /\ \A f \in Executors \ {e} : run'[f] = run[f]
    BY <1>1, <1>7 DEF Reserve, ReserveKey, Locals
  <2>2. Reconcile => SnapshotUsable(run[e].snap) /\ Plan[run[e].pos].contract \notin run[e].snap.seen
    BY <1>7 DEF Reserve, Checked, ReconcileBlocks, Current
  <2> QED BY <1>2, <2>1, <2>2
<1>8. CASE Submit(e)
  <2>1. /\ run'[e].pc = "waiting" /\ run'[e].snap = run[e].snap
        /\ \A f \in Executors \ {e} : run'[f] = run[f]
    BY <1>1, <1>8 DEF Submit, Locals
  <2> QED BY <1>2, <2>1
<1>9. CASE Finish(e) \/ Crash(e)
  <2>1. run'[e] = Off /\ \A f \in Executors \ {e} : run'[f] = run[f]
    BY <1>1, <1>9 DEF Finish, Crash
  <2> QED BY <2>1, OffCleared
<1> QED BY <1>3, <1>4, <1>6, <1>7, <1>8, <1>9 DEF Work

\* The end marker comes after the last row, unless a timeout ends the file.
LEMMA SnapshotStays ==
    ASSUME TInv, Faithful(snapshot), Outside
    PROVE  Faithful(snapshot)'
<1>1. snapshot \in SnapshotType
  BY DEF TInv, TypeOK
<1> USE DEF Faithful, SnapshotType
<1>2. CASE SnapshotStarts
  BY <1>2 DEF SnapshotStarts
<1>3. CASE (\E c \in Contracts : SnapshotRow(c)) \/ SnapshotEnds \/ SnapshotAges
  BY <1>1, <1>3 DEF SnapshotRow, SnapshotEnds, SnapshotAges
<1>4. CASE (\E i \in DOMAIN orders : BrokerAnswers(i) \/ OrderEnds(i)) \/ Edit \/ UNCHANGED vars
  BY <1>4 DEF BrokerAnswers, OrderEnds, Edit, snapshotter, vars
<1> QED BY <1>2, <1>3, <1>4 DEF Outside

\* Nothing is submitted for a contract that had an open order when the snapshot was asked for, if the
\* answer to the snapshot came in time (reconcile_open_orders_v0.py, and its use in the executor).
THEOREM OpenOrdersDoBlock == Spec => OpenOrdersBlock
<1>1. Init => TInv /\ GInv
  <2>1. Init => Faithful(snapshot) /\ \A e \in Executors : run[e] = Off
    BY DEF Init, Faithful, NoSnapshot
  <2> QED BY <2>1, TypesInit, OffCleared DEF GInv
<1>2. TInv /\ GInv /\ [Next]_vars => (TInv /\ GInv)'
  <2> SUFFICES ASSUME TInv, GInv, Next \/ UNCHANGED vars PROVE GInv'
    BY TypesStep
  <2>1. ASSUME NEW e \in Executors, Start(e) \/ Work(e) \/ Crash(e)
        PROVE  GInv'
    <3>1. snapshot' = snapshot
      BY <2>1, StepUnchanged DEF TInv
    <3> QED BY <2>1, <3>1, SnapLocals DEF GInv, Faithful, Cleared
  <2>2. CASE Outside
    <3>1. Faithful(snapshot)' /\ run' = run
      BY <2>2, SnapshotStays, OutsideFacts DEF GInv
    <3> QED BY <3>1 DEF GInv, Faithful, Cleared
  <2> QED BY <2>1, <2>2 DEF Next, Outside
<1>3. ASSUME TInv, GInv, NEW e \in Executors, Reconcile, ~LateSnapshots, Submit(e)
      PROVE  Current(e).contract \notin run[e].snap.open
  <2>1. run[e].snap.end /\ Current(e).contract \notin run[e].snap.seen
    BY <1>3 DEF GInv, Cleared, Submit, At, SnapshotUsable, Current
  <2> QED BY <1>3, <2>1 DEF GInv, Faithful
<1>4. TInv /\ GInv /\ [Next]_vars
        => [\A e \in Executors : Reconcile /\ ~LateSnapshots /\ Submit(e) =>
                ~(Open(Current(e).contract) /\ Current(e).contract \in run[e].snap.open)]_vars
  BY <1>3
<1> QED BY <1>1, <1>2, <1>4, PTL DEF Spec, OpenOrdersBlock
===============================================================================
