---------------------------- MODULE SenderProofs ----------------------------
(***************************************************************************)
(* What the sender promises across invocations (RealSender.tla), for any   *)
(* plans, files, limits and bounds, whoever dies where: its types          *)
(* (SenderTypeOK), one order per key (SentAtMostOnce), the run limit       *)
(* (RunLimitUpToCrashes), increasing order ids (OrderIdsIncrease); and     *)
(* what the lock of the operations loop that starts it is worth            *)
(* (OpsLoop.tla), for any number of loops, deaths and edits.               *)
(*                                                                         *)
(* A key is reserved in the ledger file before its order is placed, so the *)
(* file knows every order (LedgerKnows); and the ledger in the memory of   *)
(* the one sender that runs is the file (LedgerIsFile), so a key it may    *)
(* send has no order yet.  The sent log counts an order last, so there is  *)
(* at most one order more than it counts for the sender that runs, and one *)
(* for each that died (OrdersCounted).                                     *)
(*                                                                         *)
(* In a SafeSetting one loop runs, and owns the lock, and two senders      *)
(* overlap only once a loop was killed.  The composed system implements    *)
(* SenderSpec: a step of the loop is a launch, or does not touch what the  *)
(* sender knows.  So what is proved of the sender alone holds of the       *)
(* loop's children, and without kills nothing is left to except: a key is  *)
(* sent at most once.                                                      *)
(***************************************************************************)
EXTENDS OpsLoop, SequenceTheorems, TLAPS

-----------------------------------------------------------------------------
(* The locals keep their types.                                            *)

LEMMA LargerType ==
    ASSUME NEW m \in Nat, NEW n \in Nat
    PROVE  Larger(m, n) \in Nat
BY DEF Larger

LEMMA OffType == Off \in Locals
BY DEF Off, Locals, SenderPcs, Disarmed, ControlFile, EmptyLedger, LedgerStates

LEMMA PcType ==
    ASSUME NEW r \in Locals, NEW pc \in SenderPcs
    PROVE  [r EXCEPT !.pc = pc] \in Locals
BY DEF Locals

LEMMA ControlType ==
    ASSUME NEW r \in Locals, NEW pc \in SenderPcs, NEW c \in ControlFile
    PROVE  [r EXCEPT !.pc = pc, !.control = c] \in Locals
BY DEF Locals

LEMMA ModeType ==
    ASSUME NEW r \in Locals, NEW pc \in SenderPcs, NEW m \in ExecModes, NEW b \in BOOLEAN, NEW dry
    PROVE  [r EXCEPT !.pc = pc, !.mode = m, !.stop = b, !.sim = (r.control.simulate \/ dry)] \in Locals
BY DEF Locals, ControlFile

LEMMA LedgerType ==
    ASSUME NEW r \in Locals, NEW pc \in SenderPcs, NEW l \in [Keys -> LedgerStates]
    PROVE  [r EXCEPT !.pc = pc, !.ledger = l] \in Locals
BY DEF Locals

LEMMA SentType ==
    ASSUME NEW r \in Locals, NEW pc \in SenderPcs, NEW ks \in SUBSET Keys, NEW n \in Nat
    PROVE  [r EXCEPT !.pc = pc, !.seen = ks, !.already = n] \in Locals
BY DEF Locals

LEMMA NextIdType ==
    ASSUME NEW r \in Locals, NEW pc \in SenderPcs, NEW n \in Nat
    PROVE  /\ [r EXCEPT !.pc = pc, !.next_id = n] \in Locals
           /\ [r EXCEPT !.pc = pc, !.last_oid = n] \in Locals
BY DEF Locals

LEMMA AllowedType ==
    ASSUME NEW r \in Locals, NEW is \in SUBSET Nat
    PROVE  [r EXCEPT !.pos = r.pos + 1, !.allowed = is] \in Locals
<1>1. r.pos + 1 \in Nat \ {0}
  BY DEF Locals
<1>2. PICK p \in Nat \ {0} : p = r.pos + 1
  BY <1>1
<1>3. [r EXCEPT !.pos = p] \in Locals
  BY DEF Locals
<1>4. PICK q \in Locals : q = [r EXCEPT !.pos = p]
  BY <1>3
<1>5. [q EXCEPT !.allowed = is] \in Locals
  BY DEF Locals
<1>6. [q EXCEPT !.allowed = is] = [r EXCEPT !.pos = p, !.allowed = is]
  BY <1>4 DEF Locals
<1> QED BY <1>2, <1>5, <1>6

LEMMA PosType ==
    ASSUME NEW r \in Locals
    PROVE  [r EXCEPT !.pos = r.pos + 1] \in Locals /\ [r EXCEPT !.pos = 1] \in Locals
BY DEF Locals

LEMMA ReserveType ==
    ASSUME NEW r \in Locals, NEW pc \in SenderPcs, NEW l \in [Keys -> LedgerStates], NEW m \in Nat, NEW n \in Nat
    PROVE  [r EXCEPT !.pc = pc, !.ledger = l, !.next_id = m, !.last_oid = n] \in Locals
BY DEF Locals

LEMMA ResetType ==
    ASSUME NEW r \in Locals, NEW pc \in SenderPcs, NEW wanted \in BOOLEAN
    PROVE  [r EXCEPT !.pc = pc, !.reset_done = (r.reset_done \/ wanted)] \in Locals
BY DEF Locals

LEMMA LogType ==
    ASSUME NEW r \in Locals, NEW pc \in SenderPcs, NEW key \in Keys
    PROVE  [r EXCEPT !.pc = pc, !.executed = r.executed + 1, !.seen = r.seen \cup {key}, !.pos = r.pos + 1] \in Locals
<1>1. r.executed + 1 \in Nat /\ r.pos + 1 \in Nat \ {0} /\ r.seen \cup {key} \in SUBSET Keys
  BY DEF Locals
<1> QED BY <1>1 DEF Locals

-----------------------------------------------------------------------------
(* What each step does to the locals of its process.                       *)

\* Process s goes on with locals r, all others with what they had.
Becomes(s, r) == run' = [run EXCEPT ![s] = r]

Sending(s) == run[s].pc \in {"reserved", "placed", "status", "marked"}

\* A sender that sends has a record of the plan and an id to send it with.
Sane(r) ==
    /\ r.pc \in {"reserved", "placed", "status", "marked"} => r.pos <= Len(plan)
    /\ r.pc = "reserved" => r.next_id > 0

TInv == SenderTypeOK /\ \A s \in Senders : Sane(run[s])

LEMMA SendingHasMore ==
    ASSUME TInv, NEW s \in Senders, Sending(s)
    PROVE  More(s) /\ (At(s, "reserved") => run[s].next_id > 0)
BY DEF TInv, Sane, Sending, More, At

LEMMA CurrentType ==
    ASSUME SenderTypeOK, NEW s \in Senders, More(s)
    PROVE  run[s].pos \in DOMAIN plan /\ Current(s).key \in Keys
<1>1. run[s].pos \in Nat \ {0}
  BY DEF SenderTypeOK, Locals
<1>2. plan \in Seq(PlanRecord)
  BY DEF SenderTypeOK
<1>3. run[s].pos \in DOMAIN plan
  BY <1>1, <1>2 DEF More
<1>4. Current(s) \in PlanRecord
  BY <1>2, <1>3, ElementOfSeq DEF Current
<1> QED BY <1>3, <1>4 DEF PlanRecord

LEMMA LocalParts ==
    ASSUME SenderTypeOK, NEW s \in Senders
    PROVE  /\ run[s] \in Locals /\ run[s].next_id \in Nat /\ run[s].last_oid \in Nat
           /\ run[s].ledger \in [Keys -> LedgerStates] /\ run[s].sim \in BOOLEAN
           /\ run[s].reset_done \in BOOLEAN /\ run[s].control \in ControlFile
           /\ run[s].pos \in Nat \ {0} /\ run[s].already \in Nat /\ run[s].executed \in Nat
BY DEF SenderTypeOK, Locals

LEMMA MarkLedgerType ==
    ASSUME SenderTypeOK, NEW s \in Senders, More(s), NEW state \in LedgerStates, MarkLedger(s, state)
    PROVE  ledger' \in [Keys -> LedgerStates]
BY CurrentType, LocalParts DEF MarkLedger

LEMMA StepTypes ==
    ASSUME TInv, NEW s \in Senders,
           Launch(s) \/ Work(s) \/ Die(s)
    PROVE  \E r \in Locals : Becomes(s, r) /\ Sane(r)
<1> run \in [Senders -> Locals] /\ run[s] \in Locals
  BY LocalParts DEF TInv, SenderTypeOK
<1> SenderTypeOK
  BY DEF TInv
<1> USE DEF Becomes, Sane
<1>1. CASE Launch(s)
  <2>1. [run[s] EXCEPT !.pc = "control"] \in Locals
    BY PcType DEF SenderPcs
  <2>2. run' = [run EXCEPT ![s] = [run[s] EXCEPT !.pc = "control"]]
    BY <1>1 DEF Launch, Goto
  <2>3. [run[s] EXCEPT !.pc = "control"].pc = "control"
    BY DEF Locals
  <2> QED BY <2>1, <2>2, <2>3
<1>2. CASE ReadControl(s)
  <2> DEFINE r == [run[s] EXCEPT !.pc = "mode", !.control = control]
  <2>1. r \in Locals
    BY ControlType DEF SenderPcs, SenderTypeOK
  <2>2. run' = [run EXCEPT ![s] = r]
    BY <1>2 DEF ReadControl
  <2>3. r.pc = "mode"
    BY DEF Locals
  <2> QED BY <2>1, <2>2, <2>3
<1>3. CASE ReadMode(s)
  <2> DEFINE r == [run[s] EXCEPT !.pc = "ledger", !.mode = exec_mode, !.stop = stop_flag,
                                 !.sim = (run[s].control.simulate \/ exec_mode = "DRY_RUN")]
  <2>1. r \in Locals
    <3>1. run[s] \in Locals /\ exec_mode \in ExecModes /\ stop_flag \in BOOLEAN
      BY DEF SenderTypeOK
    <3>2. "ledger" \in SenderPcs
      BY ONLY DEF SenderPcs
    <3> QED BY ONLY <3>1, <3>2, ModeType
  <2>2. run' = [run EXCEPT ![s] = r]
    BY <1>3 DEF ReadMode
  <2>3. r.pc = "ledger"
    BY DEF Locals
  <2> QED BY <2>1, <2>2, <2>3
<1>4. CASE LoadLedger(s)
  <2> DEFINE r == [run[s] EXCEPT !.pc = "sent", !.ledger = ledger]
  <2>1. r \in Locals
    BY LedgerType DEF SenderPcs, SenderTypeOK
  <2>2. run' = [run EXCEPT ![s] = r]
    BY <1>4 DEF LoadLedger
  <2>3. r.pc = "sent"
    BY DEF Locals
  <2> QED BY <2>1, <2>2, <2>3
<1>5. CASE ReadSent(s)
  <2> DEFINE r == [run[s] EXCEPT !.pc = "gate", !.seen = sent.keys, !.already = sent.count]
  <2>1. r \in Locals
    BY SentType DEF SenderPcs, SenderTypeOK
  <2>2. run' = [run EXCEPT ![s] = r]
    BY <1>5 DEF ReadSent
  <2>3. r.pc = "gate"
    BY DEF Locals
  <2> QED BY <2>1, <2>2, <2>3
<1>6. ASSUME Exit(s)
      PROVE  \E r \in Locals : Becomes(s, r) /\ Sane(r)
  <2>1. Off.pc = "off"
    BY DEF Off
  <2> QED BY <1>6, <2>1, OffType DEF Exit
<1>g. CASE Gate(s)
  <2> DEFINE is == run[s].allowed \cup {i \in {run[s].pos} : Allowed(plan[i], run[s])}
             r == [run[s] EXCEPT !.pos = run[s].pos + 1, !.allowed = is]
  <2>1. is \in SUBSET Nat
    BY DEF Locals
  <2>2. run' = [run EXCEPT ![s] = r] /\ run[s].pc = "gate"
    BY <1>g DEF Gate, Admitted, At
  <2> HIDE DEF is
  <2>3. r \in Locals /\ r.pc = "gate"
    BY <2>1, <2>2, AllowedType DEF Locals
  <2> QED BY <2>2, <2>3
<1>7. Gated(s) \in Locals
  BY PosType DEF Gated
<1>8. CASE GateToSimulation(s)
  <2> DEFINE r == [Gated(s) EXCEPT !.pc = "send", !.next_id = Larger(cursor + 1, OrderIdFloor)]
  <2>1. r \in Locals
    <3>1. cursor + 1 \in Nat /\ OrderIdFloor \in Nat
      BY LimitsAssumption DEF SenderTypeOK
    <3>2. Larger(cursor + 1, OrderIdFloor) \in Nat
      BY <3>1, LargerType
    <3> QED BY <1>7, <3>2, NextIdType DEF SenderPcs
  <2>2. run' = [run EXCEPT ![s] = r]
    BY <1>8 DEF GateToSimulation
  <2>3. r.pc = "send"
    BY <1>7 DEF Locals
  <2> QED BY <2>1, <2>2, <2>3
<1>9. CASE GateToConnect(s)
  <2> DEFINE r == [Gated(s) EXCEPT !.pc = "preflight"]
  <2>1. r \in Locals
    BY <1>7, PcType DEF SenderPcs
  <2>2. r.pc = "preflight"
    BY <1>7 DEF Locals
  <2> QED BY <1>9, <1>6, <2>1, <2>2 DEF GateToConnect
<1>10. CASE Preflight(s)
  <2> DEFINE r == [run[s] EXCEPT !.pc = "connect", !.next_id = cursor + 1]
  <2>1. r \in Locals
    <3>1. cursor + 1 \in Nat
      BY DEF SenderTypeOK
    <3> QED BY <3>1, NextIdType DEF SenderPcs
  <2>2. run' = [run EXCEPT ![s] = r]
    BY <1>10 DEF Preflight
  <2>3. r.pc = "connect"
    BY DEF Locals
  <2> QED BY <2>1, <2>2, <2>3
<1>11. CASE Connect(s)
  <2> DEFINE r == [run[s] EXCEPT !.pc = "send", !.next_id = Larger(Larger(server_next, run[s].next_id), OrderIdFloor)]
  <2>1. r \in Locals
    <3>1. Larger(Larger(server_next, run[s].next_id), OrderIdFloor) \in Nat
      BY LargerType, LimitsAssumption, LocalParts DEF SenderTypeOK
    <3> QED BY <3>1, NextIdType DEF SenderPcs
  <2>2. run' = [run EXCEPT ![s] = r]
    BY <1>11 DEF Connect
  <2>3. r.pc = "send"
    BY DEF Locals
  <2> QED BY <2>1, <2>2, <2>3
<1>12. CASE Skip(s)
  <2> DEFINE r == [run[s] EXCEPT !.pos = run[s].pos + 1]
  <2>1. r \in Locals
    BY PosType
  <2>2. run' = [run EXCEPT ![s] = r]
    BY <1>12 DEF Skip
  <2>3. r.pc = "send"
    BY <1>12 DEF Skip, At, Locals
  <2> QED BY <2>1, <2>2, <2>3
<1>13. CASE Reserve(s)
  <2> DEFINE pc == IF run[s].sim THEN "status" ELSE "reserved"
             oid == IF run[s].sim THEN run[s].next_id ELSE run[s].last_oid
             r == [run[s] EXCEPT !.pc = pc, !.ledger = ledger', !.next_id = run[s].next_id + 1, !.last_oid = oid]
  <2>1. More(s) /\ MarkLedger(s, "RESERVED") /\ "RESERVED" \in LedgerStates
    BY <1>13 DEF Reserve, LedgerStates
  <2>2. ledger' \in [Keys -> LedgerStates]
    BY <2>1, MarkLedgerType
  <2>3. pc \in SenderPcs /\ oid \in Nat /\ run[s].next_id + 1 \in Nat
    BY LocalParts DEF SenderPcs
  <2>4. r \in Locals
    BY <2>2, <2>3, ReserveType
  <2>5. run' = [run EXCEPT ![s] = r]
    BY <1>13 DEF Reserve
  <2>6. r.pos = run[s].pos /\ r.next_id = run[s].next_id + 1
    BY DEF Locals
  <2>7. r.next_id > 0
    BY <2>6, LocalParts
  <2> QED BY <2>1, <2>4, <2>5, <2>6, <2>7 DEF More
<1>14. CASE Place(s)
  <2> DEFINE r == [run[s] EXCEPT !.pc = "placed", !.last_oid = run[s].next_id - 1]
  <2>1. Sending(s) /\ At(s, "reserved")
    BY <1>14 DEF Place, At, Sending
  <2>2. More(s) /\ run[s].next_id - 1 \in Nat
    BY <2>1, SendingHasMore, LocalParts
  <2>3. r \in Locals
    BY <2>2, NextIdType DEF SenderPcs
  <2>4. run' = [run EXCEPT ![s] = r]
    BY <1>14 DEF Place
  <2>5. r.pos = run[s].pos /\ r.pc = "placed"
    BY DEF Locals
  <2> QED BY <2>2, <2>3, <2>4, <2>5 DEF More
<1>15. CASE ResetOverride(s)
  <2> DEFINE wanted == ~run[s].reset_done /\ run[s].control.override /\ run[s].control.autoreset
             r == [run[s] EXCEPT !.pc = "status", !.reset_done = (run[s].reset_done \/ wanted)]
  <2>1. wanted \in BOOLEAN
    OBVIOUS
  <2>2. r \in Locals
    BY <2>1, ResetType DEF SenderPcs
  <2>3. run' = [run EXCEPT ![s] = r]
    BY <1>15 DEF ResetOverride
  <2>4. r.pos = run[s].pos /\ r.pc = "status"
    BY DEF Locals
  <2>5. More(s)
    BY <1>15, SendingHasMore DEF ResetOverride, At, Sending
  <2> QED BY <2>2, <2>3, <2>4, <2>5 DEF More
<1>16. CASE MarkSent(s)
  <2> DEFINE r == [run[s] EXCEPT !.pc = "marked", !.ledger = ledger']
             state == IF run[s].sim THEN "SENT_SIM" ELSE "SENT_REAL"
  <2>1. More(s)
    BY <1>16, SendingHasMore DEF MarkSent, At, Sending
  <2>2. MarkLedger(s, state) /\ state \in LedgerStates
    BY <1>16 DEF MarkSent, LedgerStates
  <2>3. r \in Locals
    BY <2>1, <2>2, MarkLedgerType, LedgerType DEF SenderPcs
  <2>4. run' = [run EXCEPT ![s] = r]
    BY <1>16 DEF MarkSent
  <2>5. r.pos = run[s].pos /\ r.pc = "marked"
    BY DEF Locals
  <2> QED BY <2>1, <2>3, <2>4, <2>5 DEF More
<1>17. CASE LogSent(s)
  <2> DEFINE r == [run[s] EXCEPT !.pc = "send", !.executed = run[s].executed + 1,
                                 !.seen = run[s].seen \cup {Current(s).key}, !.pos = run[s].pos + 1]
  <2>1. Current(s).key \in Keys
    BY <1>17, CurrentType, SendingHasMore DEF LogSent, At, Sending
  <2>2. r \in Locals
    BY <2>1, LogType DEF SenderPcs
  <2>3. run' = [run EXCEPT ![s] = r]
    BY <1>17 DEF LogSent
  <2>4. r.pc = "send"
    BY DEF Locals
  <2> QED BY <2>2, <2>3, <2>4
<1>18. Refuse(s) \/ ConnectFails(s) \/ Finish(s) \/ Die(s) => Exit(s)
  BY DEF Refuse, ConnectFails, Finish, Die, Crash, CrashInCursorWrite
<1> QED BY <1>1, <1>2, <1>3, <1>4, <1>5, <1>6, <1>g, <1>8, <1>9, <1>10, <1>11, <1>12, <1>13, <1>14, <1>15,
           <1>16, <1>17, <1>18 DEF Work


LEMMA BecomesRun ==
    ASSUME run \in [Senders -> Locals], NEW s \in Senders, NEW r \in Locals, Becomes(s, r)
    PROVE  /\ run' \in [Senders -> Locals] /\ run'[s] = r
           /\ \A t \in Senders \ {s} : run'[t] = run[t]
BY DEF Becomes

\* What an operator's record or an order may hold.
LEMMA FilesType ==
    ASSUME TInv, NEW s \in Senders, Launch(s) \/ Work(s) \/ Die(s)
    PROVE  /\ control' \in ControlFile
           /\ ledger' \in [Keys -> LedgerStates]
           /\ sent' \in [count : Nat, keys : SUBSET Keys]
           /\ cursor' \in Nat
           /\ orders' \in Seq([key : Keys, oid : Nat])
           /\ server_next' \in Nat
           /\ crashes' \in Nat /\ overlapped' \in BOOLEAN
           /\ UNCHANGED <<plan, run_mode, exec_mode, stop_flag, edits, resets>>
<1> SenderTypeOK
  BY DEF TInv
<1> USE DEF given, operator, files, ibkr
<1>1. CASE Launch(s)
  BY <1>1 DEF Launch, SenderTypeOK
<1>2. CASE ReadControl(s) \/ ReadMode(s) \/ LoadLedger(s) \/ ReadSent(s) \/ Refuse(s)
  BY <1>2 DEF ReadControl, ReadMode, LoadLedger, ReadSent, Refuse, SenderTypeOK
<1>3. CASE \/ Gate(s) \/ GateToSimulation(s) \/ GateToConnect(s) \/ Preflight(s) \/ ConnectFails(s) \/ Connect(s)
           \/ Skip(s)
  BY <1>3 DEF Gate, GateToSimulation, GateToConnect, Preflight, ConnectFails, Connect, Skip, SenderTypeOK
<1>4. CASE Reserve(s)
  <2>1. More(s) /\ MarkLedger(s, "RESERVED") /\ "RESERVED" \in LedgerStates
    BY <1>4 DEF Reserve, LedgerStates
  <2>2. ledger' \in [Keys -> LedgerStates]
    BY <2>1, MarkLedgerType
  <2> QED BY <1>4, <2>2 DEF Reserve, SenderTypeOK
<1>5. CASE Place(s)
  <2>1. More(s) /\ run[s].next_id > 0
    BY <1>5, SendingHasMore DEF Place, At, Sending
  <2>2. run[s].next_id \in Nat /\ run[s].next_id - 1 \in Nat /\ Current(s).key \in Keys
    BY <2>1, LocalParts, CurrentType
  <2>3. server_next' \in Nat
    BY <1>5, <2>2, LargerType DEF Place, SenderTypeOK
  <2>4. orders' \in Seq([key : Keys, oid : Nat])
    BY <1>5, <2>2, AppendProperties DEF Place, SenderTypeOK
  <2> QED BY <1>5, <2>3, <2>4 DEF Place, SenderTypeOK
<1>6. CASE ResetOverride(s)
  <2>1. control' = control \/ control' = [control EXCEPT !.override = FALSE]
    BY <1>6 DEF ResetOverride
  <2>2. control' \in ControlFile
    BY <2>1 DEF ControlFile, SenderTypeOK
  <2> QED BY <1>6, <2>2 DEF ResetOverride, SenderTypeOK
<1>7. CASE MarkSent(s)
  <2> DEFINE state == IF run[s].sim THEN "SENT_SIM" ELSE "SENT_REAL"
  <2>1. More(s)
    BY <1>7, SendingHasMore DEF MarkSent, At, Sending
  <2>2. MarkLedger(s, state) /\ state \in LedgerStates
    BY <1>7 DEF MarkSent, LedgerStates
  <2>3. ledger' \in [Keys -> LedgerStates]
    BY <2>1, <2>2, MarkLedgerType
  <2> QED BY <1>7, <2>3 DEF MarkSent, SenderTypeOK
<1>8. CASE LogSent(s)
  <2>1. Current(s).key \in Keys
    BY <1>8, SendingHasMore, CurrentType DEF LogSent, At, Sending
  <2>2. sent' = [count |-> sent.count + 1, keys |-> sent.keys \cup {Current(s).key}]
    BY <1>8 DEF LogSent
  <2>3. sent' \in [count : Nat, keys : SUBSET Keys]
    BY <2>1, <2>2 DEF SenderTypeOK
  <2> QED BY <1>8, <2>3 DEF LogSent, SenderTypeOK
<1>9. CASE Finish(s)
  <2>1. cursor' \in Nat
    BY <1>9, LocalParts DEF Finish, SenderTypeOK
  <2> QED BY <1>9, <2>1 DEF Finish, SenderTypeOK
<1>10. CASE Die(s)
  <2>1. cursor' \in Nat /\ crashes' \in Nat
    BY <1>10 DEF Die, Crash, CrashInCursorWrite, SenderTypeOK
  <2> QED BY <1>10, <2>1 DEF Die, Crash, CrashInCursorWrite, SenderTypeOK
<1> QED BY <1>1, <1>2, <1>3, <1>4, <1>5, <1>6, <1>7, <1>8, <1>9, <1>10 DEF Work

\* A step that leaves the processes alone.
Outside == (Edit \/ ServerForgets) \/ UNCHANGED senderVars

LEMMA OutsideType ==
    ASSUME TInv, Outside
    PROVE  TInv'
<1> SenderTypeOK /\ \A s \in Senders : Sane(run[s])
  BY DEF TInv
<1> USE DEF given, operator, files, ibkr
<1>1. CASE Edit
  <2>1. edits' \in Nat /\ UNCHANGED <<given, files, ibkr, run, crashes, overlapped>>
    BY <1>1 DEF Edit, SenderTypeOK
  <2>2. control' \in ControlFile /\ exec_mode' \in ExecModes
    BY <1>1, FilesAssumption DEF Edit, SenderTypeOK
  <2>3. stop_flag' \in BOOLEAN
    BY <1>1 DEF Edit, SenderTypeOK
  <2> QED BY <2>1, <2>2, <2>3 DEF TInv, SenderTypeOK, Sane
<1>2. CASE ServerForgets
  BY <1>2 DEF ServerForgets, TInv, SenderTypeOK, Sane
<1>3. CASE UNCHANGED senderVars
  BY <1>3 DEF senderVars, TInv, SenderTypeOK, Sane
<1> QED BY <1>1, <1>2, <1>3 DEF Outside

LEMMA TypesInit == SenderInit => TInv
<1> SUFFICES ASSUME SenderInit PROVE TInv
  OBVIOUS
<1>1. plan \in Seq(PlanRecord) /\ control \in ControlFile
  BY PlansAssumption, FilesAssumption DEF SenderInit
<1>2. EmptyLedger \in [Keys -> LedgerStates]
  BY DEF EmptyLedger, LedgerStates
<1>3. run \in [Senders -> Locals] /\ \A s \in Senders : run[s] = Off
  BY OffType DEF SenderInit
<1>4. orders = << >> /\ << >> \in Seq([key : Keys, oid : Nat])
  BY DEF SenderInit
<1>5. \A s \in Senders : run[s].pc = "off"
  BY <1>3 DEF Off
<1> QED BY <1>1, <1>2, <1>3, <1>4, <1>5 DEF SenderInit, TInv, SenderTypeOK, Sane

LEMMA TypesStep == TInv /\ [SenderNext]_senderVars => TInv'
<1> SUFFICES ASSUME TInv, SenderNext \/ UNCHANGED senderVars PROVE TInv'
  OBVIOUS
<1>1. ASSUME NEW s \in Senders, Launch(s) \/ Work(s) \/ Die(s)
      PROVE  TInv'
  <2>1. PICK r \in Locals : Becomes(s, r) /\ Sane(r)
    BY <1>1, StepTypes
  <2>2. SenderTypeOK /\ \A t \in Senders : Sane(run[t])
    BY DEF TInv
  <2>3. /\ run' \in [Senders -> Locals] /\ run'[s] = r
        /\ \A t \in Senders \ {s} : run'[t] = run[t]
    BY <2>1, <2>2, BecomesRun DEF SenderTypeOK
  <2>4. plan' = plan /\ \A t \in Senders : Sane(run'[t])
    BY <1>1, <2>1, <2>2, <2>3, FilesType
  <2> QED BY <1>1, <2>2, <2>3, <2>4, FilesType DEF TInv, SenderTypeOK, Sane
<1> QED BY <1>1, OutsideType DEF SenderNext, Outside

\* Whatever the operator writes and whoever dies, every file and every local variable of a
\* sender stays of its type, and a sender never reads past the end of its plan to send.
THEOREM SenderTypeCorrect == SenderSpec => []SenderTypeOK
<1>1. TInv => SenderTypeOK
  BY DEF TInv
<1> QED BY <1>1, TypesInit, TypesStep, PTL DEF SenderSpec

-----------------------------------------------------------------------------
(* One order per key, and the run limit.                                   *)

BeforeLedger == {"control", "mode", "ledger"}
BeforeCount == BeforeLedger \cup {"off", "sent"}
SendingPcs == {"reserved", "placed", "status", "marked"}

Alone == \A s, t \in Senders : Running(s) /\ Running(t) => s = t

\* The order that the sender with locals r placed is not in the sent log yet.
Uncounted(r) == ~r.sim /\ r.pc \in {"placed", "status", "marked"}

KeyPlaced(key) == \E i \in DOMAIN orders : orders[i].key = key

\* What the locals of a sender have to do with the files.
LedgerIsFile(r) == r.pc \notin BeforeLedger \cup {"off"} => r.ledger = ledger
CountIsFile(r) == IF r.pc \in BeforeCount THEN r.executed = 0 ELSE r.already + r.executed = sent.count
BelowLimit(r) == r.pc \in SendingPcs => sent.count < RunLimit
ReservedIsNew(r) ==
    r.pc = "reserved" => ~r.sim /\ ~KeyPlaced(plan[r.pos].key) /\ ledger[plan[r.pos].key] # "NONE"
LocalInv(r) == LedgerIsFile(r) /\ CountIsFile(r) /\ BelowLimit(r) /\ ReservedIsNew(r)

\* The ledger file knows every order, and no key has two.
LedgerKnows == \A i \in DOMAIN orders : ledger[orders[i].key] # "NONE"
OneOrderPerKey == \A i, j \in DOMAIN orders : orders[i].key = orders[j].key => i = j

\* The sent log counts every order but those of senders that died and that of the one that runs.
OrdersCounted ==
    /\ sent.count <= RunLimit
    /\ Len(orders) <= sent.count + crashes + 1
    /\ (\A s \in Senders : ~Uncounted(run[s])) => Len(orders) <= sent.count + crashes

OrdersInv == LedgerKnows /\ OneOrderPerKey /\ OrdersCounted
SInv == ~overlapped => Alone /\ OrdersInv /\ \A s \in Senders : LocalInv(run[s])

\* The locals of an idle process relate to nothing.
LEMMA OffInv ==
    ASSUME NEW r \in Locals, r.pc = "off", r.executed = 0
    PROVE  LocalInv(r) /\ ~Uncounted(r)
BY DEF LocalInv, LedgerIsFile, CountIsFile, BelowLimit, ReservedIsNew, Uncounted, BeforeLedger, BeforeCount, SendingPcs

LEMMA OffFacts == Off.pc = "off" /\ Off.executed = 0
BY DEF Off

-----------------------------------------------------------------------------
(* The steps of the one sender that runs, one kind at a time: s becomes r. *)

LEMMA SpecFacts ==
    ASSUME TInv, NEW s \in Senders
    PROVE  /\ run \in [Senders -> Locals] /\ run[s] \in Locals
           /\ run[s].already \in Nat /\ run[s].executed \in Nat /\ run[s].pos \in Nat \ {0}
           /\ sent.count \in Nat /\ crashes \in Nat /\ Len(orders) \in Nat
           /\ orders \in Seq([key : Keys, oid : Nat]) /\ RunLimit \in Nat /\ ledger \in [Keys -> LedgerStates]
<1> SenderTypeOK
  BY DEF TInv
<1>1. sent.count \in Nat /\ crashes \in Nat /\ orders \in Seq([key : Keys, oid : Nat]) /\ RunLimit \in Nat
      /\ ledger \in [Keys -> LedgerStates]
  BY LimitsAssumption DEF SenderTypeOK
<1>2. Len(orders) \in Nat
  BY <1>1
<1> QED BY <1>1, <1>2, LocalParts DEF SenderTypeOK

\* What a sender does before it sends, and what it skips, leaves its locals in line with the files.
Quiet(s) ==
    \/ ReadControl(s) \/ ReadMode(s) \/ LoadLedger(s) \/ ReadSent(s)
    \/ Gate(s) \/ GateToSimulation(s) \/ (GateToConnect(s) /\ ~Exit(s))
    \/ Preflight(s) \/ Connect(s) \/ Skip(s)

Quit(s) == Refuse(s) \/ (GateToConnect(s) /\ Exit(s)) \/ ConnectFails(s) \/ Finish(s) \/ Die(s)

LEMMA QuietLocals ==
    ASSUME TInv, NEW s \in Senders, Quiet(s), LocalInv(run[s])
    PROVE  \E r \in Locals : /\ Becomes(s, r)
                             /\ LocalInv(r) /\ ~Uncounted(r) /\ ~Uncounted(run[s])
                             /\ UNCHANGED <<plan, ledger, sent, orders, crashes, overlapped>>
                             /\ Running(s)
<1> /\ run[s] \in Locals /\ sent.count \in Nat /\ run[s].already \in Nat /\ run[s].executed \in Nat
  BY SpecFacts
<1> SenderTypeOK
  BY DEF TInv
<1> USE DEF Becomes, At, Running, LocalInv, LedgerIsFile, CountIsFile, BelowLimit, ReservedIsNew, Uncounted,
            BeforeLedger, BeforeCount, SendingPcs, given, files, ibkr
<1>1. CASE ReadControl(s)
  <2> DEFINE r == [run[s] EXCEPT !.pc = "mode", !.control = control]
  <2>1. r \in Locals
    BY ControlType DEF SenderPcs, SenderTypeOK
  <2>2. run' = [run EXCEPT ![s] = r]
    BY <1>1 DEF ReadControl
  <2>3. r.pc = "mode" /\ r.executed = run[s].executed
    BY DEF Locals
  <2> HIDE DEF r
  <2> QED BY <1>1, <2>1, <2>2, <2>3 DEF ReadControl
<1>2. CASE ReadMode(s)
  <2> DEFINE r == [run[s] EXCEPT !.pc = "ledger", !.mode = exec_mode, !.stop = stop_flag,
                                 !.sim = (run[s].control.simulate \/ exec_mode = "DRY_RUN")]
  <2>1. r \in Locals
    <3>1. run[s] \in Locals /\ exec_mode \in ExecModes /\ stop_flag \in BOOLEAN
      BY DEF SenderTypeOK
    <3>2. "ledger" \in SenderPcs
      BY ONLY DEF SenderPcs
    <3> QED BY ONLY <3>1, <3>2, ModeType
  <2>2. run' = [run EXCEPT ![s] = r]
    BY <1>2 DEF ReadMode
  <2>3. r.pc = "ledger" /\ r.executed = run[s].executed
    BY DEF Locals
  <2> HIDE DEF r
  <2> QED BY <1>2, <2>1, <2>2, <2>3 DEF ReadMode
<1>3. CASE LoadLedger(s)
  <2> DEFINE r == [run[s] EXCEPT !.pc = "sent", !.ledger = ledger]
  <2>1. r \in Locals
    BY LedgerType DEF SenderPcs, SenderTypeOK
  <2>2. run' = [run EXCEPT ![s] = r]
    BY <1>3 DEF LoadLedger
  <2>3. r.pc = "sent" /\ r.executed = run[s].executed /\ r.ledger = ledger
    BY DEF Locals
  <2> HIDE DEF r
  <2> QED BY <1>3, <2>1, <2>2, <2>3 DEF LoadLedger
<1>4. CASE ReadSent(s)
  <2> DEFINE r == [run[s] EXCEPT !.pc = "gate", !.seen = sent.keys, !.already = sent.count]
  <2>1. r \in Locals
    BY SentType DEF SenderPcs, SenderTypeOK
  <2>2. run' = [run EXCEPT ![s] = r]
    BY <1>4 DEF ReadSent
  <2>3. r.pc = "gate" /\ r.executed = run[s].executed /\ r.ledger = run[s].ledger /\ r.already = sent.count
    BY DEF Locals
  <2> HIDE DEF r
  <2>4. run[s].executed = 0 /\ run[s].ledger = ledger
    BY <1>4 DEF ReadSent
  <2>5. r.already + r.executed = sent.count
    BY <2>3, <2>4
  <2>6. LocalInv(r)
    BY <2>3, <2>4, <2>5
  <2> QED BY <1>4, <2>1, <2>2, <2>3, <2>6 DEF ReadSent
<1>g. CASE Gate(s)
  <2> DEFINE is == run[s].allowed \cup {i \in {run[s].pos} : Allowed(plan[i], run[s])}
             r == [run[s] EXCEPT !.pos = run[s].pos + 1, !.allowed = is]
  <2>1. is \in SUBSET Nat
    BY DEF Locals
  <2>2. run' = [run EXCEPT ![s] = r] /\ run[s].pc = "gate"
    BY <1>g DEF Gate, Admitted, At
  <2> HIDE DEF is
  <2>3. r \in Locals
    BY <2>1, AllowedType
  <2>4. r.pc = "gate" /\ r.executed = run[s].executed /\ r.ledger = run[s].ledger /\ r.already = run[s].already
    BY <2>2 DEF Locals
  <2> HIDE DEF r
  <2> QED BY <1>g, <2>2, <2>3, <2>4 DEF Gate, Admitted
<1>5. /\ Gated(s) \in Locals
      /\ Gated(s).executed = run[s].executed /\ Gated(s).ledger = run[s].ledger
      /\ Gated(s).already = run[s].already
  BY PosType DEF Gated, Locals
<1>6. CASE GateToSimulation(s)
  <2> DEFINE r == [Gated(s) EXCEPT !.pc = "send", !.next_id = Larger(cursor + 1, OrderIdFloor)]
  <2>1. cursor + 1 \in Nat /\ OrderIdFloor \in Nat
    BY LimitsAssumption DEF SenderTypeOK
  <2>2. r \in Locals
    BY <1>5, <2>1, LargerType, NextIdType DEF SenderPcs
  <2>3. run' = [run EXCEPT ![s] = r]
    BY <1>6 DEF GateToSimulation
  <2>4. r.pc = "send" /\ r.executed = run[s].executed /\ r.ledger = run[s].ledger /\ r.already = run[s].already
    BY <1>5 DEF Locals
  <2> HIDE DEF r
  <2> QED BY <1>6, <2>2, <2>3, <2>4 DEF GateToSimulation, Admitted
<1>7. CASE GateToConnect(s) /\ ~Exit(s)
  <2> DEFINE r == [Gated(s) EXCEPT !.pc = "preflight"]
  <2>1. r \in Locals
    BY <1>5, PcType DEF SenderPcs
  <2>2. run' = [run EXCEPT ![s] = r]
    BY <1>7 DEF GateToConnect
  <2>3. r.pc = "preflight" /\ r.executed = run[s].executed /\ r.ledger = run[s].ledger /\ r.already = run[s].already
    BY <1>5 DEF Locals
  <2> HIDE DEF r
  <2> QED BY <1>7, <2>1, <2>2, <2>3 DEF GateToConnect, Admitted
<1>8. CASE Preflight(s)
  <2> DEFINE r == [run[s] EXCEPT !.pc = "connect", !.next_id = cursor + 1]
  <2>1. cursor + 1 \in Nat
    BY DEF SenderTypeOK
  <2>2. r \in Locals
    BY <2>1, NextIdType DEF SenderPcs
  <2>3. run' = [run EXCEPT ![s] = r]
    BY <1>8 DEF Preflight
  <2>4. r.pc = "connect" /\ r.executed = run[s].executed /\ r.ledger = run[s].ledger /\ r.already = run[s].already
    BY DEF Locals
  <2> HIDE DEF r
  <2> QED BY <1>8, <2>2, <2>3, <2>4 DEF Preflight
<1>9. CASE Connect(s)
  <2> DEFINE r == [run[s] EXCEPT !.pc = "send",
                                 !.next_id = Larger(Larger(server_next, run[s].next_id), OrderIdFloor)]
  <2>1. Larger(Larger(server_next, run[s].next_id), OrderIdFloor) \in Nat
    BY LargerType, LimitsAssumption, LocalParts DEF SenderTypeOK
  <2>2. r \in Locals
    BY <2>1, NextIdType DEF SenderPcs
  <2>3. run' = [run EXCEPT ![s] = r]
    BY <1>9 DEF Connect
  <2>4. r.pc = "send" /\ r.executed = run[s].executed /\ r.ledger = run[s].ledger /\ r.already = run[s].already
    BY DEF Locals
  <2> HIDE DEF r
  <2> QED BY <1>9, <2>2, <2>3, <2>4 DEF Connect
<1>10. CASE Skip(s)
  <2> DEFINE r == [run[s] EXCEPT !.pos = run[s].pos + 1]
  <2>1. r \in Locals
    BY PosType
  <2>2. run' = [run EXCEPT ![s] = r]
    BY <1>10 DEF Skip
  <2>3. r.pc = "send" /\ r.executed = run[s].executed /\ r.ledger = run[s].ledger /\ r.already = run[s].already
    BY <1>10 DEF Skip, Locals
  <2> HIDE DEF r
  <2> QED BY <1>10, <2>1, <2>2, <2>3 DEF Skip
<1> QED BY <1>1, <1>2, <1>3, <1>4, <1>g, <1>6, <1>7, <1>8, <1>9, <1>10 DEF Quiet

LEMMA KeyKnown ==
    ASSUME TInv, NEW i \in DOMAIN orders
    PROVE  orders[i].key \in Keys
<1>1. orders \in Seq([key : Keys, oid : Nat]) /\ i \in 1..Len(orders)
  BY DEF TInv, SenderTypeOK
<1>2. orders[i] \in [key : Keys, oid : Nat]
  BY <1>1, ElementOfSeq
<1> QED BY <1>2

\* Marking a key in a ledger that is the file forgets none of the orders.
LEMMA MarkKnows ==
    ASSUME TInv, NEW s \in Senders, More(s), run[s].ledger = ledger, LedgerKnows,
           NEW state \in LedgerStates, state # "NONE", MarkLedger(s, state), UNCHANGED orders
    PROVE  /\ LedgerKnows'
           /\ ledger'[Current(s).key] # "NONE"
<1>1. ledger \in [Keys -> LedgerStates] /\ Current(s).key \in Keys
  BY SpecFacts, CurrentType DEF TInv
<1>2. \A k \in Keys : ledger'[k] = IF k = Current(s).key THEN state ELSE ledger[k]
  BY <1>1 DEF MarkLedger
<1>3. ASSUME NEW i \in DOMAIN orders PROVE ledger'[orders[i].key] # "NONE"
  <2>1. orders[i].key \in Keys
    BY KeyKnown
  <2> QED BY <1>2, <2>1 DEF LedgerKnows
<1> QED BY <1>1, <1>2, <1>3 DEF LedgerKnows

LEMMA ReserveLocals ==
    ASSUME TInv, NEW s \in Senders, Reserve(s), LocalInv(run[s]), LedgerKnows
    PROVE  \E r \in Locals : /\ Becomes(s, r)
                             /\ LocalInv(r)' /\ ~Uncounted(run[s]) /\ LedgerKnows'
                             /\ ~Uncounted(r)
                             /\ UNCHANGED <<plan, sent, orders, crashes, overlapped>>
<1> /\ run[s] \in Locals /\ sent.count \in Nat /\ run[s].already \in Nat /\ run[s].executed \in Nat
    /\ RunLimit \in Nat
  BY SpecFacts
<1> SenderTypeOK
  BY DEF TInv
<1> DEFINE pc == IF run[s].sim THEN "status" ELSE "reserved"
           oid == IF run[s].sim THEN run[s].next_id ELSE run[s].last_oid
           next == [run[s] EXCEPT !.pc = pc, !.ledger = ledger', !.next_id = run[s].next_id + 1, !.last_oid = oid]
           key == Current(s).key
<1>1. /\ run[s].pc = "send" /\ More(s) /\ MarkLedger(s, "RESERVED") /\ Sendable(run[s], run[s].pos)
      /\ UNCHANGED <<plan, sent, orders, crashes, overlapped>>
  BY DEF Reserve, Submitted, At, given, ibkr
<1>2. "RESERVED" \in LedgerStates /\ "RESERVED" # "NONE"
  BY DEF LedgerStates
<1>3. run[s].ledger = ledger /\ run[s].already + run[s].executed = sent.count
  BY <1>1 DEF LocalInv, LedgerIsFile, CountIsFile, BeforeLedger, BeforeCount
<1>4. LedgerKnows' /\ ledger'[key] # "NONE"
  BY <1>1, <1>2, <1>3, MarkKnows
<1>5. sent.count < RunLimit
  BY <1>1, <1>3 DEF Sendable, LimitReached
<1>6. ledger[key] = "NONE"
  BY <1>1, <1>3 DEF Sendable, Deduped, Current
<1>7. ~KeyPlaced(key)
  BY <1>6 DEF LedgerKnows, KeyPlaced
<1>8. PICK r \in Locals : r = next
  <2>1. ledger' \in [Keys -> LedgerStates]
    BY <1>1, <1>2, MarkLedgerType
  <2>2. pc \in SenderPcs /\ oid \in Nat /\ run[s].next_id + 1 \in Nat
    BY LocalParts DEF SenderPcs
  <2> QED BY <2>1, <2>2, ReserveType
<1>9. run' = [run EXCEPT ![s] = r]
  BY <1>8 DEF Reserve
<1>10. /\ r.pc = pc /\ r.ledger = ledger' /\ r.already = run[s].already /\ r.executed = run[s].executed
       /\ r.sim = run[s].sim /\ r.pos = run[s].pos
  BY <1>8 DEF Locals
<1> HIDE DEF next
<1>11. LocalInv(r)'
  <2>1. pc \in {"status", "reserved"}
    OBVIOUS
  <2>2. LedgerIsFile(r)' /\ CountIsFile(r)' /\ BelowLimit(r)'
    BY <1>1, <1>3, <1>5, <1>10, <2>1 DEF LedgerIsFile, CountIsFile, BelowLimit, BeforeCount, BeforeLedger, SendingPcs
  <2>3. ReservedIsNew(r)'
    BY <1>1, <1>4, <1>7, <1>10, <2>1 DEF ReservedIsNew, KeyPlaced, Current
  <2> QED BY <2>2, <2>3 DEF LocalInv
<1>12. ~Uncounted(run[s]) /\ ~Uncounted(r)
  BY <1>1, <1>10 DEF Uncounted
<1> QED BY <1>1, <1>4, <1>8, <1>9, <1>11, <1>12 DEF Becomes

LEMMA PlaceLocals ==
    ASSUME TInv, NEW s \in Senders, Place(s), LocalInv(run[s]), LedgerKnows, OneOrderPerKey
    PROVE  \E r \in Locals : /\ Becomes(s, r)
                             /\ LocalInv(r)' /\ Uncounted(r) /\ ~Uncounted(run[s])
                             /\ LedgerKnows' /\ OneOrderPerKey' /\ Len(orders') = Len(orders) + 1
                             /\ UNCHANGED <<plan, ledger, sent, crashes, overlapped>>
<1> run[s] \in Locals /\ orders \in Seq([key : Keys, oid : Nat])
  BY SpecFacts
<1> DEFINE next == [run[s] EXCEPT !.pc = "placed", !.last_oid = run[s].next_id - 1]
           order == [key |-> Current(s).key, oid |-> run[s].next_id - 1]
<1>1. /\ run[s].pc = "reserved" /\ orders' = Append(orders, order) /\ run' = [run EXCEPT ![s] = next]
      /\ UNCHANGED <<plan, ledger, sent, crashes, overlapped>>
  BY DEF Place, At, given, files
<1>2. More(s) /\ run[s].next_id - 1 \in Nat
  BY <1>1, SendingHasMore, LocalParts DEF Sending, At, TInv
<1>3. order \in [key : Keys, oid : Nat] /\ order.key = Current(s).key
  BY <1>2, CurrentType DEF TInv
<1>4. ~run[s].sim /\ ~KeyPlaced(order.key) /\ ledger[order.key] # "NONE"
  BY <1>1, <1>3 DEF LocalInv, ReservedIsNew, Current
<1>5. /\ Len(orders') = Len(orders) + 1 /\ DOMAIN orders' = DOMAIN orders \cup {Len(orders) + 1}
      /\ \A i \in DOMAIN orders : orders'[i] = orders[i]
      /\ orders'[Len(orders) + 1] = order
  BY <1>1, <1>3, AppendProperties
<1>6. Len(orders) + 1 \notin DOMAIN orders
  OBVIOUS
<1> HIDE DEF order
<1>7. LedgerKnows'
  BY <1>1, <1>4, <1>5 DEF LedgerKnows
<1>8. OneOrderPerKey'
  BY <1>4, <1>5, <1>6 DEF OneOrderPerKey, KeyPlaced
<1>9. PICK r \in Locals : r = next
  BY <1>2, NextIdType DEF SenderPcs
<1>10. /\ r.pc = "placed" /\ r.ledger = run[s].ledger /\ r.already = run[s].already
       /\ r.executed = run[s].executed /\ r.sim = run[s].sim
  BY <1>9 DEF Locals
<1> HIDE DEF next
<1>11. LocalInv(r)'
  BY <1>1, <1>10 DEF LocalInv, LedgerIsFile, CountIsFile, BelowLimit, ReservedIsNew, BeforeCount, BeforeLedger,
                     SendingPcs
<1>12. Uncounted(r) /\ ~Uncounted(run[s])
  BY <1>1, <1>4, <1>10 DEF Uncounted
<1> QED BY <1>1, <1>5, <1>7, <1>8, <1>9, <1>11, <1>12 DEF Becomes

LEMMA ResetLocals ==
    ASSUME TInv, NEW s \in Senders, ResetOverride(s), LocalInv(run[s])
    PROVE  \E r \in Locals : /\ Becomes(s, r)
                             /\ LocalInv(r) /\ Uncounted(r) = Uncounted(run[s])
                             /\ UNCHANGED <<plan, ledger, sent, orders, crashes, overlapped>>
<1> run[s] \in Locals
  BY SpecFacts
<1> DEFINE wanted == ~run[s].reset_done /\ run[s].control.override /\ run[s].control.autoreset
           r == [run[s] EXCEPT !.pc = "status", !.reset_done = (run[s].reset_done \/ wanted)]
<1>1. /\ run[s].pc = "placed" /\ run' = [run EXCEPT ![s] = r]
      /\ UNCHANGED <<plan, ledger, sent, orders, crashes, overlapped>>
  BY DEF ResetOverride, At, given, files, ibkr
<1>2. r \in Locals
  <2>1. wanted \in BOOLEAN
    OBVIOUS
  <2> QED BY <2>1, ResetType DEF SenderPcs
<1>3. /\ r.pc = "status" /\ r.ledger = run[s].ledger /\ r.already = run[s].already
      /\ r.executed = run[s].executed /\ r.sim = run[s].sim
  BY DEF Locals
<1> HIDE DEF r
<1>4. LocalInv(r) /\ Uncounted(r) = Uncounted(run[s])
  BY <1>1, <1>3 DEF LocalInv, LedgerIsFile, CountIsFile, BelowLimit, ReservedIsNew, BeforeCount, BeforeLedger,
                    SendingPcs, Uncounted
<1> QED BY <1>1, <1>2, <1>4 DEF Becomes

LEMMA MarkSentLocals ==
    ASSUME TInv, NEW s \in Senders, MarkSent(s), LocalInv(run[s]), LedgerKnows
    PROVE  \E r \in Locals : /\ Becomes(s, r)
                             /\ LocalInv(r)' /\ Uncounted(r) = Uncounted(run[s]) /\ LedgerKnows'
                             /\ UNCHANGED <<plan, sent, orders, crashes, overlapped>>
<1> run[s] \in Locals
  BY SpecFacts
<1> DEFINE state == IF run[s].sim THEN "SENT_SIM" ELSE "SENT_REAL"
           next == [run[s] EXCEPT !.pc = "marked", !.ledger = ledger']
<1>1. /\ run[s].pc = "status" /\ run' = [run EXCEPT ![s] = next] /\ MarkLedger(s, state)
      /\ UNCHANGED <<plan, sent, orders, crashes, overlapped>>
  BY DEF MarkSent, At, given, ibkr
<1>2. state \in LedgerStates /\ state # "NONE"
  BY DEF LedgerStates
<1>3. More(s)
  BY <1>1, SendingHasMore DEF Sending, At
<1>4. run[s].ledger = ledger
  BY <1>1 DEF LocalInv, LedgerIsFile, BeforeLedger
<1>5. LedgerKnows'
  BY <1>1, <1>2, <1>3, <1>4, MarkKnows
<1>6. PICK r \in Locals : r = next
  <2>1. ledger' \in [Keys -> LedgerStates]
    BY <1>1, <1>2, <1>3, MarkLedgerType DEF TInv
  <2> QED BY <2>1, LedgerType DEF SenderPcs
<1>7. /\ r.pc = "marked" /\ r.ledger = ledger' /\ r.already = run[s].already
      /\ r.executed = run[s].executed /\ r.sim = run[s].sim
  BY <1>6 DEF Locals
<1> HIDE DEF next
<1>8. LocalInv(r)' /\ Uncounted(r) = Uncounted(run[s])
  BY <1>1, <1>7 DEF LocalInv, LedgerIsFile, CountIsFile, BelowLimit, ReservedIsNew, BeforeCount, BeforeLedger,
                    SendingPcs, Uncounted
<1> QED BY <1>1, <1>5, <1>6, <1>8 DEF Becomes

LEMMA LogSentLocals ==
    ASSUME TInv, NEW s \in Senders, LogSent(s), LocalInv(run[s])
    PROVE  \E r \in Locals : /\ Becomes(s, r)
                             /\ LocalInv(r)' /\ ~Uncounted(r)
                             /\ sent.count < RunLimit /\ sent'.count = sent.count + 1
                             /\ UNCHANGED <<plan, ledger, orders, crashes, overlapped>>
<1> /\ run[s] \in Locals /\ sent.count \in Nat /\ run[s].already \in Nat /\ run[s].executed \in Nat
  BY SpecFacts
<1> DEFINE key == Current(s).key
           next == [run[s] EXCEPT !.pc = "send", !.executed = run[s].executed + 1,
                               !.seen = run[s].seen \cup {key}, !.pos = run[s].pos + 1]
<1>1. /\ run[s].pc = "marked" /\ run' = [run EXCEPT ![s] = next] /\ sent'.count = sent.count + 1
      /\ UNCHANGED <<plan, ledger, orders, crashes, overlapped>>
  BY DEF LogSent, At, given, ibkr
<1>2. key \in Keys
  BY <1>1, SendingHasMore, CurrentType DEF Sending, At, TInv
<1>3. PICK r \in Locals : r = next
  BY <1>2, LogType DEF SenderPcs
<1>4. /\ r.pc = "send" /\ r.ledger = run[s].ledger /\ r.already = run[s].already
      /\ r.executed = run[s].executed + 1
  BY <1>3 DEF Locals
<1> HIDE DEF next
<1>5. run[s].ledger = ledger /\ run[s].already + run[s].executed = sent.count /\ sent.count < RunLimit
  BY <1>1 DEF LocalInv, LedgerIsFile, CountIsFile, BelowLimit, BeforeCount, BeforeLedger, SendingPcs
<1>6. r.already + r.executed = sent'.count
  BY <1>1, <1>4, <1>5
<1>7. LocalInv(r)' /\ ~Uncounted(r)
  BY <1>1, <1>4, <1>5, <1>6 DEF LocalInv, LedgerIsFile, CountIsFile, BelowLimit, ReservedIsNew, BeforeCount,
                                BeforeLedger, SendingPcs, Uncounted
<1> QED BY <1>1, <1>3, <1>5, <1>7 DEF Becomes

\* A sender that stops may leave one order uncounted only by dying.
LEMMA QuitLocals ==
    ASSUME TInv, NEW s \in Senders, Quit(s), LocalInv(run[s])
    PROVE  \E r \in Locals : /\ Becomes(s, r)
                             /\ r.pc = "off" /\ r.executed = 0
                             /\ UNCHANGED <<plan, ledger, sent, orders, overlapped>>
                             /\ (crashes' = crashes /\ ~Uncounted(run[s])) \/ crashes' = crashes + 1
<1> USE DEF given, operator, files, ibkr
<1>1. /\ Exit(s) /\ UNCHANGED <<plan, ledger, sent, orders, overlapped>>
      /\ (crashes' = crashes /\ ~Uncounted(run[s])) \/ crashes' = crashes + 1
  <2>1. CASE Refuse(s) \/ (GateToConnect(s) /\ Exit(s))
    BY <2>1 DEF Refuse, GateToConnect, Admitted, At, Uncounted
  <2>2. CASE ConnectFails(s)
    BY <2>2 DEF ConnectFails, At, Uncounted
  <2>3. CASE Finish(s)
    BY <2>3 DEF Finish, At, Uncounted
  <2>4. CASE Die(s)
    BY <2>4 DEF Die, Crash, CrashInCursorWrite
  <2> QED BY <2>1, <2>2, <2>3, <2>4 DEF Quit
<1>2. Becomes(s, Off) /\ Off \in Locals
  BY <1>1, OffType DEF Exit, Becomes
<1> HIDE DEF given, operator, files, ibkr
<1> QED BY <1>1, <1>2, OffFacts

\* An idle sender keeps executed = 0 and gets a pc before the ledger is read.
LEMMA LaunchLocals ==
    ASSUME TInv, NEW s \in Senders, Launch(s), LocalInv(run[s])
    PROVE  \E r \in Locals : /\ Becomes(s, r)
                             /\ LocalInv(r) /\ ~Uncounted(r)
                             /\ UNCHANGED <<plan, ledger, sent, orders, crashes>>
<1> run[s] \in Locals
  BY SpecFacts
<1> DEFINE r == [run[s] EXCEPT !.pc = "control"]
<1>1. run[s].pc = "off" /\ run' = [run EXCEPT ![s] = r] /\ UNCHANGED <<plan, ledger, sent, orders, crashes>>
  BY DEF Launch, Running, Goto, given, files, ibkr
<1>2. r \in Locals
  BY PcType DEF SenderPcs
<1>3. r.pc = "control" /\ r.executed = run[s].executed
  BY DEF Locals
<1> HIDE DEF r
<1>4. LocalInv(r) /\ ~Uncounted(r)
  BY <1>1, <1>3 DEF LocalInv, LedgerIsFile, CountIsFile, BelowLimit, ReservedIsNew, BeforeCount, BeforeLedger,
                    SendingPcs, Uncounted
<1> QED BY <1>1, <1>2, <1>4 DEF Becomes

\* A launch beside a running sender is the overlap that the properties exclude.
LEMMA LaunchAlone ==
    ASSUME NEW s \in Senders, Launch(s), ~overlapped'
    PROVE  ~overlapped /\ \A t \in Senders : ~Running(t)
BY DEF Launch

LEMMA StepLocals ==
    ASSUME TInv, NEW s \in Senders, Launch(s) \/ Work(s) \/ Die(s), LocalInv(run[s]), OrdersInv
    PROVE  \E r \in Locals :
             /\ Becomes(s, r) /\ LocalInv(r)' /\ LedgerKnows' /\ OneOrderPerKey' /\ plan' = plan
             /\ Launch(s) \/ (Running(s) /\ overlapped' = overlapped)
             /\ sent'.count \in Nat /\ sent'.count <= RunLimit
             /\ \/ /\ sent'.count = sent.count /\ crashes' = crashes /\ Len(orders') = Len(orders)
                   /\ Uncounted(run[s]) => Uncounted(r)
                \/ /\ sent'.count = sent.count /\ crashes' = crashes /\ Len(orders') = Len(orders) + 1
                   /\ Uncounted(r) /\ ~Uncounted(run[s])
                \/ sent'.count = sent.count + 1 /\ crashes' = crashes /\ Len(orders') = Len(orders) /\ ~Uncounted(r)
                \/ sent'.count = sent.count /\ crashes' = crashes + 1 /\ Len(orders') = Len(orders) /\ ~Uncounted(r)
<1> LedgerKnows /\ OneOrderPerKey /\ sent.count <= RunLimit
  BY DEF OrdersInv, OrdersCounted
<1> sent.count \in Nat /\ RunLimit \in Nat
  BY SpecFacts
<1> USE DEF LocalInv, LedgerIsFile, CountIsFile, BelowLimit, ReservedIsNew, KeyPlaced
<1>1. CASE Launch(s)
  <2>1. PICK r \in Locals : /\ Becomes(s, r) /\ LocalInv(r) /\ ~Uncounted(r)
                            /\ UNCHANGED <<plan, ledger, sent, orders, crashes>>
    BY <1>1, LaunchLocals
  <2>2. ~Uncounted(run[s])
    BY <1>1 DEF Launch, Running, Uncounted
  <2>3. LocalInv(r)' /\ LedgerKnows' /\ OneOrderPerKey'
    BY <2>1 DEF LedgerKnows, OneOrderPerKey
  <2> HIDE DEF LocalInv
  <2> QED BY <1>1, <2>1, <2>2, <2>3
<1>2. CASE Quiet(s)
  <2>1. PICK r \in Locals : /\ Becomes(s, r) /\ LocalInv(r) /\ ~Uncounted(r) /\ ~Uncounted(run[s])
                            /\ UNCHANGED <<plan, ledger, sent, orders, crashes, overlapped>> /\ Running(s)
    BY <1>2, QuietLocals
  <2>2. LocalInv(r)' /\ LedgerKnows' /\ OneOrderPerKey'
    BY <2>1 DEF LedgerKnows, OneOrderPerKey
  <2> HIDE DEF LocalInv
  <2> QED BY <2>1, <2>2
<1> HIDE DEF LocalInv, LedgerIsFile, CountIsFile, BelowLimit, ReservedIsNew, KeyPlaced
<1>3. CASE Reserve(s)
  <2>1. Running(s)
    BY <1>3 DEF Reserve, At, Running
  <2> QED BY <1>3, <2>1, ReserveLocals DEF OneOrderPerKey
<1>4. CASE Place(s)
  <2>1. Running(s)
    BY <1>4 DEF Place, At, Running
  <2> QED BY <1>4, <2>1, PlaceLocals
<1>5. CASE ResetOverride(s)
  <2>1. PICK r \in Locals : /\ Becomes(s, r) /\ LocalInv(r) /\ Uncounted(r) = Uncounted(run[s])
                            /\ UNCHANGED <<plan, ledger, sent, orders, crashes, overlapped>>
    BY <1>5, ResetLocals
  <2>2. LocalInv(r)' /\ LedgerKnows' /\ OneOrderPerKey'
    BY <2>1 DEF LedgerKnows, OneOrderPerKey, LocalInv, LedgerIsFile, CountIsFile, BelowLimit, ReservedIsNew, KeyPlaced
  <2>3. Running(s)
    BY <1>5 DEF ResetOverride, At, Running
  <2> QED BY <2>1, <2>2, <2>3
<1>6. CASE MarkSent(s)
  <2>1. Running(s)
    BY <1>6 DEF MarkSent, At, Running
  <2> QED BY <1>6, <2>1, MarkSentLocals DEF OneOrderPerKey
<1>7. CASE LogSent(s)
  <2>1. PICK r \in Locals : /\ Becomes(s, r) /\ LocalInv(r)' /\ ~Uncounted(r)
                            /\ sent.count < RunLimit /\ sent'.count = sent.count + 1
                            /\ UNCHANGED <<plan, ledger, orders, crashes, overlapped>>
    BY <1>7, LogSentLocals
  <2>2. Running(s) /\ LedgerKnows' /\ OneOrderPerKey'
    BY <1>7, <2>1 DEF LogSent, At, Running, LedgerKnows, OneOrderPerKey
  <2>3. sent'.count \in Nat /\ sent'.count <= RunLimit
    BY <2>1
  <2> QED BY <2>1, <2>2, <2>3
<1>8. CASE Quit(s)
  <2>1. PICK r \in Locals : /\ Becomes(s, r) /\ r.pc = "off" /\ r.executed = 0
                            /\ UNCHANGED <<plan, ledger, sent, orders, overlapped>>
                            /\ (crashes' = crashes /\ ~Uncounted(run[s])) \/ crashes' = crashes + 1
    BY <1>8, QuitLocals
  <2>2. ~Uncounted(r) /\ LocalInv(r)'
    BY <2>1 DEF Uncounted, LocalInv, LedgerIsFile, CountIsFile, BelowLimit, ReservedIsNew, BeforeLedger, BeforeCount,
                SendingPcs
  <2>3. LedgerKnows' /\ OneOrderPerKey'
    BY <2>1 DEF LedgerKnows, OneOrderPerKey
  <2>4. Running(s)
    BY <1>8 DEF Quit, Refuse, GateToConnect, Admitted, ConnectFails, Finish, Die, Crash, CrashInCursorWrite, At, Running
  <2> QED BY <2>1, <2>2, <2>3, <2>4
<1>9. Work(s) \/ Die(s) => Quiet(s) \/ Reserve(s) \/ Place(s) \/ ResetOverride(s) \/ MarkSent(s) \/ LogSent(s) \/ Quit(s)
  BY DEF Work, Quiet, Quit
<1> QED BY <1>1, <1>2, <1>3, <1>4, <1>5, <1>6, <1>7, <1>8, <1>9

LEMMA OrdersStep ==
    ASSUME TInv, SInv, NEW s \in Senders, Launch(s) \/ Work(s) \/ Die(s)
    PROVE  SInv'
<1> SUFFICES ASSUME ~overlapped'
             PROVE  Alone' /\ OrdersInv' /\ \A t \in Senders : LocalInv(run[t])'
  BY DEF SInv
<1>1. ~overlapped
  BY LaunchAlone DEF Launch, Work, Die, ReadControl, ReadMode, LoadLedger, ReadSent, Refuse, Gate, GateToSimulation,
     GateToConnect, Preflight, ConnectFails, Connect, Skip, Reserve, Place, ResetOverride, MarkSent, LogSent, Finish,
     Crash, CrashInCursorWrite
<1>2. Alone /\ OrdersInv /\ \A t \in Senders : LocalInv(run[t])
  BY <1>1 DEF SInv
<1>3. \A t \in Senders \ {s} : ~Running(t)
  <2>1. CASE Launch(s)
    BY <2>1, LaunchAlone
  <2>2. CASE ~Launch(s)
    <3>1. Running(s)
      BY <1>2, <2>2, StepLocals
    <3> QED BY <1>2, <3>1 DEF Alone
  <2> QED BY <2>1, <2>2
<1>4. PICK r \in Locals :
        /\ Becomes(s, r) /\ LocalInv(r)' /\ LedgerKnows' /\ OneOrderPerKey' /\ plan' = plan
        /\ sent'.count \in Nat /\ sent'.count <= RunLimit
        /\ \/ /\ sent'.count = sent.count /\ crashes' = crashes /\ Len(orders') = Len(orders)
              /\ Uncounted(run[s]) => Uncounted(r)
           \/ /\ sent'.count = sent.count /\ crashes' = crashes /\ Len(orders') = Len(orders) + 1
              /\ Uncounted(r) /\ ~Uncounted(run[s])
           \/ sent'.count = sent.count + 1 /\ crashes' = crashes /\ Len(orders') = Len(orders) /\ ~Uncounted(r)
           \/ sent'.count = sent.count /\ crashes' = crashes + 1 /\ Len(orders') = Len(orders) /\ ~Uncounted(r)
  BY <1>2, StepLocals
<1>5. run' \in [Senders -> Locals] /\ run'[s] = r /\ \A t \in Senders \ {s} : run'[t] = run[t]
  BY <1>4, SpecFacts, BecomesRun
<1>6. Alone'
  BY <1>3, <1>5 DEF Alone, Running
<1>7. ASSUME NEW t \in Senders PROVE LocalInv(run[t])'
  <2>1. CASE t = s
    BY <1>4, <1>5, <2>1 DEF LocalInv, LedgerIsFile, CountIsFile, BelowLimit, ReservedIsNew, KeyPlaced
  <2>2. CASE t # s
    <3>1. run[t] = run'[t] /\ run[t].pc = "off" /\ run[t].executed = 0
      BY <1>2, <1>3, <1>5, <2>2 DEF Running, LocalInv, CountIsFile, BeforeCount
    <3> QED BY <3>1 DEF LocalInv, LedgerIsFile, CountIsFile, BelowLimit, ReservedIsNew, BeforeLedger, BeforeCount,
                        SendingPcs
  <2> QED BY <2>1, <2>2
<1>8. \A t \in Senders \ {s} : ~Uncounted(run[t]) /\ ~Uncounted(run'[t])
  BY <1>3, <1>5 DEF Running, Uncounted
<1>9. OrdersCounted'
  <2> DEFINE some == Uncounted(run[s])
  <2>1. /\ sent.count \in Nat /\ crashes \in Nat /\ Len(orders) \in Nat
        /\ Len(orders) <= sent.count + crashes + 1
        /\ ~some => Len(orders) <= sent.count + crashes
    BY <1>2, <1>8, SpecFacts DEF OrdersInv, OrdersCounted
  <2>2. (\A t \in Senders : ~Uncounted(run'[t])) <=> ~Uncounted(r)
    BY <1>5, <1>8
  <2>3. Len(orders') <= sent'.count + crashes' + 1
    BY <1>4, <2>1
  <2>4. ~Uncounted(r) => Len(orders') <= sent'.count + crashes'
    BY <1>4, <2>1
  <2> QED BY <1>4, <2>2, <2>3, <2>4 DEF OrdersCounted, Uncounted
<1> QED BY <1>4, <1>6, <1>7, <1>9 DEF OrdersInv

LEMMA OrdersInit == SenderInit => SInv
<1> SUFFICES ASSUME SenderInit PROVE SInv
  OBVIOUS
<1>1. \A s \in Senders : run[s] = Off
  BY DEF SenderInit
<1>2. orders = << >> /\ DOMAIN orders = {} /\ Len(orders) = 0 /\ sent.count = 0 /\ crashes = 0
  BY DEF SenderInit
<1>3. OrdersInv
  BY <1>2, LimitsAssumption DEF OrdersInv, LedgerKnows, OneOrderPerKey, OrdersCounted
<1>4. Alone /\ \A s \in Senders : LocalInv(run[s])
  BY <1>1, OffFacts, OffInv, OffType DEF Alone, Running
<1> QED BY <1>3, <1>4 DEF SInv

LEMMA OrdersOutside ==
    ASSUME SInv, Outside
    PROVE  SInv'
<1>1. UNCHANGED <<plan, ledger, sent, orders, run, crashes, overlapped>>
  BY DEF Outside, Edit, ServerForgets, senderVars, given, operator, files, ibkr
<1> QED BY <1>1 DEF SInv, Alone, Running, OrdersInv, LedgerKnows, OneOrderPerKey, OrdersCounted, Uncounted,
                    LocalInv, LedgerIsFile, CountIsFile, BelowLimit, ReservedIsNew, KeyPlaced

LEMMA OrdersInvariant == SenderSpec => [](TInv /\ SInv)
<1>1. SenderInit => TInv /\ SInv
  BY TypesInit, OrdersInit
<1>2. TInv /\ SInv /\ [SenderNext]_senderVars => (TInv /\ SInv)'
  <2> SUFFICES ASSUME TInv, SInv, SenderNext \/ UNCHANGED senderVars PROVE TInv' /\ SInv'
    OBVIOUS
  <2>1. TInv'
    BY TypesStep
  <2>2. SInv'
    BY OrdersStep, OrdersOutside DEF SenderNext, Outside
  <2> QED BY <2>1, <2>2
<1> QED BY <1>1, <1>2, PTL DEF SenderSpec

\* IBKR receives at most one order for a key unless two senders overlapped, whoever died between
\* reserving, placing, marking and logging, because the key is reserved in the ledger first.
THEOREM SentOnce == SenderSpec => []SentAtMostOnce
<1>1. TInv /\ SInv => SentAtMostOnce
  BY DEF SInv, OrdersInv, OneOrderPerKey, SentAtMostOnce
<1> QED BY <1>1, OrdersInvariant, PTL

\* A run places at most run_limit_orders orders and one more for each sender that died, because
\* an order that is in no sent log has a dead sender or the one that runs.
THEOREM RunLimitHolds == SenderSpec => []RunLimitUpToCrashes
<1>1. TInv /\ SInv => RunLimitUpToCrashes
  <2> SUFFICES ASSUME TInv, SInv, ~overlapped
               PROVE  Len(orders) <= RunLimit + crashes
    BY DEF RunLimitUpToCrashes
  <2>1. OrdersCounted /\ \A s \in Senders : LocalInv(run[s])
    BY DEF SInv, OrdersInv
  <2>2. CASE \A s \in Senders : ~Uncounted(run[s])
    <3>1. sent.count \in Nat /\ crashes \in Nat /\ Len(orders) \in Nat /\ RunLimit \in Nat
      BY LimitsAssumption DEF TInv, SenderTypeOK
    <3>2. sent.count <= RunLimit /\ Len(orders) <= sent.count + crashes
      BY <2>1, <2>2 DEF OrdersCounted
    <3> QED BY <3>1, <3>2
  <2>3. CASE \E s \in Senders : Uncounted(run[s])
    <3>1. PICK s \in Senders : Uncounted(run[s])
      BY <2>3
    <3>2. sent.count < RunLimit
      BY <2>1, <3>1 DEF LocalInv, BelowLimit, Uncounted, SendingPcs
    <3>3. sent.count \in Nat /\ crashes \in Nat /\ Len(orders) \in Nat /\ RunLimit \in Nat
      BY SpecFacts
    <3>4. Len(orders) <= sent.count + crashes + 1
      BY <2>1 DEF OrdersCounted
    <3> QED BY <3>2, <3>3, <3>4
  <2> QED BY <2>2, <2>3
<1> QED BY <1>1, OrdersInvariant, PTL
-----------------------------------------------------------------------------
(* Order ids.                                                              *)

BeforeConnect == {"off", "control", "mode", "ledger", "sent", "gate", "preflight"}

OidsBelow(n) == \A i \in DOMAIN orders : orders[i].oid < n

\* The next id that the sender with locals r gives out is new; the one it has just given out is, too.
NextIdIsNew(r) ==
    /\ r.pc \in {"send", "placed", "status", "marked"} => OidsBelow(r.next_id)
    /\ r.pc = "reserved" => OidsBelow(r.next_id - 1)

\* What the sender would leave in the cursor covers every order.
LastIdCovers(r) == OidsBelow((IF r.last_oid = 0 THEN cursor ELSE r.last_oid) + 1)

IdInv(r) ==
    /\ r.pc = "reserved" => ~r.sim
    /\ r.pc \in BeforeConnect \cup {"connect"} => r.last_oid = 0
    /\ crashes = 0 /\ r.pc # "off" => LastIdCovers(r)
    /\ crashes = 0 /\ r.pc = "connect" => OidsBelow(r.next_id)
    /\ crashes = 0 \/ (resets = 0 /\ ~r.sim) => NextIdIsNew(r)

Increasing == \A i, j \in DOMAIN orders : i < j => orders[i].oid < orders[j].oid

\* Without a death the cursor knows the last id while nobody runs, without a reset the server does.
FilesKnowIds ==
    /\ crashes = 0 \/ resets = 0 => Increasing
    /\ crashes = 0 /\ (\A s \in Senders : ~Running(s)) => OidsBelow(cursor + 1)
    /\ resets = 0 => OidsBelow(server_next)

IdsInv == ~overlapped => Alone /\ FilesKnowIds /\ \A s \in Senders : IdInv(run[s])

LEMMA OidType ==
    ASSUME TInv, NEW i \in DOMAIN orders
    PROVE  orders[i].oid \in Nat
<1>1. orders \in Seq([key : Keys, oid : Nat]) /\ i \in 1..Len(orders)
  BY DEF TInv, SenderTypeOK
<1>2. orders[i] \in [key : Keys, oid : Nat]
  BY <1>1, ElementOfSeq
<1> QED BY <1>2

-----------------------------------------------------------------------------
(* What each step does to the ids of its process: q becomes r.             *)

Kept(q, r) == r.next_id = q.next_id /\ r.last_oid = q.last_oid /\ r.sim = q.sim

Approaches(q, r) ==
    /\ q.pc \in BeforeConnect /\ r.pc \in BeforeConnect \cup {"connect"} /\ r.pc # "off"
    /\ r.last_oid = q.last_oid /\ (r.pc = "connect" => r.next_id = cursor + 1)
    /\ UNCHANGED <<orders, cursor, server_next, crashes>>

Quits(q, r) ==
    /\ r.pc = "off" /\ r.last_oid = 0
    /\ \/ q.pc \in BeforeConnect \cup {"connect"} /\ cursor' = cursor /\ crashes' = crashes
       \/ q.pc = "send" /\ cursor' = (IF q.last_oid # 0 THEN q.last_oid ELSE cursor) /\ crashes' = crashes
       \/ crashes' = crashes + 1
    /\ UNCHANGED <<orders, server_next>>

Begins(q, r) ==
    /\ r.pc = "send" /\ r.last_oid = q.last_oid
    /\ \/ q.pc = "gate" /\ r.sim /\ r.next_id = Larger(cursor + 1, OrderIdFloor)
       \/ /\ q.pc = "connect" /\ r.sim = q.sim
          /\ r.next_id = Larger(Larger(server_next, q.next_id), OrderIdFloor)
    /\ UNCHANGED <<orders, cursor, server_next, crashes>>

GivesOut(q, r) ==
    /\ q.pc = "send" /\ r.sim = q.sim /\ r.next_id = q.next_id + 1
    /\ r.pc = (IF q.sim THEN "status" ELSE "reserved")
    /\ r.last_oid = (IF q.sim THEN q.next_id ELSE q.last_oid)
    /\ UNCHANGED <<orders, cursor, server_next, crashes>>

Places(q, r) ==
    /\ q.pc = "reserved" /\ r.pc = "placed" /\ r.sim = q.sim /\ r.next_id = q.next_id
    /\ r.last_oid = q.next_id - 1
    /\ \E key \in Keys : orders' = Append(orders, [key |-> key, oid |-> q.next_id - 1])
    /\ server_next' = Larger(server_next, q.next_id)
    /\ UNCHANGED <<cursor, crashes>>

GoesOn(q, r) ==
    /\ q.pc \in {"send", "placed", "status", "marked"} /\ r.pc \in {"send", "placed", "status", "marked"}
    /\ Kept(q, r)
    /\ UNCHANGED <<orders, cursor, server_next, crashes>>

IdStep(q, r) ==
    Approaches(q, r) \/ Quits(q, r) \/ Begins(q, r) \/ GivesOut(q, r) \/ Places(q, r) \/ GoesOn(q, r)

LEMMA StepRun ==
    ASSUME TInv, NEW s \in Senders, Launch(s) \/ Work(s) \/ Die(s)
    PROVE  /\ run[s] \in Locals /\ run'[s] \in Locals
           /\ \A t \in Senders \ {s} : run'[t] = run[t]
           /\ resets' = resets
<1>1. PICK r \in Locals : Becomes(s, r)
  BY StepTypes
<1> QED BY <1>1, BecomesRun, SpecFacts, FilesType

LEMMA StepIds ==
    ASSUME TInv, NEW s \in Senders, Launch(s) \/ Work(s) \/ Die(s)
    PROVE  IdStep(run[s], run'[s])
<1> run \in [Senders -> Locals] /\ run[s] \in Locals
  BY SpecFacts
<1> USE DEF BeforeConnect, given, operator, files, ibkr, At, Goto
<1>1. CASE Launch(s)
  BY <1>1 DEF Launch, Running, Locals, IdStep, Approaches
<1>2. CASE ReadControl(s)
  BY <1>2 DEF ReadControl, Locals, IdStep, Approaches
<1>3. CASE ReadMode(s)
  BY <1>3 DEF ReadMode, Locals, IdStep, Approaches
<1>4. CASE LoadLedger(s)
  BY <1>4 DEF LoadLedger, Locals, IdStep, Approaches
<1>5. CASE ReadSent(s)
  BY <1>5 DEF ReadSent, Locals, IdStep, Approaches
<1>6. run' = [run EXCEPT ![s] = Off] => run'[s].pc = "off" /\ run'[s].last_oid = 0
  BY DEF Off
<1>7. CASE Refuse(s)
  BY <1>6, <1>7 DEF Refuse, Exit, IdStep, Quits
<1>g. CASE Gate(s)
  BY <1>g DEF Gate, Admitted, Locals, IdStep, Approaches
<1>8. Gated(s) \in Locals /\ Gated(s).last_oid = run[s].last_oid /\ Gated(s).sim = run[s].sim
  BY PosType DEF Gated, Locals
<1>9. CASE GateToSimulation(s)
  BY <1>8, <1>9 DEF GateToSimulation, Admitted, Locals, IdStep, Begins
<1>10. CASE GateToConnect(s)
  <2>1. CASE Exit(s)
    BY <1>6, <1>10, <2>1 DEF GateToConnect, Admitted, Exit, IdStep, Quits
  <2>2. CASE run' = [run EXCEPT ![s] = [Gated(s) EXCEPT !.pc = "preflight"]]
    BY <1>8, <1>10, <2>2 DEF GateToConnect, Admitted, Locals, IdStep, Approaches
  <2> QED BY <1>10, <2>1, <2>2 DEF GateToConnect
<1>11. CASE Preflight(s)
  BY <1>11 DEF Preflight, Locals, IdStep, Approaches
<1>12. CASE ConnectFails(s)
  BY <1>6, <1>12 DEF ConnectFails, Exit, IdStep, Quits
<1>13. CASE Connect(s)
  BY <1>13 DEF Connect, Locals, IdStep, Begins
<1>14. CASE Skip(s)
  BY <1>14 DEF Skip, Locals, IdStep, GoesOn, Kept
<1>15. CASE Reserve(s)
  BY <1>15 DEF Reserve, Locals, IdStep, GivesOut
<1>16. CASE Place(s)
  <2>1. Current(s).key \in Keys
    BY <1>16, SendingHasMore, CurrentType DEF Place, Sending, TInv
  <2> QED BY <1>16, <2>1 DEF Place, Locals, IdStep, Places
<1>17. CASE ResetOverride(s)
  BY <1>17 DEF ResetOverride, Locals, IdStep, GoesOn, Kept
<1>18. CASE MarkSent(s)
  BY <1>18 DEF MarkSent, Locals, IdStep, GoesOn, Kept
<1>19. CASE LogSent(s)
  BY <1>19 DEF LogSent, Locals, IdStep, GoesOn, Kept
<1>20. CASE Finish(s)
  BY <1>6, <1>20 DEF Finish, Exit, IdStep, Quits
<1>21. CASE Die(s)
  BY <1>6, <1>21 DEF Die, Crash, CrashInCursorWrite, Exit, IdStep, Quits
<1> QED BY <1>1, <1>2, <1>3, <1>4, <1>5, <1>7, <1>g, <1>9, <1>10, <1>11, <1>12, <1>13, <1>14, <1>15, <1>16, <1>17,
           <1>18, <1>19, <1>20, <1>21 DEF Work

\* Whoever works or dies was running, and only a launch can make two overlap.
LEMMA RunsBefore ==
    ASSUME NEW s \in Senders, Work(s) \/ Die(s)
    PROVE  Running(s) /\ overlapped' = overlapped
<1> USE DEF At, Running
<1>1. CASE ReadControl(s) \/ ReadMode(s) \/ LoadLedger(s) \/ ReadSent(s) \/ Refuse(s) \/ Gate(s) \/ GateToSimulation(s)
  BY <1>1 DEF ReadControl, ReadMode, LoadLedger, ReadSent, Refuse, Gate, Admitted, GateToSimulation
<1>2. CASE GateToConnect(s) \/ Preflight(s) \/ ConnectFails(s) \/ Connect(s) \/ Skip(s) \/ Reserve(s)
  BY <1>2 DEF GateToConnect, Admitted, Preflight, ConnectFails, Connect, Skip, Reserve
<1>3. CASE Place(s) \/ ResetOverride(s) \/ MarkSent(s) \/ LogSent(s) \/ Finish(s) \/ Die(s)
  BY <1>3 DEF Place, ResetOverride, MarkSent, LogSent, Finish, Die, Crash, CrashInCursorWrite
<1> QED BY <1>1, <1>2, <1>3 DEF Work

LEMMA ActsAlone ==
    ASSUME NEW s \in Senders, Launch(s) \/ Work(s) \/ Die(s), ~overlapped', ~overlapped => Alone
    PROVE  ~overlapped /\ \A t \in Senders \ {s} : ~Running(t)
<1>1. CASE Launch(s)
  BY <1>1, LaunchAlone
<1>2. CASE Work(s) \/ Die(s)
  BY <1>2, RunsBefore DEF Alone
<1> QED BY <1>1, <1>2

LEMMA IdTypes ==
    ASSUME TInv
    PROVE  /\ cursor \in Nat /\ server_next \in Nat /\ OrderIdFloor \in Nat \ {0}
           /\ crashes \in Nat /\ resets \in Nat
           /\ \A r \in Locals : r.next_id \in Nat /\ r.last_oid \in Nat /\ r.sim \in BOOLEAN
           /\ orders \in Seq([key : Keys, oid : Nat])
BY LimitsAssumption DEF TInv, SenderTypeOK, Locals

\* What a step of the one sender that runs does to its ids and to the files, the server's next id and the orders.
LEMMA NewIds ==
    ASSUME TInv, NEW q \in Locals, NEW r \in Locals, IdStep(q, r), resets' = resets, IdInv(q),
           crashes = 0 \/ resets = 0 => Increasing,
           crashes = 0 /\ q.pc = "off" => OidsBelow(cursor + 1),
           resets = 0 => OidsBelow(server_next)
    PROVE  /\ IdInv(r)'
           /\ crashes' = 0 \/ resets' = 0 => Increasing'
           /\ crashes' = 0 /\ r.pc = "off" => OidsBelow(cursor + 1)'
           /\ resets' = 0 => OidsBelow(server_next)'
<1> /\ cursor \in Nat /\ server_next \in Nat /\ OrderIdFloor \in Nat \ {0} /\ crashes \in Nat /\ resets \in Nat
    /\ q.next_id \in Nat /\ q.last_oid \in Nat /\ r.next_id \in Nat /\ r.last_oid \in Nat
    /\ q.sim \in BOOLEAN /\ r.sim \in BOOLEAN
  BY IdTypes
<1> \A i \in DOMAIN orders : orders[i].oid \in Nat
  BY OidType
<1> USE DEF BeforeConnect
<1>1. CASE Approaches(q, r)
  <2>1. /\ r.last_oid = 0 /\ r.pc # "off" /\ r.pc \in BeforeConnect \cup {"connect"}
        /\ UNCHANGED <<orders, cursor, server_next, crashes, resets>>
        /\ r.pc = "connect" => r.next_id = cursor + 1
    BY <1>1 DEF Approaches, IdInv
  <2>2. crashes = 0 => OidsBelow(cursor + 1)
    BY <1>1 DEF Approaches, IdInv, LastIdCovers
  <2>3. IdInv(r)'
    BY <2>1, <2>2 DEF IdInv, LastIdCovers, NextIdIsNew, OidsBelow
  <2> QED BY <2>1, <2>3 DEF OidsBelow, Increasing
<1>2. CASE Quits(q, r)
  <2>1. r.pc = "off" /\ r.last_oid = 0 /\ UNCHANGED <<orders, server_next, resets>>
    BY <1>2 DEF Quits
  <2>2. IdInv(r)'
    BY <2>1 DEF IdInv, NextIdIsNew
  <2>3. crashes' = 0 => crashes = 0
    BY <1>2 DEF Quits
  <2>4. ASSUME crashes' = 0 PROVE OidsBelow(cursor + 1)'
    <3>1. CASE q.pc \in BeforeConnect \cup {"connect"} /\ cursor' = cursor /\ crashes' = crashes
      <4>1. OidsBelow(cursor + 1)
        BY <2>4, <3>1 DEF IdInv, LastIdCovers
      <4> QED BY <2>1, <3>1, <4>1 DEF OidsBelow
    <3>2. CASE q.pc = "send" /\ cursor' = (IF q.last_oid # 0 THEN q.last_oid ELSE cursor) /\ crashes' = crashes
      <4>1. LastIdCovers(q)
        BY <2>4, <3>2 DEF IdInv
      <4> QED BY <2>1, <3>2, <4>1 DEF OidsBelow, LastIdCovers
    <3> QED BY <1>2, <2>4, <3>1, <3>2 DEF Quits
  <2> QED BY <2>1, <2>2, <2>3, <2>4 DEF OidsBelow, Increasing
<1>3. CASE Begins(q, r)
  <2>1. /\ r.pc = "send" /\ r.last_oid = 0 /\ q.pc \in {"gate", "connect"}
        /\ UNCHANGED <<orders, cursor, server_next, crashes, resets>>
    BY <1>3 DEF Begins, IdInv
  <2>2. crashes = 0 => OidsBelow(cursor + 1)
    BY <2>1 DEF IdInv, LastIdCovers
  <2>3. ASSUME crashes = 0 \/ (resets = 0 /\ ~r.sim) PROVE OidsBelow(r.next_id)
    <3>1. CASE q.pc = "gate"
      <4>1. r.next_id >= cursor + 1 /\ crashes = 0
        BY <1>3, <2>3, <3>1 DEF Begins, Larger
      <4> QED BY <2>2, <4>1 DEF OidsBelow
    <3>2. CASE q.pc = "connect"
      <4>1. r.next_id >= q.next_id /\ r.next_id >= server_next
        BY <1>3, <3>2 DEF Begins, Larger
      <4>2. OidsBelow(q.next_id) \/ OidsBelow(server_next)
        BY <2>3, <3>2 DEF IdInv
      <4> QED BY <4>1, <4>2 DEF OidsBelow
    <3> QED BY <2>1, <3>1, <3>2
  <2>4. IdInv(r)'
    BY <2>1, <2>2, <2>3 DEF IdInv, LastIdCovers, NextIdIsNew, OidsBelow
  <2> QED BY <2>1, <2>4 DEF OidsBelow, Increasing
<1>4. CASE GivesOut(q, r)
  <2>1. /\ q.pc = "send" /\ r.pc \in {"status", "reserved"} /\ (r.pc = "reserved" => ~r.sim)
        /\ r.next_id = q.next_id + 1 /\ r.sim = q.sim
        /\ UNCHANGED <<orders, cursor, server_next, crashes, resets>>
    BY <1>4 DEF GivesOut
  <2>2. crashes = 0 \/ (resets = 0 /\ ~q.sim) => OidsBelow(q.next_id)
    BY <2>1 DEF IdInv, NextIdIsNew
  <2>3. crashes = 0 => LastIdCovers(r)
    <3>1. CASE q.sim
      <4>1. r.last_oid = q.next_id
        BY <1>4, <3>1 DEF GivesOut
      <4>2. crashes = 0 => LastIdCovers(q)
        BY <2>1 DEF IdInv
      <4> QED BY <2>2, <4>1, <4>2 DEF LastIdCovers, OidsBelow
    <3>2. CASE ~q.sim
      <4>1. r.last_oid = q.last_oid
        BY <1>4, <3>2 DEF GivesOut
      <4>2. crashes = 0 => LastIdCovers(q)
        BY <2>1 DEF IdInv
      <4> QED BY <4>1, <4>2 DEF LastIdCovers
    <3> QED BY <3>1, <3>2
  <2>4. IdInv(r)'
    BY <2>1, <2>2, <2>3 DEF IdInv, LastIdCovers, NextIdIsNew, OidsBelow
  <2> QED BY <2>1, <2>4 DEF OidsBelow, Increasing
<1>5. CASE Places(q, r)
  <2>1. /\ q.pc = "reserved" /\ r.pc = "placed" /\ ~q.sim /\ r.sim = q.sim /\ r.next_id = q.next_id
        /\ r.last_oid = q.next_id - 1 /\ server_next' = Larger(server_next, q.next_id)
        /\ UNCHANGED <<cursor, crashes, resets>>
    BY <1>5 DEF Places, IdInv
  <2>2. PICK key \in Keys : orders' = Append(orders, [key |-> key, oid |-> q.next_id - 1])
    BY <1>5 DEF Places
  <2>3. orders \in Seq([key : Keys, oid : Nat]) /\ q.next_id - 1 \in Nat
    BY <2>1, IdTypes
  <2>4. /\ DOMAIN orders' = DOMAIN orders \cup {Len(orders) + 1} /\ DOMAIN orders = 1..Len(orders)
        /\ \A i \in DOMAIN orders : orders'[i] = orders[i]
        /\ orders'[Len(orders) + 1].oid = q.next_id - 1 /\ Len(orders) \in Nat
    BY <2>2, <2>3, AppendProperties
  <2>5. crashes = 0 \/ resets = 0 => OidsBelow(q.next_id - 1)
    BY <2>1 DEF IdInv, NextIdIsNew
  <2>6. crashes = 0 \/ resets = 0 => OidsBelow(q.next_id)'
    BY <2>4, <2>5 DEF OidsBelow
  <2>7. crashes = 0 \/ resets = 0 => Increasing'
    BY <2>4, <2>5 DEF OidsBelow, Increasing
  <2>8. resets = 0 => OidsBelow(server_next)'
    <3>1. server_next' >= q.next_id /\ server_next' \in Nat
      BY <2>1 DEF Larger
    <3> QED BY <2>4, <2>6, <3>1 DEF OidsBelow
  <2>9. IdInv(r)'
    <3>1. r.last_oid = 0 => q.next_id <= cursor + 1
      BY <2>1
    <3>2. r.last_oid # 0 => r.last_oid + 1 = q.next_id
      BY <2>1
    <3>3. crashes = 0 => OidsBelow((IF r.last_oid = 0 THEN cursor ELSE r.last_oid) + 1)'
      BY <2>1, <2>4, <2>6, <3>1, <3>2 DEF OidsBelow
    <3> QED BY <2>1, <2>6, <3>3 DEF IdInv, LastIdCovers, NextIdIsNew, OidsBelow
  <2> QED BY <2>1, <2>7, <2>8, <2>9
<1>6. CASE GoesOn(q, r)
  <2>1. /\ r.next_id = q.next_id /\ r.last_oid = q.last_oid /\ r.sim = q.sim
        /\ q.pc \in {"send", "placed", "status", "marked"} /\ r.pc \in {"send", "placed", "status", "marked"}
        /\ UNCHANGED <<orders, cursor, server_next, crashes, resets>>
    BY <1>6 DEF GoesOn, Kept
  <2>2. IdInv(r)'
    BY <2>1 DEF IdInv, LastIdCovers, NextIdIsNew, OidsBelow
  <2> QED BY <2>1, <2>2 DEF OidsBelow, Increasing
<1> QED BY <1>1, <1>2, <1>3, <1>4, <1>5, <1>6 DEF IdStep

LEMMA IdsStep ==
    ASSUME TInv, IdsInv, NEW s \in Senders, Launch(s) \/ Work(s) \/ Die(s)
    PROVE  IdsInv'
<1> SUFFICES ASSUME ~overlapped'
             PROVE  Alone' /\ FilesKnowIds' /\ \A t \in Senders : IdInv(run[t])'
  BY DEF IdsInv
<1>1. ~overlapped /\ \A t \in Senders \ {s} : ~Running(t)
  BY ActsAlone DEF IdsInv
<1>2. FilesKnowIds /\ \A t \in Senders : IdInv(run[t])
  BY <1>1 DEF IdsInv
<1>3. PICK q \in Locals, r \in Locals :
        /\ q = run[s] /\ r = run'[s] /\ IdStep(q, r) /\ resets' = resets
        /\ \A t \in Senders \ {s} : run'[t] = run[t]
  BY StepRun, StepIds
<1>4. crashes = 0 /\ q.pc = "off" => OidsBelow(cursor + 1)
  BY <1>1, <1>2, <1>3 DEF FilesKnowIds, Running
<1>5. /\ IdInv(r)' /\ (crashes' = 0 \/ resets' = 0 => Increasing')
      /\ (crashes' = 0 /\ r.pc = "off" => OidsBelow(cursor + 1)')
      /\ (resets' = 0 => OidsBelow(server_next)')
  BY <1>2, <1>3, <1>4, NewIds DEF FilesKnowIds
<1>6. Alone'
  BY <1>1, <1>3 DEF Alone, Running
<1>7. FilesKnowIds'
  BY <1>3, <1>5 DEF FilesKnowIds, Running
<1>8. ASSUME NEW t \in Senders PROVE IdInv(run[t])'
  <2>1. CASE t = s
    BY <1>3, <1>5, <2>1 DEF IdInv, LastIdCovers, NextIdIsNew, OidsBelow
  <2>2. CASE t # s
    <3>1. run'[t].pc = "off" /\ run'[t].last_oid = 0
      BY <1>1, <1>2, <1>3, <2>2 DEF Running, IdInv, BeforeConnect
    <3> QED BY <3>1 DEF IdInv, NextIdIsNew
  <2> QED BY <2>1, <2>2
<1> QED BY <1>6, <1>7, <1>8

LEMMA IdsInit == SenderInit => IdsInv
<1> SUFFICES ASSUME SenderInit PROVE IdsInv
  OBVIOUS
<1>1. \A s \in Senders : run[s].pc = "off" /\ run[s].last_oid = 0
  BY DEF SenderInit, Off
<1>2. orders = << >> /\ DOMAIN orders = {}
  BY DEF SenderInit
<1>3. FilesKnowIds
  BY <1>2 DEF FilesKnowIds, Increasing, OidsBelow
<1>4. Alone /\ \A s \in Senders : IdInv(run[s])
  BY <1>1 DEF Alone, Running, IdInv, NextIdIsNew
<1> QED BY <1>3, <1>4 DEF IdsInv

LEMMA IdsOutside ==
    ASSUME TInv, IdsInv, Outside
    PROVE  IdsInv'
<1>1. CASE UNCHANGED <<orders, run, cursor, server_next, crashes, resets, overlapped>>
  BY <1>1 DEF IdsInv, Alone, Running, FilesKnowIds, Increasing, IdInv, LastIdCovers, NextIdIsNew, OidsBelow
<1>2. CASE ServerForgets
  <2>1. /\ UNCHANGED <<orders, run, cursor, crashes, overlapped>> /\ resets' = resets + 1 /\ resets \in Nat
    BY <1>2, IdTypes DEF ServerForgets, files
  <2>2. resets' # 0
    BY <2>1
  <2> QED BY <2>1, <2>2 DEF IdsInv, Alone, Running, FilesKnowIds, Increasing, IdInv, LastIdCovers, NextIdIsNew, OidsBelow
<1>3. Edit \/ UNCHANGED senderVars => UNCHANGED <<orders, run, cursor, server_next, crashes, resets, overlapped>>
  BY DEF Edit, senderVars, files, ibkr
<1> QED BY <1>1, <1>2, <1>3 DEF Outside

\* Every order gets a higher id than the one before it, as long as no two senders overlapped and not both
\* happened: a sender died with its ids unsaved (_save_cursor), and the server forgot them.
THEOREM IdsIncrease == SenderSpec => []OrderIdsIncrease
<1>1. SenderInit => TInv /\ IdsInv
  BY TypesInit, IdsInit
<1>2. TInv /\ IdsInv /\ [SenderNext]_senderVars => (TInv /\ IdsInv)'
  <2> SUFFICES ASSUME TInv, IdsInv, SenderNext \/ UNCHANGED senderVars PROVE TInv' /\ IdsInv'
    OBVIOUS
  <2>1. TInv'
    BY TypesStep
  <2>2. IdsInv'
    BY IdsStep, IdsOutside DEF SenderNext, Outside
  <2> QED BY <2>1, <2>2
<1>3. TInv /\ IdsInv => OrderIdsIncrease
  BY DEF IdsInv, FilesKnowIds, Increasing, OrderIdsIncrease
<1> QED BY <1>1, <1>2, <1>3, PTL DEF SenderSpec

-----------------------------------------------------------------------------
(* The composition.                                                        *)

LEMMA StepImplements == [Next]_vars => [SenderNext]_senderVars
<1> SUFFICES ASSUME Next \/ UNCHANGED vars
             PROVE  SenderNext \/ UNCHANGED senderVars
  OBVIOUS
<1>1. CASE UNCHANGED vars \/ Expire
  BY <1>1 DEF vars, Expire
<1>2. CASE Environment
  BY <1>2 DEF Environment, SenderNext
<1>3. ASSUME NEW s \in Senders, StartLoop(s) \/ Heartbeat(s) \/ KillLoop(s)
      PROVE  UNCHANGED senderVars
  BY <1>3 DEF StartLoop, Heartbeat, KillLoop
<1>4. ASSUME NEW s \in Senders, LoopWork(s)
      PROVE  Launch(s) \/ UNCHANGED senderVars
  BY <1>4 DEF LoopWork, CreateLock, WriteOwner, FindStale, UnlinkStale, Denied, BeginStep, EndCycle, Wake, Release
<1>5. ASSUME NEW s \in Senders, ChildWorks(s) \/ ChildDies(s)
      PROVE  Work(s) \/ Die(s)
  BY <1>5 DEF ChildWorks, ChildDies
<1> QED BY <1>1, <1>2, <1>3, <1>4, <1>5 DEF Next, SenderNext

\* The loop runs the sender as it is: every execution of loops and children is one of the senders.
THEOREM LoopRunsSenders == Spec => SenderSpec
<1>1. Init => SenderInit
  BY DEF Init
<1> QED BY <1>1, StepImplements, PTL DEF Spec, SenderSpec

-----------------------------------------------------------------------------
(* Types.                                                                  *)

LoopTypeOK ==
    /\ lock \in LockFile \cup {NoLock}
    /\ loop \in [Senders -> [pc : LoopPcs, tries : 0..3]]
    /\ kills \in Nat

\* Who found a stale lock has a try left.
TriesLeft == \A s \in Senders : LoopAt(s, "unlink") => loop[s].tries < 3

LEMMA FileIsSome ==
    ASSUME NEW f \in LockFile
    PROVE  f # NoLock
<1>1. "written" \in DOMAIN f
  BY DEF LockFile
<1>2. DOMAIN NoLock = {"by"}
  BY DEF NoLock
<1> QED BY <1>1, <1>2

\* The steps of a loop other than those of its child.
LoopStep(s) == StartLoop(s) \/ LoopWork(s) \/ Heartbeat(s) \/ KillLoop(s)

\* Process s goes to pc, every other one stays where it is.
Moves(s, pc) ==
    /\ loop'[s].pc = pc
    /\ \A t \in Senders \ {s} : loop'[t] = loop[t]

LEMMA GotoMoves ==
    ASSUME LoopTypeOK, NEW s \in Senders, NEW pc \in LoopPcs, LoopGoto(s, pc)
    PROVE  Moves(s, pc) /\ loop' \in [Senders -> [pc : LoopPcs, tries : 0..3]]
BY DEF LoopTypeOK, LoopGoto, Moves

LEMMA SetMoves ==
    ASSUME LoopTypeOK, NEW s \in Senders, NEW pc \in LoopPcs, NEW n \in 0..3,
           loop' = [loop EXCEPT ![s] = [pc |-> pc, tries |-> n]]
    PROVE  Moves(s, pc) /\ loop' \in [Senders -> [pc : LoopPcs, tries : 0..3]]
BY DEF LoopTypeOK, Moves

LEMMA LoopTypesStep ==
    ASSUME LoopTypeOK, TriesLeft, NEW s \in Senders, LoopStep(s)
    PROVE  LoopTypeOK'
<1> USE DEF LoopPcs
<1>1. lock = NoLock \/ lock \in LockFile
  BY DEF LoopTypeOK
<1>2. CASE StartLoop(s)
  <2>1. loop' = [loop EXCEPT ![s] = [pc |-> "create", tries |-> 0]] /\ lock' = lock /\ kills' = kills
    BY <1>2 DEF StartLoop
  <2>2. loop' \in [Senders -> [pc : LoopPcs, tries : 0..3]]
    BY <2>1 DEF LoopTypeOK
  <2> QED BY <2>1, <2>2 DEF LoopTypeOK
<1>3. CASE CreateLock(s)
  <2>1. lock' \in LockFile
    BY <1>3 DEF CreateLock, LockFile
  <2>2. loop' \in [Senders -> [pc : LoopPcs, tries : 0..3]]
    BY <1>3 DEF CreateLock, LoopGoto, LoopTypeOK
  <2> QED BY <1>3, <2>1, <2>2 DEF CreateLock, LoopTypeOK
<1>4. CASE WriteOwner(s)
  <2>1. lock' \in LockFile \cup {NoLock}
    BY <1>1, <1>4 DEF WriteOwner, LockFile
  <2> QED BY <1>4, <2>1, GotoMoves DEF WriteOwner, LoopTypeOK
<1>5. CASE FindStale(s) \/ Denied(s)
  BY <1>5, GotoMoves DEF FindStale, Denied, LoopTypeOK
<1>6. CASE UnlinkStale(s)
  <2>1. loop[s].tries + 1 \in 0..3
    BY <1>6 DEF UnlinkStale, TriesLeft, LoopTypeOK
  <2> QED BY <1>6, <2>1, SetMoves DEF UnlinkStale, LoopTypeOK
<1>7. CASE BeginStep(s) \/ Wake(s)
  BY <1>7, GotoMoves DEF BeginStep, Wake, LoopTypeOK
<1>8. CASE EndCycle(s)
  BY <1>8, GotoMoves DEF EndCycle, LoopTypeOK
<1>9. CASE Release(s)
  BY <1>1, <1>9, GotoMoves DEF Release, LoopTypeOK
<1>10. CASE Heartbeat(s)
  <2>1. lock \in LockFile /\ lock' = [lock EXCEPT !.expired = FALSE]
    BY <1>1, <1>10 DEF Heartbeat, Owns
  <2>2. lock' \in LockFile
    BY <2>1 DEF LockFile
  <2> QED BY <1>10, <2>2 DEF Heartbeat, LoopTypeOK
<1>11. CASE KillLoop(s)
  <2>1. loop' \in [Senders -> [pc : LoopPcs, tries : 0..3]] /\ kills' \in Nat
    BY <1>11, GotoMoves DEF KillLoop, LoopTypeOK
  <2>2. lock' = lock \/ (lock \in LockFile /\ lock' = [lock EXCEPT !.alive = FALSE])
    BY <1>1, <1>11 DEF KillLoop
  <2>3. lock' \in LockFile \cup {NoLock}
    BY <1>1, <2>2 DEF LockFile
  <2> QED BY <2>1, <2>3 DEF LoopTypeOK
<1> QED BY <1>2, <1>3, <1>4, <1>5, <1>6, <1>7, <1>8, <1>9, <1>10, <1>11 DEF LoopStep, LoopWork

-----------------------------------------------------------------------------
(* The lock.                                                               *)

\* In which settings the lock excludes: no stale lock is stolen, or only one process at a time is at it.
SafeSetting == SerialStarts \/ ~StealStale \/ ~PidKnown

\* The file is the one that process s, as it is now, has created.
Holds(s) == lock # NoLock /\ lock.by = s /\ lock.alive

WriterHolds == \A s \in Senders : LoopAt(s, "write") => Holds(s)
LooperOwns == \A s \in Senders : Looping(s) => Owns(s)
UnlinksDeadLock == \A s \in Senders : LoopAt(s, "unlink") => SerialStarts /\ lock # NoLock /\ ~lock.alive
OneLocking == SerialStarts => \A s, t \in Senders : Locking(s) /\ Locking(t) => s = t

\* The child of a loop runs in the loop's step, and in nobody's when no loop was killed.
ChildInStep == kills = 0 => ~overlapped /\ \A s \in Senders : Running(s) => LoopAt(s, "step")

LockInv == WriterHolds /\ LooperOwns /\ UnlinksDeadLock /\ OneLocking /\ ChildInStep
LInv == LoopTypeOK /\ TriesLeft /\ (SafeSetting => LockInv)

LEMMA TriesStep ==
    ASSUME LoopTypeOK, TriesLeft, NEW s \in Senders, LoopStep(s)
    PROVE  TriesLeft'
<1>1. loop \in [Senders -> [pc : LoopPcs, tries : 0..3]]
  BY DEF LoopTypeOK
<1> USE DEF TriesLeft, LoopAt, LoopGoto
<1>2. CASE StartLoop(s) \/ UnlinkStale(s)
  BY <1>1, <1>2 DEF StartLoop, UnlinkStale
<1>3. CASE CreateLock(s) \/ WriteOwner(s) \/ FindStale(s) \/ Denied(s)
  BY <1>1, <1>3 DEF CreateLock, WriteOwner, FindStale, Denied
<1>4. CASE BeginStep(s) \/ EndCycle(s) \/ Wake(s) \/ Release(s)
  BY <1>1, <1>4 DEF BeginStep, EndCycle, Wake, Release
<1>5. CASE Heartbeat(s) \/ KillLoop(s)
  BY <1>1, <1>5 DEF Heartbeat, KillLoop
<1> QED BY <1>2, <1>3, <1>4, <1>5 DEF LoopStep, LoopWork

\* Only one process has the lock, so only one is writing it or looping.
LEMMA OneHolder ==
    ASSUME LockInv, NEW s \in Senders, NEW t \in Senders,
           LoopAt(s, "write") \/ Looping(s), LoopAt(t, "write") \/ Looping(t)
    PROVE  s = t
BY DEF LockInv, WriterHolds, LooperOwns, Holds, Owns

\* A step that leaves the file and the children alone, and brings nobody to it.
LEMMA LockSame ==
    ASSUME LoopTypeOK, LockInv, NEW s \in Senders, NEW pc \in LoopPcs, Moves(s, pc), lock' = lock,
           pc \in {"write", "unlink", "create"} => Locking(s),
           pc = "write" => LoopAt(s, "write"),
           pc = "unlink" => SerialStarts /\ lock # NoLock /\ ~lock.alive,
           pc \in {"cycle", "step", "sleep", "release"} => Looping(s),
           LoopAt(s, "step") => ~Running(s),
           UNCHANGED <<senderVars, kills>>
    PROVE  LockInv'
<1> USE DEF Moves, LoopAt, Locking, Looping
<1>1. WriterHolds' /\ LooperOwns'
  BY DEF LockInv, WriterHolds, LooperOwns, Holds, Owns
<1>2. UnlinksDeadLock' /\ OneLocking'
  BY DEF LockInv, UnlinksDeadLock, OneLocking
<1>3. ChildInStep'
  BY DEF LockInv, ChildInStep, Running, senderVars
<1> QED BY <1>1, <1>2, <1>3 DEF LockInv

LEMMA StartKeeps ==
    ASSUME LoopTypeOK, LockInv, NEW s \in Senders, StartLoop(s)
    PROVE  LockInv'
<1>1. Moves(s, "create") /\ lock' = lock /\ UNCHANGED <<senderVars, kills>> /\ ~Running(s)
  BY DEF StartLoop, LoopTypeOK, Moves
<1> USE DEF Moves, LoopAt, Locking, Looping
<1>2. WriterHolds' /\ LooperOwns'
  BY <1>1 DEF LockInv, WriterHolds, LooperOwns, Holds, Owns
<1>3. UnlinksDeadLock'
  BY <1>1 DEF LockInv, UnlinksDeadLock
<1>4. OneLocking'
  BY <1>1 DEF StartLoop, OneLocking
<1>5. ChildInStep'
  BY <1>1 DEF LockInv, ChildInStep, Running, senderVars
<1> QED BY <1>2, <1>3, <1>4, <1>5 DEF LockInv

\* There is no file, so nobody writes it or loops, and nobody is about to unlink it.
LEMMA CreateKeeps ==
    ASSUME LoopTypeOK, LockInv, NEW s \in Senders, CreateLock(s)
    PROVE  LockInv'
<1>1. /\ Moves(s, "write") /\ Locking(s) /\ lock = NoLock
      /\ lock' = [by |-> s, written |-> FALSE, alive |-> TRUE, expired |-> FALSE]
      /\ UNCHANGED <<senderVars, kills>> /\ ~LoopAt(s, "step")
  BY GotoMoves DEF CreateLock, LoopPcs, LoopAt, Locking
<1>2. lock' # NoLock
  <2>1. lock' \in LockFile
    BY <1>1 DEF LockFile
  <2> QED BY <2>1, FileIsSome
<1>3. \A t \in Senders : ~LoopAt(t, "write") /\ ~LoopAt(t, "unlink") /\ ~Looping(t)
  BY <1>1 DEF LockInv, WriterHolds, LooperOwns, UnlinksDeadLock, Holds, Owns
<1> USE DEF Moves, LoopAt, Locking, Looping
<1>4. WriterHolds'
  BY <1>1, <1>2, <1>3 DEF WriterHolds, Holds
<1>5. LooperOwns' /\ UnlinksDeadLock'
  BY <1>1, <1>3 DEF LooperOwns, UnlinksDeadLock
<1>6. OneLocking'
  BY <1>1 DEF LockInv, OneLocking
<1>7. ChildInStep'
  BY <1>1 DEF LockInv, ChildInStep, Running, senderVars
<1> QED BY <1>4, <1>5, <1>6, <1>7 DEF LockInv

LEMMA WriteKeeps ==
    ASSUME LoopTypeOK, LockInv, NEW s \in Senders, WriteOwner(s)
    PROVE  LockInv'
<1>1. /\ Moves(s, "cycle") /\ LoopAt(s, "write") /\ Locking(s) /\ Holds(s)
      /\ UNCHANGED <<senderVars, kills>> /\ ~LoopAt(s, "step")
  BY GotoMoves DEF WriteOwner, LoopPcs, LoopAt, Locking, LockInv, WriterHolds
<1>2. lock \in LockFile /\ lock' = [lock EXCEPT !.written = TRUE]
  BY <1>1 DEF WriteOwner, Holds, LoopTypeOK
<1>3. lock' # NoLock /\ lock'.by = s /\ lock'.alive /\ lock'.written
  <2>1. lock' \in LockFile /\ lock'.by = lock.by /\ lock'.alive = lock.alive /\ lock'.written = TRUE
    BY <1>2 DEF LockFile
  <2> QED BY <1>1, <2>1, FileIsSome DEF Holds
<1>4. \A t \in Senders \ {s} : ~LoopAt(t, "write") /\ ~Looping(t)
  BY <1>1, OneHolder
<1> USE DEF Moves, LoopAt, Locking, Looping
<1>5. WriterHolds' /\ LooperOwns'
  BY <1>1, <1>3, <1>4 DEF WriterHolds, LooperOwns, Owns
<1>6. UnlinksDeadLock'
  BY <1>1 DEF LockInv, UnlinksDeadLock, Holds
<1>7. OneLocking'
  BY <1>1 DEF LockInv, OneLocking
<1>8. ChildInStep'
  BY <1>1 DEF LockInv, ChildInStep, Running, senderVars
<1> QED BY <1>5, <1>6, <1>7, <1>8 DEF LockInv

\* The file that is unlinked is still the dead one: nobody writes, loops, or is about to unlink another.
LEMMA UnlinkKeeps ==
    ASSUME LoopTypeOK, LockInv, NEW s \in Senders, UnlinkStale(s)
    PROVE  LockInv'
<1>1. /\ Moves(s, "create") /\ LoopAt(s, "unlink") /\ Locking(s) /\ lock' = NoLock
      /\ UNCHANGED <<senderVars, kills>> /\ ~LoopAt(s, "step")
  BY DEF UnlinkStale, LoopTypeOK, Moves, LoopAt, Locking
<1>2. SerialStarts /\ ~lock.alive
  BY <1>1 DEF LockInv, UnlinksDeadLock
<1>3. \A t \in Senders : ~LoopAt(t, "write") /\ ~Looping(t)
  BY <1>2 DEF LockInv, WriterHolds, LooperOwns, Holds, Owns
<1>4. \A t \in Senders : LoopAt(t, "unlink") => t = s
  BY <1>1, <1>2 DEF LockInv, OneLocking, Locking, LoopAt
<1> USE DEF Moves, LoopAt, Locking, Looping
<1>5. WriterHolds' /\ LooperOwns' /\ UnlinksDeadLock'
  BY <1>1, <1>3, <1>4 DEF WriterHolds, LooperOwns, UnlinksDeadLock
<1>6. OneLocking'
  BY <1>1 DEF LockInv, OneLocking
<1>7. ChildInStep'
  BY <1>1 DEF LockInv, ChildInStep, Running, senderVars
<1> QED BY <1>5, <1>6, <1>7 DEF LockInv

\* Nobody else is in a step, so no other child runs.
LEMMA BeginKeeps ==
    ASSUME TInv, LoopTypeOK, LockInv, NEW s \in Senders, BeginStep(s)
    PROVE  LockInv'
<1>1. /\ Moves(s, "step") /\ LoopAt(s, "cycle") /\ Looping(s) /\ lock' = lock /\ kills' = kills /\ Launch(s)
  BY GotoMoves DEF BeginStep, LoopPcs, LoopAt, Looping
<1> USE DEF Moves, LoopAt, Locking, Looping
<1>2. WriterHolds' /\ LooperOwns'
  BY <1>1 DEF LockInv, WriterHolds, LooperOwns, Holds, Owns
<1>3. UnlinksDeadLock' /\ OneLocking'
  BY <1>1 DEF LockInv, UnlinksDeadLock, OneLocking
<1>4. ChildInStep'
  <2> SUFFICES ASSUME kills = 0
               PROVE  ~overlapped' /\ \A t \in Senders : Running(t)' => LoopAt(t, "step")'
    BY <1>1 DEF ChildInStep
  <2>1. \A t \in Senders : ~Running(t)
    BY <1>1, OneHolder DEF LockInv, ChildInStep
  <2>2. ~overlapped'
    BY <1>1, <2>1 DEF Launch, LockInv, ChildInStep
  <2>3. \A t \in Senders \ {s} : run'[t] = run[t]
    BY <1>1, StepRun
  <2> QED BY <1>1, <2>1, <2>2, <2>3 DEF Running
<1> QED BY <1>2, <1>3, <1>4 DEF LockInv

LEMMA QuietKeeps ==
    ASSUME LoopTypeOK, LockInv, SafeSetting, NEW s \in Senders,
           FindStale(s) \/ Denied(s) \/ EndCycle(s) \/ Wake(s)
    PROVE  LockInv'
<1>1. CASE FindStale(s)
  <2>1. Moves(s, "unlink") /\ lock' = lock /\ Locking(s) /\ ~LoopAt(s, "step") /\ UNCHANGED <<senderVars, kills>>
    BY <1>1, GotoMoves DEF FindStale, LoopPcs, LoopAt, Locking
  <2>2. SerialStarts /\ lock # NoLock /\ ~lock.alive
    BY <1>1 DEF FindStale, Stealable, SafeSetting
  <2> QED BY <2>1, <2>2, LockSame DEF LoopPcs
<1>2. CASE Denied(s)
  <2>1. Moves(s, "off") /\ lock' = lock /\ ~LoopAt(s, "step") /\ UNCHANGED <<senderVars, kills>>
    BY <1>2, GotoMoves DEF Denied, LoopPcs, LoopAt
  <2> QED BY <2>1, LockSame DEF LoopPcs
<1>3. CASE EndCycle(s) \/ Wake(s)
  <2>1. /\ Looping(s)
        /\ LoopAt(s, "step") => ~Running(s)
        /\ lock' = lock /\ UNCHANGED <<senderVars, kills>>
    BY <1>3 DEF EndCycle, Wake, LoopAt, Looping
  <2>2. \E pc \in {"release", "sleep", "cycle"} : Moves(s, pc)
    BY <1>3, GotoMoves DEF EndCycle, Wake, LoopPcs
  <2> QED BY <2>1, <2>2, LockSame DEF LoopPcs
<1> QED BY <1>1, <1>2, <1>3

LEMMA HeartbeatKeeps ==
    ASSUME LoopTypeOK, LockInv, NEW s \in Senders, Heartbeat(s)
    PROVE  LockInv'
<1>1. /\ lock \in LockFile /\ lock' = [lock EXCEPT !.expired = FALSE] /\ UNCHANGED <<senderVars, loop, kills>>
  BY DEF Heartbeat, Owns, LoopTypeOK
<1>2. /\ lock' # NoLock /\ lock # NoLock
      /\ lock'.by = lock.by /\ lock'.alive = lock.alive /\ lock'.written = lock.written
  <2>1. lock' \in LockFile /\ lock'.by = lock.by /\ lock'.alive = lock.alive /\ lock'.written = lock.written
    BY <1>1 DEF LockFile
  <2> QED BY <1>1, <2>1, FileIsSome
<1> USE DEF LoopAt, Locking, Looping
<1>3. WriterHolds' /\ LooperOwns' /\ UnlinksDeadLock' /\ OneLocking'
  BY <1>1, <1>2 DEF LockInv, WriterHolds, LooperOwns, UnlinksDeadLock, OneLocking, Holds, Owns
<1>4. ChildInStep'
  BY <1>1 DEF LockInv, ChildInStep, Running, senderVars
<1> QED BY <1>3, <1>4 DEF LockInv

\* The file is unlinked only by its owner: nobody else writes it or loops.
LEMMA ReleaseKeeps ==
    ASSUME LoopTypeOK, LockInv, NEW s \in Senders, Release(s)
    PROVE  LockInv'
<1>1. /\ Moves(s, "off") /\ Looping(s) /\ Owns(s) /\ lock' = NoLock
      /\ UNCHANGED <<senderVars, kills>> /\ ~LoopAt(s, "step")
  BY GotoMoves DEF Release, LoopPcs, LoopAt, Looping, LockInv, LooperOwns
<1>2. \A t \in Senders \ {s} : ~LoopAt(t, "write") /\ ~Looping(t)
  BY <1>1, OneHolder
<1>3. \A t \in Senders : ~LoopAt(t, "unlink")
  BY <1>1 DEF LockInv, UnlinksDeadLock, Owns
<1> USE DEF Moves, LoopAt, Locking, Looping
<1>4. WriterHolds' /\ LooperOwns' /\ UnlinksDeadLock'
  BY <1>1, <1>2, <1>3 DEF WriterHolds, LooperOwns, UnlinksDeadLock
<1>5. OneLocking'
  BY <1>1 DEF LockInv, OneLocking
<1>6. ChildInStep'
  BY <1>1 DEF LockInv, ChildInStep, Running, senderVars
<1> QED BY <1>4, <1>5, <1>6 DEF LockInv

\* The lock of a loop that is killed is a dead one; it was nobody else's.
LEMMA KillKeeps ==
    ASSUME LoopTypeOK, LockInv, NEW s \in Senders, KillLoop(s)
    PROVE  LockInv'
<1>1. Moves(s, "off") /\ kills' = kills + 1 /\ kills \in Nat
  BY GotoMoves DEF KillLoop, LoopPcs, LoopTypeOK
<1>2. CASE lock # NoLock /\ lock.by = s
  <2>1. lock \in LockFile /\ lock' = [lock EXCEPT !.alive = FALSE]
    BY <1>2 DEF KillLoop, LoopTypeOK
  <2>2. lock' # NoLock /\ ~lock'.alive
    <3>1. lock' \in LockFile /\ ~lock'.alive
      BY <2>1 DEF LockFile
    <3> QED BY <3>1, FileIsSome
  <2>3. \A t \in Senders \ {s} : ~LoopAt(t, "write") /\ ~Looping(t)
    BY <1>2 DEF LockInv, WriterHolds, LooperOwns, Holds, Owns
  <2> USE DEF Moves, LoopAt, Locking, Looping
  <2>4. WriterHolds' /\ LooperOwns'
    BY <1>1, <2>3 DEF WriterHolds, LooperOwns
  <2>5. UnlinksDeadLock' /\ OneLocking'
    BY <1>1, <2>2 DEF LockInv, UnlinksDeadLock, OneLocking
  <2> QED BY <1>1, <2>4, <2>5 DEF LockInv, ChildInStep
<1>3. CASE ~(lock # NoLock /\ lock.by = s)
  <2>1. lock' = lock
    BY <1>3 DEF KillLoop
  <2> USE DEF Moves, LoopAt, Locking, Looping
  <2>2. WriterHolds' /\ LooperOwns'
    BY <1>1, <2>1 DEF LockInv, WriterHolds, LooperOwns, Holds, Owns
  <2>3. UnlinksDeadLock' /\ OneLocking'
    BY <1>1, <2>1 DEF LockInv, UnlinksDeadLock, OneLocking
  <2> QED BY <1>1, <2>2, <2>3 DEF LockInv, ChildInStep
<1> QED BY <1>2, <1>3

LEMMA ChildKeeps ==
    ASSUME TInv, LoopTypeOK, LockInv, NEW s \in Senders, ChildWorks(s) \/ ChildDies(s)
    PROVE  LockInv'
<1>1. (Work(s) \/ Die(s)) /\ UNCHANGED loopVars
  BY DEF ChildWorks, ChildDies
<1>2. Running(s) /\ overlapped' = overlapped /\ \A t \in Senders \ {s} : run'[t] = run[t]
  BY <1>1, RunsBefore, StepRun
<1>3. WriterHolds' /\ LooperOwns' /\ UnlinksDeadLock' /\ OneLocking'
  BY <1>1 DEF LockInv, WriterHolds, LooperOwns, UnlinksDeadLock, OneLocking, Holds, Owns,
              LoopAt, Locking, Looping, loopVars
<1>4. ChildInStep'
  BY <1>1, <1>2 DEF LockInv, ChildInStep, Running, LoopAt, loopVars
<1> QED BY <1>3, <1>4 DEF LockInv

\* Expiry, the operator and the server.
LEMMA OthersKeep ==
    ASSUME LoopTypeOK, TriesLeft, Expire \/ Environment \/ UNCHANGED vars
    PROVE  LoopTypeOK' /\ TriesLeft' /\ (LockInv => LockInv')
<1>1. UNCHANGED <<loop, kills, run, overlapped>>
  BY DEF Expire, Environment, Edit, ServerForgets, vars, loopVars, senderVars
<1>2. lock' = lock \/ (lock \in LockFile /\ lock' = [lock EXCEPT !.expired = TRUE])
  BY DEF Expire, Environment, LoopTypeOK, vars, loopVars
<1>3. /\ lock' \in LockFile \cup {NoLock} /\ (lock' = NoLock <=> lock = NoLock)
      /\ lock # NoLock => lock'.by = lock.by /\ lock'.alive = lock.alive /\ lock'.written = lock.written
  <2>1. CASE lock' = lock
    BY <2>1 DEF LoopTypeOK
  <2>2. CASE lock \in LockFile /\ lock' = [lock EXCEPT !.expired = TRUE]
    <3>1. lock' \in LockFile /\ lock'.by = lock.by /\ lock'.alive = lock.alive /\ lock'.written = lock.written
      BY <2>2 DEF LockFile
    <3> QED BY <2>2, <3>1, FileIsSome
  <2> QED BY <1>2, <2>1, <2>2
<1>4. LoopTypeOK' /\ TriesLeft'
  BY <1>1, <1>3 DEF LoopTypeOK, TriesLeft, LoopAt
<1>5. ASSUME LockInv PROVE WriterHolds' /\ LooperOwns' /\ UnlinksDeadLock' /\ OneLocking'
  BY <1>1, <1>3, <1>5 DEF LockInv, WriterHolds, LooperOwns, UnlinksDeadLock, OneLocking, Holds, Owns,
                          LoopAt, Locking, Looping
<1>6. LockInv => ChildInStep'
  BY <1>1 DEF LockInv, ChildInStep, Running, LoopAt
<1> QED BY <1>4, <1>5, <1>6 DEF LockInv

-----------------------------------------------------------------------------
(* The invariant, and what follows from it.                                *)

LEMMA LoopInit == Init => TInv /\ LInv
<1> SUFFICES ASSUME Init PROVE TInv /\ LInv
  OBVIOUS
<1>1. TInv
  BY TypesInit DEF Init
<1>2. /\ lock = NoLock /\ kills = 0 /\ ~overlapped
      /\ \A s \in Senders : loop[s].pc = "off" /\ ~Running(s)
  BY DEF Init, SenderInit, Running, Off
<1>3. LoopTypeOK
  <2>1. 0 \in 0..3
    OBVIOUS
  <2> QED BY <1>2, <2>1 DEF Init, LoopTypeOK, LoopPcs
<1>4. TriesLeft /\ LockInv
  BY <1>2 DEF TriesLeft, LockInv, WriterHolds, LooperOwns, UnlinksDeadLock, OneLocking, ChildInStep,
              LoopAt, Locking, Looping
<1> QED BY <1>1, <1>3, <1>4 DEF LInv

LEMMA LoopStepKeeps ==
    ASSUME TInv, LInv, [Next]_vars
    PROVE  TInv' /\ LInv'
<1>1. TInv'
  BY StepImplements, TypesStep
<1>2. LoopTypeOK /\ TriesLeft
  BY DEF LInv
<1>3. CASE Expire \/ Environment \/ UNCHANGED vars
  BY <1>1, <1>3, OthersKeep DEF LInv
<1>4. ASSUME NEW s \in Senders, LoopStep(s)
      PROVE  LInv'
  <2>1. LoopTypeOK' /\ TriesLeft'
    BY <1>2, <1>4, LoopTypesStep, TriesStep
  <2>2. ASSUME SafeSetting PROVE LockInv'
    <3>1. LockInv
      BY <2>2 DEF LInv
    <3>2. CASE StartLoop(s) \/ CreateLock(s) \/ WriteOwner(s) \/ UnlinkStale(s) \/ BeginStep(s)
      BY <1>2, <3>1, <3>2, StartKeeps, CreateKeeps, WriteKeeps, UnlinkKeeps, BeginKeeps
    <3>3. CASE FindStale(s) \/ Denied(s) \/ EndCycle(s) \/ Wake(s)
      BY <1>2, <2>2, <3>1, <3>3, QuietKeeps
    <3>4. CASE Release(s) \/ Heartbeat(s) \/ KillLoop(s)
      BY <1>2, <3>1, <3>4, ReleaseKeeps, HeartbeatKeeps, KillKeeps
    <3> QED BY <1>4, <3>2, <3>3, <3>4 DEF LoopStep, LoopWork
  <2> QED BY <2>1, <2>2 DEF LInv
<1>5. ASSUME NEW s \in Senders, ChildWorks(s) \/ ChildDies(s)
      PROVE  LInv'
  <2>1. UNCHANGED loopVars
    BY <1>5 DEF ChildWorks, ChildDies
  <2>2. LoopTypeOK' /\ TriesLeft'
    BY <1>2, <2>1 DEF LoopTypeOK, TriesLeft, LoopAt, loopVars
  <2> QED BY <1>2, <1>5, <2>2, ChildKeeps DEF LInv
<1> QED BY <1>1, <1>3, <1>4, <1>5 DEF Next, LoopStep

LEMMA LoopInvariant == Spec => [](TInv /\ LInv)
BY LoopInit, LoopStepKeeps, PTL DEF Spec

\* Lock file, loops and the sender's files and locals keep their types; a loop tries the lock three times.
THEOREM LoopTypeCorrect == Spec => []TypeOK
<1>1. TInv /\ LInv => TypeOK
  BY DEF TInv, LInv, LoopTypeOK, TypeOK
<1> QED BY <1>1, LoopInvariant, PTL

\* While a loop runs, the lock file is there, names it, and is not taken from it.
THEOREM LockKept == Spec => []RunningLoopOwnsLock
<1>1. LInv => RunningLoopOwnsLock
  BY DEF LInv, SafeSetting, LockInv, LooperOwns, RunningLoopOwnsLock
<1> QED BY <1>1, LoopInvariant, PTL

\* The lock excludes: two loops do not run at the same time (LockHandle.acquire).
THEOREM OneLoop == Spec => []OneLoopRuns
<1>1. LInv => OneLoopRuns
  BY OneHolder DEF LInv, SafeSetting, OneLoopRuns
<1> QED BY <1>1, LoopInvariant, PTL

\* Two senders overlap only after a loop was killed and left its child behind (_run_step starts a child
\* and waits for it).
THEOREM OnlyKillsOverlap == Spec => []OverlapOnlyAfterKill
<1>1. LInv => OverlapOnlyAfterKill
  BY DEF LInv, SafeSetting, LockInv, ChildInStep, OverlapOnlyAfterKill
<1> QED BY <1>1, LoopInvariant, PTL

\* Loop and sender together, as long as no loop was killed: whichever children die or time out, and however
\* the operator edits, a key is sent at most once and the run keeps its limit.
LoopSendsOnce ==
    SafeSetting /\ kills = 0
        => /\ \A i, j \in DOMAIN orders : orders[i].key = orders[j].key => i = j
           /\ Len(orders) <= RunLimit + crashes

THEOREM LoopSendsKeyOnce == Spec => []LoopSendsOnce
<1>1. SentAtMostOnce /\ RunLimitUpToCrashes /\ OverlapOnlyAfterKill => LoopSendsOnce
  BY DEF SentAtMostOnce, RunLimitUpToCrashes, OverlapOnlyAfterKill, SafeSetting, LoopSendsOnce
<1> QED BY <1>1, LoopRunsSenders, SentOnce, RunLimitHolds, OnlyKillsOverlap, PTL
=============================================================================
