--------------------------- MODULE SoakLockProofs ---------------------------
(***************************************************************************)
(* Proofs about the soak runner's lock file (SoakLock.tla), for any set of *)
(* processes, starts, kills, failing unlinks and delays.                   *)
(*                                                                         *)
(* As long as no left file was contested and no live soak's file mistaken  *)
(* for a left one, the file that is there is the running process's         *)
(* (RunnerIsOwner), and a process that is about to unlink a file is the    *)
(* only one to do so, the file is still there and stale, and nothing runs  *)
(* (SafeTakeOver).  The second keeps the first: a file that is there makes *)
(* every other start fail, so nobody can begin to run before the unlink.   *)
(***************************************************************************)
EXTENDS SoakLock, TLAPS

RunnerIsOwner == \A p \in Procs : pc[p] = "running" => lock # NoLock /\ lock.owner = p

SafeTakeOver ==
    \A p \in Procs : pc[p] = "unlink" =>
        /\ lock # NoLock /\ lock.stale
        /\ ~SomeoneRuns
        /\ \A q \in Procs : pc[q] = "unlink" => q = p

Undisputed == RunnerIsOwner /\ SafeTakeOver

IInv == TypeOK /\ (contested \/ mistaken \/ Undisputed)

-----------------------------------------------------------------------------

\* A lock that somebody has just written is there, is his, and is fresh.
LEMMA HeldIsThere ==
    \A p \in Procs : FreshLock(p) # NoLock /\ FreshLock(p).owner = p /\ ~FreshLock(p).stale
  BY NobodyAssumption DEF FreshLock, NoLock

\* A move of one process.
LEMMA GoesTo ==
    ASSUME TypeOK, NEW p \in Procs, NEW to, Goes(p, to)
    PROVE  /\ pc'[p] = to
           /\ \A q \in Procs : q # p => pc'[q] = pc[q]
           /\ to \in {"out", "stat", "unlink", "create", "running"} =>
                  pc' \in [Procs -> {"out", "stat", "unlink", "create", "running"}]
<1> DEFINE Places == {"out", "stat", "unlink", "create", "running"}
<1>1. pc \in [Procs -> Places] /\ pc' = [pc EXCEPT ![p] = to]
  BY DEF TypeOK, Goes
<1> HIDE DEF Places
<1>2. to \in Places => pc' \in [Procs -> Places]
  BY <1>1
<1> QED BY <1>1, <1>2 DEF Places

\* An absent lock is one of the states of the lock file.
LEMMA NoLockType == NoLock \in [owner : Procs \cup {"nobody"}, stale : BOOLEAN]
  BY DEF NoLock

\* unlink() removes the file or leaves it as it is.
LEMMA UnlinkEffect ==
    ASSUME TypeOK, Unlink
    PROVE  /\ lock' \in {lock, NoLock}
           /\ lock' \in [owner : Procs \cup {"nobody"}, stale : BOOLEAN]
           /\ failures' \in Nat
  BY NoLockType DEF TypeOK, Unlink

\* Every step of acquire(), of a running soak, of a crash and of time keeps
\* the type of the state.
LEMMA TypeStep == TypeOK /\ [Next]_vars => TypeOK'
<1> SUFFICES ASSUME TypeOK, [Next]_vars PROVE TypeOK'
  OBVIOUS
<1>a. \A p \in Procs : FreshLock(p) \in [owner : Procs \cup {"nobody"}, stale : BOOLEAN]
  BY DEF FreshLock
<1>1. ASSUME NEW p \in Procs, LookForLock(p) PROVE TypeOK'
  <2>1. CASE Goes(p, "create")
    BY <1>1, <2>1, GoesTo DEF LookForLock, TypeOK, history
  <2>2. CASE Goes(p, "stat")
    BY <1>1, <2>2, GoesTo DEF LookForLock, TypeOK, history
  <2> QED BY <1>1, <2>1, <2>2 DEF LookForLock
<1>2. ASSUME NEW p \in Procs, ReadAge(p) PROVE TypeOK'
  <2>1. CASE Goes(p, "out") /\ UNCHANGED history
    BY <1>2, <2>1, GoesTo DEF ReadAge, TypeOK, history
  <2>2. CASE JudgeStale(p)
    BY <1>2, <2>2, GoesTo DEF ReadAge, JudgeStale, TypeOK
  <2>3. CASE Goes(p, "create") /\ UNCHANGED history
    BY <1>2, <2>3, GoesTo DEF ReadAge, TypeOK, history
  <2> QED BY <1>2, <2>1, <2>2, <2>3 DEF ReadAge
<1>3. ASSUME NEW p \in Procs, UnlinkStale(p) PROVE TypeOK'
  BY <1>3, GoesTo, UnlinkEffect DEF UnlinkStale, TypeOK, history
<1>4. ASSUME NEW p \in Procs, CreateLock(p) PROVE TypeOK'
  <2>1. CASE Goes(p, "running")
    BY <1>4, <1>a, <2>1, GoesTo DEF CreateLock, TypeOK, history
  <2>2. CASE Goes(p, "out")
    BY <1>4, <1>a, <2>2, GoesTo DEF CreateLock, TypeOK, history
  <2> QED BY <1>4, <2>1, <2>2 DEF CreateLock
<1>5. ASSUME NEW p \in Procs, Heartbeat(p) PROVE TypeOK'
  BY <1>5, <1>a DEF Heartbeat, TypeOK, history
<1>6. ASSUME NEW p \in Procs, Release(p) PROVE TypeOK'
  BY <1>6, GoesTo, UnlinkEffect DEF Release, TypeOK, history
<1>7. ASSUME NEW p \in Procs, Crash(p) PROVE TypeOK'
  BY <1>7, GoesTo DEF Crash, TypeOK, history
<1>8. CASE GrowsStale
  BY <1>8 DEF GrowsStale, TypeOK, history
<1>9. CASE UNCHANGED vars
  BY <1>9 DEF vars, history, TypeOK
<1> QED BY <1>1, <1>2, <1>3, <1>4, <1>5, <1>6, <1>7, <1>8, <1>9 DEF Next, Acquire

LEMMA InitType == Init => TypeOK
<1> SUFFICES ASSUME Init PROVE TypeOK
  OBVIOUS
<1>1. pc \in [Procs -> {"out", "stat", "unlink", "create", "running"}]
  BY DEF Init
<1> QED BY <1>1, NoLockType DEF Init, TypeOK

\* The type invariant holds (LockFile, main).
THEOREM TypeCorrect == Spec => []TypeOK
<1>1. Init => TypeOK
  BY InitType
<1> QED BY <1>1, TypeStep, PTL DEF Spec

-----------------------------------------------------------------------------

\* An undisputed lock stays so, except by the step that disputes it.
LEMMA UndisputedStep ==
    ASSUME TypeOK, TypeOK', Undisputed, [Next]_vars
    PROVE  contested' \/ mistaken' \/ Undisputed'
<1>o. \A p, q \in Procs : pc[p] = "running" /\ pc[q] = "running" => p = q
  BY DEF Undisputed, RunnerIsOwner
<1>1. ASSUME NEW p \in Procs, LookForLock(p) PROVE Undisputed'
  <2>1. pc[p] = "out" /\ pc'[p] \in {"create", "stat"} /\ lock' = lock
    BY <1>1, GoesTo DEF LookForLock
  <2>2. \A q \in Procs : q # p => pc'[q] = pc[q]
    BY <1>1, GoesTo DEF LookForLock
  <2>3. SomeoneRuns' <=> SomeoneRuns
    BY <2>1, <2>2 DEF SomeoneRuns
  <2> QED BY <2>1, <2>2, <2>3 DEF Undisputed, RunnerIsOwner, SafeTakeOver, NoLock
<1>2. ASSUME NEW p \in Procs, ReadAge(p) PROVE contested' \/ mistaken' \/ Undisputed'
  <2>1. pc[p] = "stat" /\ pc'[p] \in {"out", "unlink", "create"} /\ lock' = lock
    BY <1>2, GoesTo DEF ReadAge, JudgeStale
  <2>2. \A q \in Procs : q # p => pc'[q] = pc[q]
    BY <1>2, GoesTo DEF ReadAge, JudgeStale
  <2>3. SomeoneRuns' <=> SomeoneRuns
    BY <2>1, <2>2 DEF SomeoneRuns
  <2>4. CASE JudgeStale(p)
    <3>1. SUFFICES ASSUME ~contested', ~mistaken' PROVE Undisputed'
      OBVIOUS
    <3>2. ~SomeoneRuns /\ \A q \in Procs \ {p} : pc[q] # "unlink"
      BY <2>4, <3>1 DEF JudgeStale, TypeOK
    <3>3. lock # NoLock /\ lock.stale
      BY <2>4 DEF JudgeStale
    <3> QED BY <2>1, <2>2, <2>3, <3>2, <3>3
            DEF Undisputed, RunnerIsOwner, SafeTakeOver, NoLock, SomeoneRuns
  <2>5. CASE ~JudgeStale(p)
    <3>1. pc'[p] # "unlink"
      BY <1>2, <2>5, GoesTo DEF ReadAge
    <3> QED BY <2>1, <2>2, <2>3, <3>1
            DEF Undisputed, RunnerIsOwner, SafeTakeOver, NoLock
  <2> QED BY <2>4, <2>5
<1>3. ASSUME NEW p \in Procs, UnlinkStale(p) PROVE Undisputed'
  <2>1. pc[p] = "unlink" /\ pc'[p] = "create"
    BY <1>3, GoesTo DEF UnlinkStale
  <2>2. \A q \in Procs : q # p => pc'[q] = pc[q]
    BY <1>3, GoesTo DEF UnlinkStale
  <2>3. ~SomeoneRuns /\ \A q \in Procs : pc[q] = "unlink" => q = p
    BY <2>1 DEF Undisputed, SafeTakeOver
  <2>4. ~SomeoneRuns' /\ \A q \in Procs : pc'[q] # "unlink"
    BY <2>1, <2>2, <2>3 DEF SomeoneRuns
  <2> QED BY <2>4 DEF Undisputed, RunnerIsOwner, SafeTakeOver, SomeoneRuns
<1>4. ASSUME NEW p \in Procs, CreateLock(p) PROVE Undisputed'
  <2>1. pc[p] = "create" /\ \A q \in Procs : q # p => pc'[q] = pc[q]
    BY <1>4, GoesTo DEF CreateLock
  <2>2. CASE lock = NoLock
    <3>1. lock' = FreshLock(p) /\ pc'[p] = "running"
      BY <1>4, <2>2, GoesTo DEF CreateLock
    <3>2. \A q \in Procs : pc[q] \notin {"running", "unlink"}
      BY <2>2 DEF Undisputed, RunnerIsOwner, SafeTakeOver
    <3>3. lock' # NoLock /\ lock'.owner = p
      BY <3>1, HeldIsThere
    <3> QED BY <2>1, <3>1, <3>2, <3>3 DEF Undisputed, RunnerIsOwner, SafeTakeOver, NoLock
  <2>3. CASE lock # NoLock
    <3>1. lock' = lock /\ pc'[p] = "out"
      BY <1>4, <2>3, GoesTo DEF CreateLock
    <3>2. SomeoneRuns' <=> SomeoneRuns
      BY <2>1, <3>1 DEF SomeoneRuns
    <3> QED BY <2>1, <3>1, <3>2 DEF Undisputed, RunnerIsOwner, SafeTakeOver, NoLock
  <2> QED BY <2>2, <2>3
<1>5. ASSUME NEW p \in Procs, Heartbeat(p) PROVE Undisputed'
  <2>1. pc[p] = "running" /\ lock' = FreshLock(p) /\ pc' = pc
    BY <1>5 DEF Heartbeat
  <2>2. SomeoneRuns /\ \A q \in Procs : pc[q] # "unlink"
    BY <2>1 DEF SomeoneRuns, Undisputed, SafeTakeOver
  <2>3. lock' # NoLock /\ lock'.owner = p
    BY <2>1, HeldIsThere
  <2> QED BY <1>o, <2>1, <2>2, <2>3 DEF Undisputed, RunnerIsOwner, SafeTakeOver, NoLock
<1>6. ASSUME NEW p \in Procs, Release(p) PROVE Undisputed'
  <2>1. pc[p] = "running" /\ pc'[p] = "out"
    BY <1>6, GoesTo DEF Release
  <2>2. \A q \in Procs : q # p => pc'[q] = pc[q]
    BY <1>6, GoesTo DEF Release
  <2>3. \A q \in Procs : pc[q] # "unlink"
    BY <2>1 DEF SomeoneRuns, Undisputed, SafeTakeOver
  <2>4. \A q \in Procs : pc'[q] \notin {"running", "unlink"}
    BY <1>o, <2>1, <2>2, <2>3
  <2> QED BY <2>4 DEF Undisputed, RunnerIsOwner, SafeTakeOver
<1>7. ASSUME NEW p \in Procs, Crash(p) PROVE Undisputed'
  <2>1. pc'[p] = "out" /\ lock' = lock
    BY <1>7, GoesTo DEF Crash
  <2>2. \A q \in Procs : q # p => pc'[q] = pc[q]
    BY <1>7, GoesTo DEF Crash
  <2>3. SomeoneRuns' => SomeoneRuns
    BY <2>1, <2>2 DEF SomeoneRuns
  <2> QED BY <2>1, <2>2, <2>3 DEF Undisputed, RunnerIsOwner, SafeTakeOver, NoLock
<1>8. CASE GrowsStale
  <2>1. pc' = pc /\ lock # NoLock /\ ~lock.stale
    BY <1>8 DEF GrowsStale
  <2>2. lock' # NoLock /\ lock'.owner = lock.owner
    BY <1>8, <2>1 DEF GrowsStale, NoLock, TypeOK
  <2>3. \A q \in Procs : pc[q] # "unlink"
    BY <2>1 DEF Undisputed, SafeTakeOver
  <2> QED BY <2>1, <2>2, <2>3 DEF Undisputed, RunnerIsOwner, SafeTakeOver, NoLock
<1>9. CASE UNCHANGED vars
  BY <1>9 DEF vars, Undisputed, RunnerIsOwner, SafeTakeOver, SomeoneRuns, NoLock
<1> QED BY <1>1, <1>2, <1>3, <1>4, <1>5, <1>6, <1>7, <1>8, <1>9 DEF Next, Acquire

\* What is history stays history.
LEMMA HistoryStays ==
    ASSUME TypeOK, [Next]_vars
    PROVE  (contested => contested') /\ (mistaken => mistaken')
<1>1. CASE UNCHANGED history
  BY <1>1 DEF history
<1>2. ASSUME NEW p \in Procs, JudgeStale(p)
      PROVE  (contested => contested') /\ (mistaken => mistaken')
  BY <1>2 DEF JudgeStale, TypeOK
<1> QED BY <1>1, <1>2 DEF Next, Acquire, LookForLock, ReadAge, UnlinkStale, CreateLock,
        Heartbeat, Release, Crash, GrowsStale, vars, history

LEMMA LockInductive == Spec => []IInv
<1>1. Init => IInv
  BY InitType DEF Init, IInv, Undisputed, RunnerIsOwner, SafeTakeOver
<1>2. IInv /\ [Next]_vars => IInv'
  BY TypeStep, UndisputedStep, HistoryStays DEF IInv
<1> QED BY <1>1, <1>2, PTL DEF Spec

\* main's lock (soak_stage7_v1.py:152-161): a second soak runs beside the first
\* only if two processes judged one left file stale, or the file of a live soak
\* was; kills, failed unlinks and any other overlap of starts do no harm.
THEOREM Exclusion == Spec => []OneSoakRuns
<1>1. IInv => OneSoakRuns
  BY DEF IInv, Undisputed, RunnerIsOwner, OneSoakRuns
<1> QED BY <1>1, LockInductive, PTL

\* With the same exceptions a running soak's lock file stays there and stays
\* its own (heartbeat, release): nobody else removes it.
THEOREM LockKept == Spec => []RunnerHoldsLock
<1>1. IInv => RunnerHoldsLock
  BY DEF IInv, Undisputed, RunnerIsOwner, RunnerHoldsLock
<1> QED BY <1>1, LockInductive, PTL

=============================================================================
