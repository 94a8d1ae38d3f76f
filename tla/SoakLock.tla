------------------------------ MODULE SoakLock ------------------------------
(***************************************************************************)
(* The lock file of the soak runner (args_core/soak_stage7_v1.py, class    *)
(* LockFile, and main's use of it).                                        *)
(*                                                                         *)
(* A process that starts looks for the file, reads its age, removes it     *)
(* when it is stale, and creates it with O_EXCL; it heartbeats at every    *)
(* loop and removes the file at the end.  Each of these is a step, and     *)
(* other processes may act in between: nothing keeps two starts apart.     *)
(* The file's age is fresh, or stale (more than stale_after_s); its        *)
(* content names the process that wrote it.                                *)
(*                                                                         *)
(* contested and mistaken are history: the two ways in which a process may *)
(* be about to remove a file that it should not remove.                    *)
(***************************************************************************)
EXTENDS Integers

CONSTANTS
    Procs,              \* processes that may run the soak
    MaxCrashes,         \* bound: crashes
    MaxUnlinkFailures   \* bound: calls of unlink() that raise

ASSUME BoundsAssumption == MaxCrashes \in Nat /\ MaxUnlinkFailures \in Nat
ASSUME NobodyAssumption == "nobody" \notin Procs

VARIABLES
    pc,         \* [Procs -> where the process is]
    lock,       \* the lock file: absent, or who wrote it last and whether it is stale
    crashes,
    failures,   \* calls of unlink() that raised
    contested,  \* history: two processes were about to unlink the same file
    mistaken    \* history: a process took the file of a running soak for a dead one's

history == <<contested, mistaken>>
vars == <<pc, lock, crashes, failures, history>>

NoLock == [owner |-> "nobody", stale |-> FALSE]
FreshLock(p) == [owner |-> p, stale |-> FALSE]

SomeoneRuns == \E p \in Procs : pc[p] = "running"

Goes(p, to) == pc' = [pc EXCEPT ![p] = to]

\* unlink() removes the file that is there by now, whoever's it is; an error
\* (another process has it open, say) is swallowed.
Unlink ==
    \/ lock' = NoLock /\ UNCHANGED failures
    \/ failures < MaxUnlinkFailures /\ failures' = failures + 1 /\ UNCHANGED lock

-----------------------------------------------------------------------------
(* acquire()                                                                *)

\* path.exists()
LookForLock(p) ==
    /\ pc[p] = "out"
    /\ Goes(p, IF lock = NoLock THEN "create" ELSE "stat")
    /\ UNCHANGED <<lock, crashes, failures, history>>

\* Mutant: a lock that exists is removed, whatever its age.
ReadAgeMutant(p) ==
    /\ pc[p] = "stat"
    /\ Goes(p, "unlink")
    /\ UNCHANGED <<lock, crashes, failures, history>>

JudgeStale(p) ==
    /\ lock # NoLock /\ lock.stale
    /\ Goes(p, "unlink")
    /\ contested' = (contested \/ \E q \in Procs \ {p} : pc[q] = "unlink")
    /\ mistaken' = (mistaken \/ SomeoneRuns)

\* path.stat(): when the file is gone meanwhile, the process ends with an error.
ReadAge(p) ==
    /\ pc[p] = "stat"
    /\ \/ lock = NoLock /\ Goes(p, "out") /\ UNCHANGED history
       \/ lock # NoLock /\ ~lock.stale /\ Goes(p, "create") /\ UNCHANGED history
       \/ JudgeStale(p)
    /\ UNCHANGED <<lock, crashes, failures>>

\* Mutant: the stale file is left where it is.
UnlinkStaleMutant(p) ==
    /\ pc[p] = "unlink"
    /\ Goes(p, "create")
    /\ UNCHANGED <<lock, crashes, failures, history>>

UnlinkStale(p) ==
    /\ pc[p] = "unlink"
    /\ Unlink
    /\ Goes(p, "create")
    /\ UNCHANGED <<crashes, history>>

\* Mutant: release() does not ask whether the lock was acquired.
CreateLockMutant(p) ==
    /\ pc[p] = "create"
    /\ \/ lock = NoLock /\ lock' = FreshLock(p) /\ Goes(p, "running")
       \/ lock # NoLock /\ lock' = NoLock /\ Goes(p, "out")
    /\ UNCHANGED <<crashes, failures, history>>

\* os.open with O_CREAT | O_EXCL; when the file exists the process reports
\* LOCKED and ends.
CreateLock(p) ==
    /\ pc[p] = "create"
    /\ \/ lock = NoLock /\ lock' = FreshLock(p) /\ Goes(p, "running")
       \/ lock # NoLock /\ lock' = lock /\ Goes(p, "out")
    /\ UNCHANGED <<crashes, failures, history>>

-----------------------------------------------------------------------------
(* A running soak, and time.                                                *)

\* write_text creates the file when it is not there.
Heartbeat(p) ==
    /\ pc[p] = "running"
    /\ lock' = FreshLock(p)
    /\ UNCHANGED <<pc, crashes, failures, history>>

\* Mutant: release() of a process that never comes to an end.
ReleaseMutant(p) ==
    /\ pc[p] = "running"
    /\ Unlink
    /\ Goes(p, "released")
    /\ UNCHANGED <<crashes, history>>

\* release() in the finally branch of main.
Release(p) ==
    /\ pc[p] = "running"
    /\ Unlink
    /\ Goes(p, "out")
    /\ UNCHANGED <<crashes, history>>

\* The process is killed.
Crash(p) ==
    /\ pc[p] # "out"
    /\ crashes < MaxCrashes
    /\ crashes' = crashes + 1
    /\ Goes(p, "out")
    /\ UNCHANGED <<lock, failures, history>>

\* The file has not been written for stale_after_s: its writer is dead, or a
\* loop of it takes longer than that.
GrowsStale ==
    /\ lock # NoLock /\ ~lock.stale
    /\ lock' = [lock EXCEPT !.stale = TRUE]
    /\ UNCHANGED <<pc, crashes, failures, history>>

-----------------------------------------------------------------------------

Init ==
    /\ pc = [p \in Procs |-> "out"]
    /\ lock = NoLock
    /\ crashes = 0 /\ failures = 0
    /\ contested = FALSE /\ mistaken = FALSE

Acquire(p) == LookForLock(p) \/ ReadAge(p) \/ UnlinkStale(p) \/ CreateLock(p)

Next ==
    \/ \E p \in Procs : Acquire(p) \/ Heartbeat(p) \/ Release(p) \/ Crash(p)
    \/ GrowsStale

Spec == Init /\ [][Next]_vars

\* An operator starts the soak again and again, and time passes.
FairSpec == Spec /\ WF_vars(\E p \in Procs : Acquire(p)) /\ WF_vars(GrowsStale)

-----------------------------------------------------------------------------
(* Properties.                                                              *)

\* Where a process is, what the lock file holds (LockFile), how often it was
\* killed and how often unlink() failed.
TypeOK ==
    /\ pc \in [Procs -> {"out", "stat", "unlink", "create", "running"}]
    /\ lock \in [owner : Procs \cup {"nobody"}, stale : BOOLEAN]
    /\ crashes \in Nat /\ failures \in Nat
    /\ contested \in BOOLEAN /\ mistaken \in BOOLEAN

\* "LOCKED is OK (exit 0)" (soak_stage7_v1.py:154): a second soak runs beside the
\* first only after two processes judged one left file stale, or a process the
\* file of a soak that is alive: neither kills, nor failed unlinks, nor starts
\* that overlap in any other way let two of them run.
OneSoakRuns ==
    \/ contested \/ mistaken
    \/ \A p, q \in Procs : pc[p] = "running" /\ pc[q] = "running" => p = q

\* With the same two exceptions the lock of a soak that runs is there and is its
\* own: no refused start, no take-over and no failed release of another process
\* removes it, though each of them may find it stale, gone or in the making.
RunnerHoldsLock ==
    \/ contested \/ mistaken
    \/ \A p \in Procs : pc[p] = "running" => lock # NoLock /\ lock.owner = p

\* A lock that a killed process left, or that could not be removed, does not
\* keep the soak from running for ever (acquire).
LeftLockIsTakenOver == lock # NoLock /\ ~SomeoneRuns ~> SomeoneRuns

=============================================================================
