------------------------------ MODULE OpsLoop ------------------------------
(***************************************************************************)
(* legacy_fin/args_fin_snapshot/ops/auto_loop_v1.py: the loop that runs    *)
(* the sender (RealSender) as a child process, cycle after cycle, behind a *)
(* lock file with a time to live.  Loop process s has the sender process s *)
(* as its child; a loop that is killed leaves its child running.           *)
(*                                                                         *)
(* The other steps of a cycle (payload, dry run) touch none of this state. *)
(* Left out: ops_health.json and the event log (written, never acted on).  *)
(***************************************************************************)
EXTENDS RealSender

CONSTANTS
    StealStale,   \* steal_stale_lock (False by default)
    PidKnown,     \* os.kill tells a dead pid from a live one (not on Windows)
    SerialStarts, \* the scheduler starts a loop only when no other one is at its lock
    Once,         \* --once
    MaxKills      \* bound: loops that are killed

ASSUME LoopAssumption == {StealStale, PidKnown, SerialStarts, Once} \subseteq BOOLEAN /\ MaxKills \in Nat

VARIABLES
    lock,  \* the lock file: NoLock, or who created it and what it says
    loop,  \* where each process is
    kills

loopVars == <<lock, loop, kills>>
vars == <<senderVars, loopVars>>

LoopPcs == {"off", "create", "unlink", "write", "cycle", "step", "sleep", "release"}
LockFile == [by : Senders, written : BOOLEAN, alive : BOOLEAN, expired : BOOLEAN]
NoLock == [by |-> "nobody"]

LoopAt(s, pc) == loop[s].pc = pc
LoopGoto(s, pc) == loop' = [loop EXCEPT ![s].pc = pc]
Locking(s) == loop[s].pc \in {"create", "unlink", "write"}
Looping(s) == loop[s].pc \in {"cycle", "step", "sleep", "release"}

\* The file names process s, as it is now, as its owner.
Owns(s) == lock # NoLock /\ lock.by = s /\ lock.alive /\ lock.written

-----------------------------------------------------------------------------
(* main up to the lock, and LockHandle.acquire.                            *)

StartLoop(s) ==
    /\ LoopAt(s, "off") /\ ~Running(s)
    /\ ~stop_flag
    /\ SerialStarts => \A t \in Senders : ~Locking(t)
    /\ loop' = [loop EXCEPT ![s] = [pc |-> "create", tries |-> 0]]
    /\ UNCHANGED <<senderVars, lock, kills>>

CreateLockMutant(s) ==
    /\ LoopAt(s, "create") /\ loop[s].tries < 3
    /\ lock' = [by |-> s, written |-> FALSE, alive |-> TRUE, expired |-> FALSE]
    /\ LoopGoto(s, "write")
    /\ UNCHANGED <<senderVars, kills>>

CreateLock(s) ==
    /\ LoopAt(s, "create") /\ loop[s].tries < 3
    /\ lock = NoLock
    /\ lock' = [by |-> s, written |-> FALSE, alive |-> TRUE, expired |-> FALSE]
    /\ LoopGoto(s, "write")
    /\ UNCHANGED <<senderVars, kills>>

\* The owner is written through the descriptor: nothing happens to a file that was unlinked.
WriteOwner(s) ==
    /\ LoopAt(s, "write")
    /\ lock' = IF lock # NoLock /\ lock.by = s /\ lock.alive THEN [lock EXCEPT !.written = TRUE] ELSE lock
    /\ LoopGoto(s, "cycle")
    /\ UNCHANGED <<senderVars, kills>>

StealableMutant == lock.expired /\ StealStale

\* An empty file has no pid, and a pid that is not known to be dead counts as alive.
Stealable == lock.expired /\ StealStale /\ lock.written /\ PidKnown /\ ~lock.alive

FindStale(s) ==
    /\ LoopAt(s, "create") /\ loop[s].tries < 3
    /\ lock # NoLock /\ Stealable
    /\ LoopGoto(s, "unlink")
    /\ UNCHANGED <<senderVars, lock, kills>>

UnlinkStale(s) ==
    /\ LoopAt(s, "unlink")
    /\ lock' = NoLock
    /\ loop' = [loop EXCEPT ![s] = [pc |-> "create", tries |-> loop[s].tries + 1]]
    /\ UNCHANGED <<senderVars, kills>>

Denied(s) ==
    /\ LoopAt(s, "create")
    /\ loop[s].tries = 3 \/ (lock # NoLock /\ ~Stealable)
    /\ LoopGoto(s, "off")
    /\ UNCHANGED <<senderVars, lock, kills>>

Expire ==
    /\ lock # NoLock /\ ~lock.expired
    /\ lock' = [lock EXCEPT !.expired = TRUE]
    /\ UNCHANGED <<senderVars, loop, kills>>

-----------------------------------------------------------------------------
(* The cycles.                                                             *)

HeartbeatMutant(s) ==
    /\ loop[s].pc \in {"step", "sleep"}
    /\ Owns(s) /\ lock.expired
    /\ lock' = [by |-> s, written |-> TRUE, alive |-> TRUE]
    /\ UNCHANGED <<senderVars, loop, kills>>

Heartbeat(s) ==
    /\ loop[s].pc \in {"step", "sleep"}
    /\ Owns(s) /\ lock.expired
    /\ lock' = [lock EXCEPT !.expired = FALSE]
    /\ UNCHANGED <<senderVars, loop, kills>>

BeginStep(s) ==
    /\ LoopAt(s, "cycle") /\ ~stop_flag
    /\ Launch(s)
    /\ LoopGoto(s, "step")
    /\ UNCHANGED <<lock, kills>>

\* A cycle ends with its child, or at once when the stop flag is up.
EndCycle(s) ==
    /\ \/ LoopAt(s, "step") /\ ~Running(s)
       \/ LoopAt(s, "cycle") /\ stop_flag
    /\ LoopGoto(s, IF Once \/ stop_flag THEN "release" ELSE "sleep")
    /\ UNCHANGED <<senderVars, lock, kills>>

Wake(s) ==
    /\ LoopAt(s, "sleep")
    /\ LoopGoto(s, IF stop_flag THEN "release" ELSE "cycle")
    /\ UNCHANGED <<senderVars, lock, kills>>

Release(s) ==
    /\ LoopAt(s, "release")
    /\ lock' = IF Owns(s) THEN NoLock ELSE lock
    /\ LoopGoto(s, "off")
    /\ UNCHANGED <<senderVars, kills>>

\* The child runs; it may die, be stopped by the flag or time out: _run_step terminates it hard.
ChildWorks(s) == Work(s) /\ UNCHANGED loopVars
ChildDies(s) == Die(s) /\ UNCHANGED loopVars

KillLoop(s) ==
    /\ ~LoopAt(s, "off") /\ kills < MaxKills
    /\ kills' = kills + 1
    /\ LoopGoto(s, "off")
    /\ lock' = IF lock # NoLock /\ lock.by = s THEN [lock EXCEPT !.alive = FALSE] ELSE lock
    /\ UNCHANGED senderVars

Environment == (Edit \/ ServerForgets) /\ UNCHANGED loopVars

-----------------------------------------------------------------------------

Init ==
    /\ SenderInit
    /\ lock = NoLock
    /\ loop = [s \in Senders |-> [pc |-> "off", tries |-> 0]]
    /\ kills = 0

LoopWork(s) ==
    \/ CreateLock(s) \/ WriteOwner(s) \/ FindStale(s) \/ UnlinkStale(s) \/ Denied(s)
    \/ BeginStep(s) \/ EndCycle(s) \/ Wake(s) \/ Release(s)

Next ==
    \/ \E s \in Senders : StartLoop(s) \/ LoopWork(s) \/ Heartbeat(s) \/ KillLoop(s)
                          \/ ChildWorks(s) \/ ChildDies(s)
    \/ Expire \/ Environment

Spec == Init /\ [][Next]_vars

\* Processes that run go on; the gateway answers and admits a sender that tries again and again.
FairSpec ==
    /\ Spec
    /\ \A s \in Senders : /\ WF_vars(LoopWork(s)) /\ WF_vars(ChildWorks(s))
                          /\ SF_vars(Preflight(s) /\ UNCHANGED loopVars)
                          /\ SF_vars(Connect(s) /\ UNCHANGED loopVars)

-----------------------------------------------------------------------------
(* Properties.                                                             *)

TypeOK ==
    /\ SenderTypeOK
    /\ lock \in LockFile \cup {NoLock}
    /\ loop \in [Senders -> [pc : LoopPcs, tries : 0..3]]
    /\ kills \in Nat

\* "lock/TTL" (auto_loop_v1.py:771): one loop at a time, unless stale locks are stolen while several
\* loops start at once (UnlinkStale removes whatever is there by then).
OneLoopRuns ==
    SerialStarts \/ ~StealStale \/ ~PidKnown
        => \A s, t \in Senders : Looping(s) /\ Looping(t) => s = t

\* The lock of a loop that runs stays, and stays its own.
RunningLoopOwnsLock ==
    SerialStarts \/ ~StealStale \/ ~PidKnown => \A s \in Senders : Looping(s) => Owns(s)

\* What the loop adds to the sender: two senders overlap only when a loop was killed and left one behind.
OverlapOnlyAfterKill ==
    (SerialStarts \/ ~StealStale \/ ~PidKnown) /\ kills = 0 => ~overlapped

Orders == {plan[i].key : i \in {j \in DOMAIN plan : plan[j].kind = "ORDER" /\ plan[j].clean}}
Tradeable == control.armed /\ ~stop_flag /\ PlanValid /\ exec_mode = "FULL" /\ run_mode = "ALLOW_NEW_ENTRIES"
WorkedOff == sent.count >= RunLimit \/ \A k \in Orders : ledger[k] # "NONE" \/ k \in sent.keys

\* A loop that keeps running, with trading allowed for good, works the plan off, however little one
\* invocation may send: every order that passes the sanitizer is in the ledger or the sent log, or the
\* run has reached its limit.
PlanWorkedOff == <>[](Tradeable /\ \E s \in Senders : Looping(s)) => <>WorkedOff
=============================================================================
