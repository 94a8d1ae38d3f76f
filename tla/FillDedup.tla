----------------------------- MODULE FillDedup -----------------------------
(***************************************************************************)
(* The FILL de-duplication window of args_core/execution_v1.py.            *)
(*                                                                         *)
(* The engine keeps the keys of the fills it has accepted twice: as an     *)
(* ordered list, which is persisted with the engine state and trimmed from *)
(* the front to FILL_DEDUP_MAX_KEYS_V0 entries, and as a set, which is     *)
(* rebuilt from the list when the engine starts and answers membership.    *)
(* A key is the value of order_id|ts_utc|reason|filled_qty; here it is a   *)
(* member of Keys, and two fills with one key are the same fill.           *)
(***************************************************************************)
EXTENDS Integers, Sequences, SequencesExt

CONSTANTS
    Keys,          \* dedup keys that deliveries may carry
    MaxKeys,       \* FILL_DEDUP_MAX_KEYS_V0
    MaxAccepted    \* bound of the model: fills accepted in a behaviour

ASSUME MaxKeysAssumption == MaxKeys \in Nat \ {0}

VARIABLES
    fill_dedup_keys,   \* EngineState.fill_dedup_keys_v0
    fill_dedup_set,    \* Engine._fill_dedup_set_v0
    saved,             \* what the last persisted engine state holds
    accepted           \* history: the keys whose fills were applied, in order

vars == <<fill_dedup_keys, fill_dedup_set, saved, accepted>>

-----------------------------------------------------------------------------
(* The window itself.                                                      *)

\* Mutant: the list is trimmed from the wrong end.
KeepLastMutant(keys, max) ==
    IF Len(keys) > max THEN SubSeq(keys, 1, max) ELSE keys

\* Mutant: trimming starts one key late.
KeepLastLateMutant(keys, max) ==
    IF Len(keys) > max + 1 THEN SubSeq(keys, Len(keys) - max + 1, Len(keys)) ELSE keys

\* The list after the keys beyond the limit were popped from its front.
KeepLast(keys, max) ==
    IF Len(keys) > max THEN SubSeq(keys, Len(keys) - max + 1, Len(keys)) ELSE keys

\* Mutant: the popped keys are left in the set.
OverflowMutant(keys, max) == {}

\* The keys that trimming pops.
Overflow(keys, max) ==
    IF Len(keys) > max THEN ToSet(SubSeq(keys, 1, Len(keys) - max)) ELSE {}

-----------------------------------------------------------------------------

TypeOK ==
    /\ fill_dedup_keys \in Seq(Keys) /\ Len(fill_dedup_keys) <= MaxKeys
    /\ fill_dedup_set \in SUBSET Keys
    /\ saved \in [keys : Seq(Keys), accepted : Seq(Keys)]
    /\ accepted \in Seq(Keys)

Init ==
    /\ fill_dedup_keys = <<>>
    /\ fill_dedup_set = {}
    /\ saved = [keys |-> <<>>, accepted |-> <<>>]
    /\ accepted = <<>>

\* _fill_dedup_seen_or_add_v0 finds the key: the fill is dropped.
DropDuplicate(k) ==
    /\ k \in fill_dedup_set
    /\ UNCHANGED vars

\* ... does not find it: the key is added to both, both are trimmed, and the
\* caller applies the fill.
Accept(k) ==
    /\ k \notin fill_dedup_set
    /\ Len(accepted) < MaxAccepted
    /\ LET added == Append(fill_dedup_keys, k) IN
       /\ fill_dedup_keys' = KeepLast(added, MaxKeys)
       /\ fill_dedup_set' = (fill_dedup_set \cup {k}) \ Overflow(added, MaxKeys)
    /\ accepted' = Append(accepted, k)
    /\ UNCHANGED saved

\* Mutant: the list is left out of the saved state.
PersistStateMutant ==
    /\ saved' = [saved EXCEPT !.accepted = accepted]
    /\ UNCHANGED <<fill_dedup_keys, fill_dedup_set, accepted>>

\* _persist_state: the list is saved in the same file as the tickets the fills
\* were applied to, so the history is saved with it.
PersistState ==
    /\ saved' = [keys |-> fill_dedup_keys, accepted |-> accepted]
    /\ UNCHANGED <<fill_dedup_keys, fill_dedup_set, accepted>>

\* The process dies and Engine.__init__ loads the state and rebuilds the set.
Restart ==
    /\ fill_dedup_keys' = saved.keys
    /\ fill_dedup_set' = ToSet(saved.keys)
    /\ accepted' = saved.accepted
    /\ UNCHANGED saved

Next ==
    \/ \E k \in Keys : DropDuplicate(k) \/ Accept(k)
    \/ PersistState
    \/ Restart

Spec == Init /\ [][Next]_vars

-----------------------------------------------------------------------------

\* The set that answers membership and the list that is trimmed and persisted
\* never drift apart (execution_v1.py:657-678 updates the two separately, and
\* removes from the set a key that a second copy in the list would still need).
ListSetAgree == fill_dedup_set = ToSet(fill_dedup_keys)

\* The window remembers exactly the last MaxKeys fills that were applied: it
\* evicts nothing early, and keeps nothing whose fill a crash undid.
WindowExact ==
    LET kept == Len(fill_dedup_keys)
        all == Len(accepted)
    IN  /\ kept = IF all < MaxKeys THEN all ELSE MaxKeys
        /\ \A i \in 1..kept : fill_dedup_keys[i] = accepted[all - kept + i]

\* A fill that is delivered again is never counted again unless at least
\* MaxKeys other fills were accepted in between, crashes and restarts included.
NoRecount ==
    \A i, j \in DOMAIN accepted :
        (i < j /\ accepted[i] = accepted[j]) => j - i > MaxKeys

=============================================================================
