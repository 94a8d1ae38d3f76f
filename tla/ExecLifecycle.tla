--------------------------- MODULE ExecLifecycle ---------------------------
(* ExecEngine implements OrderLifecycle.                                    *)
EXTENDS ExecEngine

\* The phase of an intent is the one a restart would find on disk.
RecordedPhase(t) ==
    CASE ~IsPresent(t) -> "unknown"
      [] IsPresent(t) /\ IsTerminal(t) -> "ended"
      [] IsLive(t) /\ t.oid = NoOid -> "pending"
      [] IsLive(t) /\ t.oid # NoOid -> "worked"

Lifecycle == INSTANCE OrderLifecycle WITH
                Adopted <- DOMAIN AdoptedAs,
                phase <- [i \in Intents |-> RecordedPhase(LoadedState.tickets[i])],
                sent <- placed

\* The engine, with any crashes and restarts but no adapter call that raises,
\* implements the life cycle of every intent.
ImplementsLifecycle == Lifecycle!Spec

=============================================================================
