----------------------------- MODULE ExecEngine -----------------------------
(***************************************************************************)
(* The Stage5 execution engine (args_core/execution_v1.py, class Engine)   *)
(* together with the broker behind its BrokerAdapter (FakeBroker of        *)
(* args_core/demo_stage5_v1.py).                                           *)
(*                                                                         *)
(* A runner calls the engine from one thread.  Engine.step() is split at   *)
(* the points where a crash, or a broker that acts on its own, makes a     *)
(* difference: after the flags are read, after poll_events, after each     *)
(* event, after each ticket of _drain_actions, after _reconcile, and       *)
(* between the two writes of _persist_state.                               *)
(*                                                                         *)
(* Abstractions.  Quantities are integers.  An intent id is a number, and  *)
(* stable_client_order_id, a hash of the intent, is that number.  The      *)
(* deadline cooldown_until_epoch_s is the boolean "the deadline is in the  *)
(* future".  A fill's ts_utc and reason, as far as the dedup key goes, are *)
(* one stamp.  self.state.tickets is a dict in insertion order, and in key *)
(* order after a reload (canonical_json_dumps sorts keys): the loops over  *)
(* it visit the tickets in any order.  Counters, reasons, last_error, the  *)
(* manifest, health and evidence files are left out.                       *)
(***************************************************************************)
EXTENDS Integers, Sequences, SequencesExt, OrderPolicy

CONSTANTS
    Intents,           \* intent ids, positive integers
    OrderOf,           \* [Intents -> OrderSpec]: what each intent asks for
    AdoptedAs,         \* [intent -> broker order id]: intents that adopt_order brings in
    ControlPlane,      \* the fields of the control plane the engine reads
    InitialPositions,  \* [symbol -> Int]
    InitialOrders,     \* orders the broker holds before the engine starts
    FirstOrderId,      \* EngineState.next_order_id of a fresh state (1000)
    MaxKeys,           \* FILL_DEDUP_MAX_KEYS_V0
    Cancellable,       \* intents the runner may ask to cancel
    ReplaceQtys,       \* quantities the runner may ask for in a replace
    MayReject,         \* whether the broker may reject
    AsyncBroker,       \* FALSE: the broker moves only inside poll_events (FakeBroker)
    UniqueStamps,      \* FALSE: fills of one order within a second share a stamp
    MaxCrashes,        \* bound: crashes
    MaxFaults,         \* bound: adapter calls that raise
    MaxResends,        \* bound: events that are delivered a second time
    MayLoseStateFile,  \* whether state.json may be lost while the engine is down
    FlagsMove          \* whether stop.flag / safe_mode.flag come and go

ASSUME IntentsAssumption ==
    /\ Intents \subseteq Nat \ {0}
    /\ OrderOf \in [Intents -> [symbol : DOMAIN InitialPositions, side : Sides, qty : Int]]
    /\ ReplaceQtys \subseteq Int
ASSUME AdoptionAssumption ==
    /\ DOMAIN AdoptedAs \subseteq Intents
    /\ \A i \in DOMAIN AdoptedAs : AdoptedAs[i] \in Nat \ {0}
ASSUME PositionsAssumption == InitialPositions \in [DOMAIN InitialPositions -> Int]
ASSUME BoundsAssumption ==
    /\ FirstOrderId \in Nat \ {0}
    /\ MaxKeys \in Nat /\ MaxCrashes \in Nat /\ MaxFaults \in Nat /\ MaxResends \in Nat

VARIABLES
    (* The engine's memory. *)
    st,           \* self.state
    pc,           \* where the engine's thread is
    batch,        \* polled events not yet applied
    todo,         \* tickets _drain_actions has not reached yet
    seen_positions, \* positions of the snapshot taken when _drain_actions began (reset after it)
    replace_seen, \* <<>>, or the ticket being replaced with its own snapshot's positions
    blocked,      \* stop_flag or safe_mode, as read when the step began
    (* The run directory. *)
    state_file,   \* state.json, when it exists
    state_exists,
    ledger_state, \* the last STATE_SNAPSHOT of ledger.jsonl
    (* The broker. *)
    orders,       \* FakeBroker.orders
    positions,    \* FakeBroker.positions
    queue,        \* FakeBroker._events
    (* The environment. *)
    flag,         \* stop.flag or safe_mode.flag exists
    crashes, faults, resends,
    (* History. *)
    placed,       \* how many times the broker received a place_order per intent
    execs,        \* fills the broker has made so far
    emitted       \* every event the broker has emitted

engine_vars == <<st, pc, batch, todo, seen_positions, replace_seen, blocked>>
disk_vars == <<state_file, state_exists, ledger_state>>
broker_vars == <<orders, positions, queue, placed, execs, emitted>>
env_vars == <<flag, crashes, faults, resends>>
vars == <<engine_vars, disk_vars, broker_vars, env_vars>>

-----------------------------------------------------------------------------
(* Tickets and engine state.                                               *)

NoOid == 0       \* Ticket.order_id is None
NoQty == -1      \* Ticket.want_replace_qty is None
NoCoid == 0      \* an order or event with an empty client_order_id
OidCoid(oid) == -oid   \* "oid_<order_id>", given to adopted orders

TicketStates == {"ABSENT", "PENDING_PLACE", "SENT", "ACKED", "PARTIAL",
                 "CANCEL_REQUESTED", "REPLACE_REQUESTED", "TERMINAL"}
TerminalStates == {"DONE", "FILLED", "FAILED", "CANCELLED"}
ClosedStatuses == {"Filled", "Cancelled", "Rejected"}

Ticket == [coid : Int, oid : Nat, qty : Int, state : TicketStates,
           terminal : TerminalStates \cup {"None"},
           filled : Int, remaining : Int,
           want_cancel : BOOLEAN, want_replace : Int]

\* A ticket of which nothing is filled, and nothing more is wanted.
NewTicket(coid, oid, qty, state) ==
    [coid |-> coid, oid |-> oid, qty |-> qty, state |-> state, terminal |-> "None",
     filled |-> 0, remaining |-> qty, want_cancel |-> FALSE, want_replace |-> NoQty]

\* No ticket of that intent: intent_id not in self.state.tickets.
AbsentTicket == NewTicket(NoCoid, NoOid, 0, "ABSENT")

FillKey == [oid : Nat, stamp : Nat, qty : Int]

EngineState == [tickets : [Intents -> Ticket], next_order_id : Nat,
                cooldown : BOOLEAN, fill_dedup_keys : Seq(FillKey),
                ratio : {"none", "full", "partial"}]

FreshState == [tickets |-> [i \in Intents |-> AbsentTicket],
               next_order_id |-> FirstOrderId, cooldown |-> FALSE,
               fill_dedup_keys |-> <<>>, ratio |-> "none"]

IsPresent(t) == t.state # "ABSENT"
IsTerminal(t) == t.state = "TERMINAL" /\ t.terminal # "None"
IsLive(t) == IsPresent(t) /\ ~IsTerminal(t)

Terminate(t, how) == [t EXCEPT !.state = "TERMINAL", !.terminal = how]

\* The engine state with the ticket of intent i replaced.
WithTicket(s, i, t) == [s EXCEPT !.tickets[i] = t]

\* ... and with the ticket of intent i taken for sent.
WithSent(s, i) == WithTicket(s, i, [s.tickets[i] EXCEPT !.state = "SENT"])

-----------------------------------------------------------------------------
(* The broker: FakeBroker with the scenario's ages left open.              *)

Order == [coid : Int, symbol : DOMAIN InitialPositions, side : Sides, qty : Int,
          filled : Nat, remaining : Int,
          status : {"Submitted"} \cup ClosedStatuses, acked : BOOLEAN]

BrokerEvent == [type : {"ACK", "REJECT", "CANCELLED", "FILL"}, oid : Nat, coid : Int,
                qty : Nat, remaining : Int, stamp : Nat]

ASSUME InitialOrdersAssumption ==
    /\ DOMAIN InitialOrders \subseteq Nat \ {0}
    /\ \A oid \in DOMAIN InitialOrders : InitialOrders[oid] \in Order

IsOpen(o) == o.status \notin ClosedStatuses

Event(type, oid, qty, remaining, stamp) ==
    [type |-> type, oid |-> oid, coid |-> orders[oid].coid, qty |-> qty,
     remaining |-> remaining, stamp |-> stamp]

Emit(e) ==
    /\ queue' = Append(queue, e)
    /\ emitted' = emitted \cup {e}

\* Broker.place_order stores the order under its id, over whatever was there.
BrokerPlaces(i, oid) ==
    /\ orders' = [o \in DOMAIN orders \cup {oid} |->
                    IF o = oid
                    THEN [coid |-> st.tickets[i].coid, symbol |-> OrderOf[i].symbol,
                          side |-> OrderOf[i].side, qty |-> st.tickets[i].qty,
                          filled |-> 0, remaining |-> st.tickets[i].qty,
                          status |-> "Submitted", acked |-> FALSE]
                    ELSE orders[o]]
    /\ placed' = [placed EXCEPT ![i] = @ + 1]
    /\ UNCHANGED <<positions, queue, execs, emitted>>

\* Broker.cancel_order: an order that is missing or closed is left alone.
BrokerCancels(oid) ==
    IF oid \in DOMAIN orders /\ IsOpen(orders[oid])
    THEN /\ orders' = [orders EXCEPT ![oid].status = "Cancelled"]
         /\ Emit(Event("CANCELLED", oid, 0, 0, 0))
         /\ UNCHANGED <<positions, placed, execs>>
    ELSE UNCHANGED broker_vars

\* Broker.replace_order keeps what is filled and acknowledges the new quantity.
BrokerReplaces(oid, qty) ==
    IF oid \in DOMAIN orders /\ IsOpen(orders[oid])
    THEN /\ orders' = [orders EXCEPT ![oid].qty = qty,
                                     ![oid].remaining =
                                        IF qty > orders[oid].filled
                                        THEN qty - orders[oid].filled ELSE 0]
         /\ Emit(Event("ACK", oid, 0, 0, 0))
         /\ UNCHANGED <<positions, placed, execs>>
    ELSE UNCHANGED broker_vars

\* The broker moves inside poll_events, or at any time when it is a live gateway.
BrokerMayMove == AsyncBroker \/ pc = "poll"

BrokerAck(oid) ==
    /\ BrokerMayMove
    /\ IsOpen(orders[oid]) /\ ~orders[oid].acked
    /\ orders' = [orders EXCEPT ![oid].acked = TRUE]
    /\ Emit(Event("ACK", oid, 0, 0, 0))
    /\ UNCHANGED <<positions, placed, execs, engine_vars, disk_vars, env_vars>>

BrokerReject(oid) ==
    /\ BrokerMayMove /\ MayReject
    /\ IsOpen(orders[oid]) /\ ~orders[oid].acked /\ orders[oid].filled = 0
    /\ orders' = [orders EXCEPT ![oid].status = "Rejected"]
    /\ Emit(Event("REJECT", oid, 0, 0, 0))
    /\ UNCHANGED <<positions, placed, execs, engine_vars, disk_vars, env_vars>>

\* FakeBroker._emit_fill
BrokerFill(oid, qty) ==
    /\ BrokerMayMove
    /\ IsOpen(orders[oid]) /\ qty \in 1..orders[oid].remaining
    /\ LET o == orders[oid]
           left == o.remaining - qty
       IN  /\ orders' = [orders EXCEPT ![oid].filled = @ + qty,
                                       ![oid].remaining = left,
                                       ![oid].status = IF left <= 0 THEN "Filled" ELSE @]
           /\ positions' = [positions EXCEPT ![o.symbol] = @ + Delta(o.side, qty)]
           /\ Emit(Event("FILL", oid, qty, left, IF UniqueStamps THEN execs ELSE 0))
    /\ execs' = execs + 1
    /\ UNCHANGED <<placed, engine_vars, disk_vars, env_vars>>

\* An event reaches the engine's side a second time (a tailer that re-reads its file).
Resend(e) ==
    /\ resends < MaxResends /\ BrokerMayMove
    /\ queue' = Append(queue, e)
    /\ resends' = resends + 1
    /\ UNCHANGED <<orders, positions, placed, execs, emitted, engine_vars, disk_vars,
                   flag, crashes, faults>>

Broker ==
    \/ \E oid \in DOMAIN orders :
          \/ BrokerAck(oid)
          \/ BrokerReject(oid)
          \/ \E qty \in 1..orders[oid].remaining : BrokerFill(oid, qty)
    \/ \E e \in emitted : Resend(e)

-----------------------------------------------------------------------------
(* Persistence and start-up.                                               *)

\* _load_state: state.json, or else the last snapshot of the ledger.
LoadedState == IF state_exists THEN state_file ELSE ledger_state

\* Orders of the broker's snapshot that carry the client id of a ticket.  The
\* snapshot lists closed orders too.
OrdersOf(t) == {oid \in DOMAIN orders : orders[oid].coid # NoCoid /\ orders[oid].coid = t.coid}

\* Mutant: no handshake.
HandshakeMutant(s) == s

\* _handshake_with_snapshot gives a ticket without an order id the id of its order.
Handshake(s) ==
    [s EXCEPT !.tickets =
        [i \in Intents |->
            LET t == s.tickets[i] IN
            IF IsLive(t) /\ t.oid = NoOid /\ OrdersOf(t) # {}
            THEN [t EXCEPT !.oid = CHOOSE oid \in OrdersOf(t) :
                                      \A other \in OrdersOf(t) : oid <= other,
                           !.state = "SENT"]
            ELSE t]]

\* Engine.__init__: load, handshake, and go on to persist.  While the engine
\* was down the cool-down may have run out.
Start ==
    /\ pc = "down"
    /\ \E expired \in BOOLEAN :
          st' = [Handshake(LoadedState) EXCEPT !.cooldown = @ /\ ~expired]
    /\ pc' = "persist"
    /\ UNCHANGED <<batch, todo, seen_positions, replace_seen, blocked, disk_vars, broker_vars, env_vars>>

\* _persist_state: the atomic replacement of state.json and the ledger's line.
PersistState ==
    /\ pc = "persist"
    /\ state_file' = st
    /\ state_exists' = TRUE
    /\ ledger_state' = st
    /\ pc' = "idle"
    /\ blocked' = FALSE
    /\ UNCHANGED <<st, batch, todo, seen_positions, replace_seen, broker_vars, env_vars>>

\* What a crash leaves of the engine's memory.
MemoryLost ==
    /\ crashes < MaxCrashes
    /\ crashes' = crashes + 1
    /\ st' = FreshState
    /\ pc' = "down"
    /\ batch' = <<>>
    /\ todo' = {}
    /\ seen_positions' = InitialPositions
    /\ replace_seen' = <<>>
    /\ blocked' = FALSE
    /\ UNCHANGED <<broker_vars, flag, faults, resends>>

Crash ==
    /\ pc # "down"
    /\ MemoryLost
    /\ UNCHANGED disk_vars

\* The process dies after state.json was replaced, before the ledger's line.
CrashInPersist ==
    /\ pc = "persist"
    /\ MemoryLost
    /\ state_file' = st
    /\ state_exists' = TRUE
    /\ UNCHANGED ledger_state

\* state.json is lost, as the restart test does it.
LoseStateFile ==
    /\ MayLoseStateFile
    /\ pc = "down" /\ state_exists
    /\ state_exists' = FALSE
    /\ state_file' = FreshState
    /\ UNCHANGED <<engine_vars, ledger_state, broker_vars, env_vars>>

-----------------------------------------------------------------------------
(* The runner's calls between steps; each one ends in _persist_state.       *)

CallUpdates(s) ==
    /\ st' = s
    /\ pc' = "persist"
    /\ UNCHANGED <<batch, todo, seen_positions, replace_seen, blocked, disk_vars, broker_vars, env_vars>>

\* Submitting an intent again only counts a dedup skip.
submit_intent(i) ==
    /\ pc = "idle"
    /\ i \notin DOMAIN AdoptedAs
    /\ ~IsPresent(st.tickets[i])
    /\ CallUpdates(WithTicket(st, i, NewTicket(i, NoOid, OrderOf[i].qty, "PENDING_PLACE")))

adopt_order(i) ==
    /\ pc = "idle"
    /\ i \in DOMAIN AdoptedAs
    /\ ~IsPresent(st.tickets[i])
    /\ CallUpdates(WithTicket(st, i,
          NewTicket(OidCoid(AdoptedAs[i]), AdoptedAs[i], OrderOf[i].qty, "SENT")))

request_cancel(i) ==
    /\ pc = "idle"
    /\ IsLive(st.tickets[i])
    /\ CallUpdates([st EXCEPT !.tickets[i].want_cancel = TRUE])

request_replace_qty(i, new_qty) ==
    /\ pc = "idle"
    /\ IsLive(st.tickets[i])
    /\ CallUpdates([st EXCEPT !.tickets[i].want_replace = new_qty])

-----------------------------------------------------------------------------
(* Engine.step()                                                            *)

\* The flags are read once, before anything else.
BeginStep ==
    /\ pc = "idle"
    /\ blocked' = flag
    /\ pc' = "poll"
    /\ UNCHANGED <<st, batch, todo, seen_positions, replace_seen, disk_vars, broker_vars, env_vars>>

\* Mutant: a flag makes the step return before it polls.
PollEventsMutant ==
    /\ pc = "poll"
    /\ batch' = IF blocked THEN <<>> ELSE queue
    /\ queue' = IF blocked THEN queue ELSE <<>>
    /\ pc' = "apply"
    /\ UNCHANGED <<st, todo, seen_positions, replace_seen, blocked, disk_vars, orders,
                   positions, placed, execs, emitted, env_vars>>

PollEvents ==
    /\ pc = "poll"
    /\ batch' = queue
    /\ queue' = <<>>
    /\ pc' = "apply"
    /\ UNCHANGED <<st, todo, seen_positions, replace_seen, blocked, disk_vars, orders, positions, placed,
                   execs, emitted, env_vars>>

\* The except branch of step(): the rest of the batch and of the tickets is
\* abandoned, the cool-down is set, and finally: persists.
StepRaises(s) ==
    /\ faults < MaxFaults
    /\ faults' = faults + 1
    /\ st' = [s EXCEPT !.cooldown = TRUE]
    /\ batch' = <<>>
    /\ todo' = {}
    /\ seen_positions' = InitialPositions
    /\ replace_seen' = <<>>
    /\ pc' = "persist"
    /\ UNCHANGED <<blocked, disk_vars, flag, crashes, resends>>

\* poll_events, or the snapshot of _drain_actions or _reconcile, raises.
SnapshotOrPollRaises ==
    /\ pc \in {"poll", "apply", "reconcile"}
    /\ pc = "apply" => batch = <<>>
    /\ StepRaises(st)
    /\ UNCHANGED broker_vars

----
(* _apply_event *)

Key(e) == [oid |-> e.oid, stamp |-> e.stamp, qty |-> e.qty]

SeenFill(e) == e.type = "FILL" /\ Contains(st.fill_dedup_keys, Key(e))

\* Mutant: the list of keys is never trimmed.
RememberedUntrimmedMutant(e) ==
    IF e.type # "FILL" THEN st
    ELSE [st EXCEPT !.fill_dedup_keys = Append(@, Key(e))]

\* Mutant: the key goes to the set only, and not to the state that is persisted.
RememberedMutant(e) == st

\* _fill_dedup_seen_or_add_v0, for a fill that was not seen; FillDedup.tla
\* models the list and the set it keeps.
Remembered(e) ==
    LET added == Append(st.fill_dedup_keys, Key(e)) IN
    IF e.type # "FILL" THEN st
    ELSE [st EXCEPT !.fill_dedup_keys =
            IF Len(added) > MaxKeys THEN SubSeq(added, Len(added) - MaxKeys + 1, Len(added))
            ELSE added]

\* The ticket an event is for: by client order id first, else by order id.
MatchedTickets(e) ==
    LET present == {i \in Intents : IsPresent(st.tickets[i])}
        by_client_id == {i \in present : st.tickets[i].coid = e.coid}
    IN  IF by_client_id # {} THEN by_client_id
        ELSE {i \in present : st.tickets[i].oid = e.oid}

\* Mutant: a fill replaces what was filled before.
CountedMutant(i, e) == [st.tickets[i] EXCEPT !.filled = e.qty, !.remaining = e.remaining]

\* The ticket of intent i with a fill counted in.
Counted(i, e) == [st.tickets[i] EXCEPT !.filled = @ + e.qty, !.remaining = e.remaining]

\* Mutant: a terminal ticket still takes fills.
AppliedLateFillMutant(i, e) ==
    LET t == st.tickets[i] IN
    CASE e.type = "FILL" /\ e.remaining > 0 -> [Counted(i, e) EXCEPT !.state = "PARTIAL"]
      [] e.type = "FILL" /\ e.remaining <= 0 ->
            Terminate(Counted(i, e),
                      IF positions[OrderOf[i].symbol] = 0 THEN "DONE" ELSE "FILLED")
      [] IsTerminal(t) /\ e.type # "FILL" -> t
      [] ~IsTerminal(t) /\ e.type = "ACK" ->
            IF t.state \in {"SENT", "PENDING_PLACE"} THEN [t EXCEPT !.state = "ACKED"] ELSE t
      [] ~IsTerminal(t) /\ e.type = "REJECT" -> Terminate(t, "FAILED")
      [] ~IsTerminal(t) /\ e.type = "CANCELLED" -> Terminate(t, "CANCELLED")

\* Mutant: the last fill of an exit is DONE without a look at the position.
AppliedDoneMutant(i, e) ==
    LET t == st.tickets[i] IN
    CASE IsTerminal(t) -> t
      [] ~IsTerminal(t) /\ e.type = "ACK" ->
            IF t.state \in {"SENT", "PENDING_PLACE"} THEN [t EXCEPT !.state = "ACKED"] ELSE t
      [] ~IsTerminal(t) /\ e.type = "REJECT" -> Terminate(t, "FAILED")
      [] ~IsTerminal(t) /\ e.type = "CANCELLED" -> Terminate(t, "CANCELLED")
      [] ~IsTerminal(t) /\ e.type = "FILL" /\ e.remaining > 0 ->
            [Counted(i, e) EXCEPT !.state = "PARTIAL"]
      [] ~IsTerminal(t) /\ e.type = "FILL" /\ e.remaining <= 0 ->
            Terminate(Counted(i, e), "DONE")

\* The ticket of intent i after an event; the last fill looks at the position.
Applied(i, e) ==
    LET t == st.tickets[i] IN
    CASE IsTerminal(t) -> t
      [] ~IsTerminal(t) /\ e.type = "ACK" ->
            IF t.state \in {"SENT", "PENDING_PLACE"} THEN [t EXCEPT !.state = "ACKED"] ELSE t
      [] ~IsTerminal(t) /\ e.type = "REJECT" -> Terminate(t, "FAILED")
      [] ~IsTerminal(t) /\ e.type = "CANCELLED" -> Terminate(t, "CANCELLED")
      [] ~IsTerminal(t) /\ e.type = "FILL" /\ e.remaining > 0 ->
            [Counted(i, e) EXCEPT !.state = "PARTIAL"]
      [] ~IsTerminal(t) /\ e.type = "FILL" /\ e.remaining <= 0 ->
            Terminate(Counted(i, e),
                      IF positions[OrderOf[i].symbol] = 0 THEN "DONE" ELSE "FILLED")

DropSeenFill ==
    /\ pc = "apply" /\ batch # <<>>
    /\ SeenFill(Head(batch))
    /\ batch' = Tail(batch)
    /\ UNCHANGED <<st, pc, todo, seen_positions, replace_seen, blocked, disk_vars, broker_vars, env_vars>>

OrphanEvent ==
    /\ pc = "apply" /\ batch # <<>>
    /\ ~SeenFill(Head(batch))
    /\ MatchedTickets(Head(batch)) = {}
    /\ st' = Remembered(Head(batch))
    /\ batch' = Tail(batch)
    /\ UNCHANGED <<pc, todo, seen_positions, replace_seen, blocked, disk_vars, broker_vars, env_vars>>

ApplyEvent(i) ==
    /\ pc = "apply" /\ batch # <<>>
    /\ LET e == Head(batch) IN
       /\ ~SeenFill(e)
       /\ i \in MatchedTickets(e)
       /\ st' = [WithTicket(Remembered(e), i, Applied(i, e)) EXCEPT
                    !.cooldown = @ \/ (e.type = "REJECT" /\ ~IsTerminal(st.tickets[i]))]
    /\ batch' = Tail(batch)
    /\ UNCHANGED <<pc, todo, seen_positions, replace_seen, blocked, disk_vars, broker_vars, env_vars>>

\* The snapshot behind a last fill raises: the fill is counted and remembered,
\* the ticket does not become terminal.
LastFillRaises(i) ==
    /\ pc = "apply" /\ batch # <<>>
    /\ LET e == Head(batch) IN
       /\ e.type = "FILL" /\ e.remaining <= 0 /\ ~SeenFill(e)
       /\ i \in MatchedTickets(e) /\ ~IsTerminal(st.tickets[i])
       /\ StepRaises(WithTicket(Remembered(e), i, Counted(i, e)))
    /\ UNCHANGED broker_vars

----
(* _apply_requests, and the decision to drain                               *)

\* Mutant: a partly filled ticket is passed over.
RequestedMutant(t) ==
    IF ~IsLive(t) \/ t.oid = NoOid \/ t.state = "PARTIAL" THEN t
    ELSE IF t.want_replace # NoQty THEN [t EXCEPT !.state = "REPLACE_REQUESTED"]
    ELSE IF t.want_cancel THEN [t EXCEPT !.state = "CANCEL_REQUESTED"]
    ELSE t

\* A wanted replace overrides a wanted cancel.
Requested(t) ==
    IF ~IsLive(t) \/ t.oid = NoOid THEN t
    ELSE IF t.want_replace # NoQty THEN [t EXCEPT !.state = "REPLACE_REQUESTED"]
    ELSE IF t.want_cancel THEN [t EXCEPT !.state = "CANCEL_REQUESTED"]
    ELSE t

ApplyRequests ==
    /\ pc = "apply" /\ batch = <<>>
    /\ st' = [st EXCEPT !.tickets = [i \in Intents |-> Requested(st.tickets[i])]]
    /\ IF blocked \/ st.cooldown
       THEN pc' = "reconcile" /\ UNCHANGED <<todo, seen_positions>>
       ELSE /\ pc' = "drain"
            /\ todo' = {i \in Intents : IsLive(st.tickets[i])}
            /\ seen_positions' = positions
    /\ UNCHANGED <<batch, replace_seen, blocked, disk_vars, broker_vars, env_vars>>

----
(* _drain_actions: one action per ticket and outcome                        *)

Allowed(i, qty, held, action) ==
    check_order_allowed(ControlPlane, OrderOf[i].symbol, OrderOf[i].side, qty,
                        held[OrderOf[i].symbol], action)

\* The loop goes on to the next ticket with engine state s.
NextTicket(i, s) ==
    /\ st' = s
    /\ todo' = todo \ {i}
    /\ replace_seen' = <<>>
    /\ UNCHANGED <<pc, batch, seen_positions, blocked, disk_vars, env_vars>>

Draining(i, states) ==
    /\ pc = "drain"
    /\ i \in todo
    /\ replace_seen = <<>>
    /\ st.tickets[i].state \in states

\* A ticket that asks for nothing.
DrainNothing(i) ==
    /\ Draining(i, {"SENT", "ACKED", "PARTIAL"})
    /\ NextTicket(i, st)
    /\ UNCHANGED broker_vars

PlaceAllowed(i) == Allowed(i, st.tickets[i].qty, seen_positions, "PLACE")

\* The policy is asked with the positions seen when the loop began.
ForbidPlace(i) ==
    /\ Draining(i, {"PENDING_PLACE"})
    /\ ~PlaceAllowed(i)
    /\ NextTicket(i, WithTicket(st, i, Terminate(st.tickets[i], "FAILED")))
    /\ UNCHANGED broker_vars

\* An order id was given earlier: the order is taken for sent.
SkipPlaced(i) ==
    /\ Draining(i, {"PENDING_PLACE"})
    /\ PlaceAllowed(i)
    /\ st.tickets[i].oid # NoOid
    /\ NextTicket(i, WithSent(st, i))
    /\ UNCHANGED broker_vars

\* Mutant: the next order id is not advanced.
WithOrderIdMutant(i) == WithTicket(st, i, [st.tickets[i] EXCEPT !.oid = st.next_order_id])

\* The engine state once an order id was drawn for intent i.
WithOrderId(i) ==
    WithTicket([st EXCEPT !.next_order_id = @ + 1], i,
               [st.tickets[i] EXCEPT !.oid = st.next_order_id])

Place(i) ==
    /\ Draining(i, {"PENDING_PLACE"})
    /\ PlaceAllowed(i)
    /\ st.tickets[i].oid = NoOid
    /\ BrokerPlaces(i, st.next_order_id)
    /\ NextTicket(i, WithSent(WithOrderId(i), i))

\* Mutant: the ticket gets its order id after place_order has returned.
PlaceRaisesMutant(i) ==
    /\ Draining(i, {"PENDING_PLACE"})
    /\ PlaceAllowed(i)
    /\ st.tickets[i].oid = NoOid
    /\ BrokerPlaces(i, st.next_order_id) \/ UNCHANGED broker_vars
    /\ StepRaises([st EXCEPT !.next_order_id = @ + 1])

\* place_order raises, before or after the order reached the broker.
PlaceRaises(i) ==
    /\ Draining(i, {"PENDING_PLACE"})
    /\ PlaceAllowed(i)
    /\ st.tickets[i].oid = NoOid
    /\ BrokerPlaces(i, st.next_order_id) \/ UNCHANGED broker_vars
    /\ StepRaises(WithOrderId(i))

Cancel(i) ==
    /\ Draining(i, {"CANCEL_REQUESTED"})
    /\ BrokerCancels(st.tickets[i].oid)
    /\ NextTicket(i, st)

CancelRaises(i) ==
    /\ Draining(i, {"CANCEL_REQUESTED"})
    /\ BrokerCancels(st.tickets[i].oid) \/ UNCHANGED broker_vars
    /\ StepRaises(st)

\* A replace takes a snapshot of its own ...
LookBeforeReplace(i) ==
    /\ Draining(i, {"REPLACE_REQUESTED"})
    /\ replace_seen' = <<i, positions>>
    /\ UNCHANGED <<st, pc, batch, todo, seen_positions, blocked, disk_vars, broker_vars,
                   env_vars>>

\* ... and asks the policy with the positions it saw.
ReplaceAllowed(i) == Allowed(i, st.tickets[i].want_replace, replace_seen[2], "REPLACE")

Replacing(i) == pc = "drain" /\ replace_seen # <<>> /\ replace_seen[1] = i

\* The ticket fails; the order it stands for stays at the broker.
ForbidReplace(i) ==
    /\ Replacing(i)
    /\ ~ReplaceAllowed(i)
    /\ NextTicket(i, WithTicket(st, i, Terminate(st.tickets[i], "FAILED")))
    /\ UNCHANGED broker_vars

Replace(i) ==
    /\ Replacing(i)
    /\ ReplaceAllowed(i)
    /\ BrokerReplaces(st.tickets[i].oid, st.tickets[i].want_replace)
    /\ NextTicket(i, [st EXCEPT !.tickets[i].qty = st.tickets[i].want_replace])

ReplaceRaises(i) ==
    /\ Replacing(i)
    /\ ReplaceAllowed(i)
    /\ BrokerReplaces(st.tickets[i].oid, st.tickets[i].want_replace) \/ UNCHANGED broker_vars
    /\ StepRaises(st)

EndDrain ==
    /\ pc = "drain" /\ todo = {}
    /\ pc' = "reconcile"
    /\ seen_positions' = InitialPositions
    /\ UNCHANGED <<st, batch, todo, replace_seen, blocked, disk_vars, broker_vars, env_vars>>

----
(* _reconcile                                                               *)

\* A live ticket is matched by an order with its client id, or with its order id.
MatchedAtBroker(t) == OrdersOf(t) # {} \/ t.oid \in DOMAIN orders

FullyReconciled ==
    \A i \in Intents :
        /\ IsLive(st.tickets[i]) => MatchedAtBroker(st.tickets[i])
        /\ st.tickets[i].terminal = "DONE" => positions[OrderOf[i].symbol] = 0

Reconcile ==
    /\ pc = "reconcile"
    /\ st' = [st EXCEPT !.ratio = IF FullyReconciled THEN "full" ELSE "partial"]
    /\ pc' = "persist"
    /\ UNCHANGED <<batch, todo, seen_positions, replace_seen, blocked, disk_vars, broker_vars, env_vars>>

-----------------------------------------------------------------------------
(* The environment, and the whole system.                                   *)

\* Time passes and the cool-down runs out.
CooldownExpires ==
    /\ st.cooldown
    /\ st' = [st EXCEPT !.cooldown = FALSE]
    /\ UNCHANGED <<pc, batch, todo, seen_positions, replace_seen, blocked, disk_vars, broker_vars, env_vars>>

\* An operator, or a watchdog, creates or removes the flag files.
MoveFlag ==
    /\ FlagsMove
    /\ flag' = ~flag
    /\ UNCHANGED <<engine_vars, disk_vars, broker_vars, crashes, faults, resends>>

Init ==
    /\ st = FreshState
    /\ pc = "down"
    /\ batch = <<>> /\ todo = {}
    /\ seen_positions = InitialPositions
    /\ replace_seen = <<>>
    /\ blocked = FALSE
    /\ state_file = FreshState /\ state_exists = FALSE
    /\ ledger_state = FreshState
    /\ orders = InitialOrders
    /\ positions = InitialPositions
    /\ queue = <<>>
    /\ flag = FALSE
    /\ crashes = 0 /\ faults = 0 /\ resends = 0
    /\ placed = [i \in Intents |-> 0]
    /\ execs = 0
    /\ emitted = {}

RunnerCalls ==
    \E i \in Intents :
        \/ submit_intent(i)
        \/ adopt_order(i)
        \/ i \in Cancellable /\ request_cancel(i)
        \/ \E new_qty \in ReplaceQtys : request_replace_qty(i, new_qty)

\* What step() does once it has begun, when no adapter call raises.
StepWork ==
    \/ PollEvents
    \/ DropSeenFill \/ OrphanEvent
    \/ ApplyRequests
    \/ \E i \in Intents :
          \/ ApplyEvent(i)
          \/ DrainNothing(i) \/ ForbidPlace(i) \/ SkipPlaced(i) \/ Place(i)
          \/ Cancel(i) \/ LookBeforeReplace(i) \/ ForbidReplace(i) \/ Replace(i)
    \/ EndDrain
    \/ Reconcile
    \/ PersistState

Raises ==
    \/ SnapshotOrPollRaises
    \/ \E i \in Intents :
          LastFillRaises(i) \/ PlaceRaises(i) \/ CancelRaises(i) \/ ReplaceRaises(i)

Next ==
    \/ Start \/ RunnerCalls \/ BeginStep \/ StepWork \/ Raises
    \/ Crash \/ CrashInPersist \/ LoseStateFile
    \/ Broker
    \/ CooldownExpires \/ MoveFlag

Spec == Init /\ [][Next]_vars

\* The runner calls step() in every turn of its loop, whatever else it calls; a
\* step that began goes on; an engine that is down is started; time passes.
\* Nothing is assumed of the broker.
EngineFairness ==
    /\ WF_vars(Start)
    /\ SF_vars(BeginStep)
    /\ WF_vars(StepWork)
    /\ WF_vars(CooldownExpires)

FairSpec == Spec /\ EngineFairness

-----------------------------------------------------------------------------
(* Type correctness.                                                        *)

TypeOK ==
    /\ st \in EngineState /\ Len(st.fill_dedup_keys) <= MaxKeys
    /\ pc \in {"down", "idle", "poll", "apply", "drain", "reconcile", "persist"}
    /\ batch \in Seq(BrokerEvent)
    /\ todo \in SUBSET Intents
    /\ seen_positions \in [DOMAIN InitialPositions -> Int]
    /\ replace_seen \in {<<>>} \cup (Intents \X [DOMAIN InitialPositions -> Int])
    /\ blocked \in BOOLEAN
    /\ state_file \in EngineState /\ state_exists \in BOOLEAN
    /\ ledger_state \in EngineState
    /\ DOMAIN orders \in SUBSET Nat
    /\ \A oid \in DOMAIN orders : orders[oid] \in Order
    /\ positions \in [DOMAIN InitialPositions -> Int]
    /\ queue \in Seq(BrokerEvent)
    /\ flag \in BOOLEAN
    /\ crashes \in Nat /\ faults \in Nat /\ resends \in Nat
    /\ placed \in [Intents -> Nat]
    /\ execs \in Nat
    /\ emitted \in SUBSET BrokerEvent

-----------------------------------------------------------------------------
(* Safety.                                                                  *)

\* "restart must not place duplicate order" (test_stage5_restart_idempotency.py:50):
\* however often the engine crashes, loses state.json or sees place_order raise,
\* the broker receives an intent's order at most once.
NoDuplicatePlace == \A i \in Intents : placed[i] <= 1

\* An order id stands for one order: the order the broker holds under a
\* ticket's id is that ticket's order.
OrderIdsAreOwn ==
    \A i \in Intents :
        LET t == st.tickets[i] IN
        t.oid \in DOMAIN orders => orders[t.oid].coid \in {t.coid, NoCoid}

\* The engine never believes more was filled of an order than the broker filled,
\* whatever is delivered twice, lost in a crash, or counted before an exception.
FillsNotOvercounted ==
    \A i \in Intents :
        LET t == st.tickets[i] IN
        (t.oid \in DOMAIN orders /\ orders[t.oid].coid \in {t.coid, NoCoid}) =>
            t.filled <= orders[t.oid].filled

\* How a closed order at the broker shows in its ticket.
AgreesWith(t, o) ==
    /\ t.filled = o.filled
    /\ o.status = "Filled" <=> (t.terminal \in {"DONE", "FILLED"})
    /\ o.status = "Cancelled" <=> t.terminal = "CANCELLED"
    /\ o.status = "Rejected" <=> t.terminal = "FAILED"

\* When nothing was lost and every event has been applied, each ticket agrees
\* with its order on what was filled and on how the order ended.
BooksAgree ==
    (pc = "idle" /\ queue = <<>> /\ crashes = 0 /\ faults = 0) =>
        \A i \in Intents :
            LET t == st.tickets[i] IN
            t.oid \in DOMAIN orders => AgreesWith(t, orders[t.oid])

\* With ONLY_EXITS a position only shrinks: it keeps its sign and never grows
\* ("only_exits_forbids_entry_increase_or_flip", policy_v0.py:57).
PositionsOnlyShrink ==
    ControlPlane.global_mode = "ONLY_EXITS" =>
        \A symbol \in DOMAIN positions :
            \/ 0 <= positions[symbol] /\ positions[symbol] <= InitialPositions[symbol]
            \/ InitialPositions[symbol] <= positions[symbol] /\ positions[symbol] <= 0

\* A ticket ends DONE only when its symbol is flat, and stays right about it.
DoneIsFlat ==
    \A i \in Intents :
        st.tickets[i].terminal = "DONE" => positions[OrderOf[i].symbol] = 0

\* A ticket that was recorded as terminal stays as it is, across crashes,
\* restarts and late events.
RecordedEndIsFinal ==
    [][\A i \in Intents :
          IsTerminal(LoadedState.tickets[i]) =>
              LoadedState'.tickets[i] = LoadedState.tickets[i]]_vars

-----------------------------------------------------------------------------
(* Liveness, when nothing crashes and no adapter call raises.               *)

\* An order that is over at the broker ends its ticket, even while stop.flag
\* or safe_mode.flag is set and during a cool-down: events are still polled.
ClosedOrderEndsTicket ==
    \A i \in Intents :
        LET t == st.tickets[i] IN
        (t.oid \in DOMAIN orders /\ ~IsOpen(orders[t.oid])) ~> IsTerminal(t)

\* A ticket whose cancellation is wanted ends, whatever the broker does with the
\* order meanwhile, also when it was wanted before the order was placed, unless
\* the flags that stop every action come back for ever.
CancelWantedEndsTicket ==
    \/ []<>flag
    \/ \A i \in Intents : st.tickets[i].want_cancel ~> IsTerminal(st.tickets[i])

=============================================================================
