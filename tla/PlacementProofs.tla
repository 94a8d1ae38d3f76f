--------------------------- MODULE PlacementProofs ---------------------------
(***************************************************************************)
(* What the engine does with orders and fills (ExecEngine.tla), and that   *)
(* it implements the life cycle of an intent (ExecLifecycle.tla), for any  *)
(* intents, positions, control plane and bounds.                           *)
(*                                                                         *)
(* Placing.  No intent's order is sent twice (NoDuplicatePlace), through   *)
(* any number of crashes, lost state files, raising adapter calls and      *)
(* events that are delivered again.                                        *)
(* Place needs a ticket without an order id, so it must be shown that the  *)
(* engine knows the order id of every order it has sent, as long as it is  *)
(* up (KnownInMemory).  After a crash it knows it from the copy of its     *)
(* state that it loads, or from the handshake, which finds the order at    *)
(* the broker by its client id (Recoverable).  The handshake can find it   *)
(* only if no later order has taken its order id: next_order_id may have   *)
(* been rolled back by the crash, but an order that no file knows of was   *)
(* sent since the last persist, with an id below next_order_id (Unsaved).  *)
(*                                                                         *)
(* Ends.  What is recorded as ended stays as it is (EndKept).              *)
(*                                                                         *)
(* Life cycle.  What is on disk and what is in memory differ only in ways  *)
(* that the next persist turns into a step of the life cycle (Follows).    *)
(*                                                                         *)
(* Order ids.  An engine that never crashed gives ids above all others     *)
(* (IdsBelowNext); after a crash they may repeat, but with a single intent *)
(* every order is its order (TracedInv).                                   *)
(*                                                                         *)
(* Exits.  As a position has one intent to exit it, the fills of its order *)
(* are all that moves it, and what is left of the order cannot turn it     *)
(* (OrdersExit); the policy saw a position between its start and zero      *)
(* (SeenShrunk).  What ended DONE was flat in what the engine saw, and a   *)
(* flat position has nothing to leave (DoneFlat).                          *)
(*                                                                         *)
(* Fills.  Every copy of the state - memory, files, a fresh state - counts *)
(* some of the fills, each at most once and under a key it remembers; what *)
(* it has not counted of an order is at least what is left to tell (Tally).*)
(*                                                                         *)
(* Books.  As long as nothing died or raised, what is pending leads, event *)
(* by event, from what the ticket of an order was told to what the broker  *)
(* holds of it (Lead, AccountInv); no fill that is still to be told has a  *)
(* key that is remembered already (StampsRise).                            *)
(***************************************************************************)
EXTENDS ExecEngineProofs, ExecLifecycle, FiniteSetTheorems

\* The phases in which state.json and the ledger hold what the step began with.
Saved == pc \in {"idle", "poll", "apply", "drain", "reconcile"}

\* A pending ticket carries its intent's client id; an absent one no order id.
WellFormed(s) ==
    /\ s.next_order_id > 0
    /\ \A i \in Intents :
          /\ s.tickets[i].state = "PENDING_PLACE" => s.tickets[i].coid = i
          /\ s.tickets[i].state = "ABSENT" => s.tickets[i].oid = NoOid

AllWellFormed == WellFormed(st) /\ WellFormed(state_file) /\ WellFormed(ledger_state)

OrderIdsPositive == 0 \notin DOMAIN orders

KnownInMemory ==
    pc # "down" => \A i \in Intents : placed[i] > 0 => st.tickets[i].oid # NoOid

\* An order sent for intent i that the handshake would find.
AtBroker(i) == \E oid \in DOMAIN orders : orders[oid].coid = i

Recoverable(t, i) ==
    t.oid # NoOid \/ (IsLive(t) /\ t.coid = i /\ AtBroker(i))

KnownOnDisk ==
    \A i \in Intents : placed[i] > 0 =>
        /\ state_exists => Recoverable(state_file.tickets[i], i)
        /\ Recoverable(ledger_state.tickets[i], i)

\* What is pending in memory is pending in the files.
PendingIsSaved ==
    Saved => \A i \in Intents : st.tickets[i].state = "PENDING_PLACE" =>
        /\ state_file.tickets[i].state = "PENDING_PLACE"
        /\ ledger_state.tickets[i].state = "PENDING_PLACE"

\* An order that some file does not know of has an id that was drawn already.
Unsaved(i) == state_file.tickets[i].oid = NoOid \/ ledger_state.tickets[i].oid = NoOid

UnsavedBelowNext ==
    Saved => \A i \in Intents : placed[i] > 0 /\ Unsaved(i) =>
        \E oid \in DOMAIN orders : orders[oid].coid = i /\ oid < st.next_order_id

PInv ==
    /\ AllWellFormed
    /\ OrderIdsPositive
    /\ KnownInMemory
    /\ KnownOnDisk
    /\ PendingIsSaved
    /\ UnsavedBelowNext
    /\ NoDuplicatePlace

-----------------------------------------------------------------------------
(* Steps that send nothing.                                                 *)

\* What every operation but a submission and an adoption does to a ticket:
\* nothing becomes pending or absent, and an order id is never given up.
Evolves(t, u) ==
    /\ u.coid = t.coid
    /\ t.oid # NoOid => u.oid # NoOid
    /\ u.state = "PENDING_PLACE" => t.state = "PENDING_PLACE"
    /\ u.state = "ABSENT" => t.state = "ABSENT" /\ u.oid = t.oid

\* From engine state s to engine state s2, no order id is given back.
StateEvolves(s, s2) ==
    /\ s2.next_order_id >= s.next_order_id
    /\ \A i \in Intents : Evolves(s.tickets[i], s2.tickets[i])

OrdersKept ==
    /\ UNCHANGED placed
    /\ DOMAIN orders' = DOMAIN orders
    /\ \A oid \in DOMAIN orders :
          /\ orders'[oid].coid = orders[oid].coid
          /\ orders'[oid].symbol = orders[oid].symbol /\ orders'[oid].side = orders[oid].side

LEMMA EvolvesSame == \A t : Evolves(t, t)
  BY DEF Evolves

LEMMA StateEvolvesSame == ASSUME NEW s \in EngineState PROVE StateEvolves(s, s)
<1>1. s.next_order_id \in Nat
  BY StateParts
<1> QED BY <1>1, EvolvesSame DEF StateEvolves

LEMMA SameOrdersKept == UNCHANGED broker_vars => OrdersKept
  BY DEF OrdersKept, broker_vars

\* A broker that holds the same orders still holds an intent's order.
LEMMA AtBrokerKept == ASSUME NEW i \in Intents, OrdersKept PROVE AtBroker(i) => AtBroker(i)'
  BY DEF AtBroker, OrdersKept

LEMMA QuietStep ==
    ASSUME TInv, TInv', PInv, UNCHANGED disk_vars, OrdersKept, StateEvolves(st, st'),
           pc = "down" <=> pc' = "down", Saved' => Saved
    PROVE  PInv'
<1>n. st.next_order_id \in Nat /\ st'.next_order_id \in Nat
  BY StateParts DEF TInv, StateOK
<1>d. DOMAIN orders \subseteq Nat
  BY DEF TInv, BrokerOK
<1>1. AllWellFormed'
  <2>1. WellFormed(st)'
    BY <1>n DEF PInv, AllWellFormed, WellFormed, StateEvolves, Evolves
  <2> QED BY <2>1 DEF PInv, AllWellFormed, WellFormed, disk_vars
<1>2. OrderIdsPositive'
  BY DEF PInv, OrderIdsPositive, OrdersKept
<1>3. KnownInMemory'
  BY DEF PInv, KnownInMemory, OrdersKept, StateEvolves, Evolves
<1>4. KnownOnDisk'
  <2> SUFFICES ASSUME NEW i \in Intents, placed'[i] > 0
               PROVE  /\ state_exists => Recoverable(state_file.tickets[i], i)'
                      /\ Recoverable(ledger_state.tickets[i], i)'
    BY DEF KnownOnDisk, disk_vars
  <2>1. placed[i] > 0
    BY DEF OrdersKept
  <2>2. AtBroker(i) => AtBroker(i)'
    BY AtBrokerKept
  <2>3. /\ state_exists => Recoverable(state_file.tickets[i], i)
        /\ Recoverable(ledger_state.tickets[i], i)
    BY <2>1 DEF PInv, KnownOnDisk
  <2> QED BY <2>2, <2>3 DEF Recoverable, disk_vars
<1>5. PendingIsSaved'
  BY DEF PInv, PendingIsSaved, StateEvolves, Evolves, disk_vars
<1>6. UnsavedBelowNext'
  <2> SUFFICES ASSUME Saved', NEW i \in Intents, placed'[i] > 0, Unsaved(i)'
               PROVE  \E oid \in DOMAIN orders' :
                         orders'[oid].coid = i /\ oid < st'.next_order_id
    BY DEF UnsavedBelowNext
  <2>1. placed[i] > 0 /\ Unsaved(i)
    BY DEF OrdersKept, Unsaved, disk_vars
  <2>2. PICK oid \in DOMAIN orders : orders[oid].coid = i /\ oid < st.next_order_id
    BY <2>1 DEF PInv, UnsavedBelowNext
  <2>3. oid \in DOMAIN orders' /\ orders'[oid].coid = i
    BY <2>2 DEF OrdersKept
  <2>4. oid < st'.next_order_id
    BY <1>n, <1>d, <2>2 DEF StateEvolves
  <2> QED BY <2>3, <2>4
<1>7. NoDuplicatePlace'
  BY DEF PInv, NoDuplicatePlace, OrdersKept
<1> QED BY <1>1, <1>2, <1>3, <1>4, <1>5, <1>6, <1>7 DEF PInv

-----------------------------------------------------------------------------
(* The quiet operations: no ticket comes or goes, and no order is sent.     *)

\* The phases up to _drain_actions, and what a replace has looked at.
Early == pc \in {"idle", "poll", "apply"}

ReplaceUnderWay ==
    replace_seen # <<>> =>
        /\ pc = "drain" /\ replace_seen[1] \in todo
        /\ st.tickets[replace_seen[1]].state = "REPLACE_REQUESTED"

\* A ticket keeps its ids, stays there, and stays as it is once it is terminal.
Keeps(t, u) ==
    /\ u.coid = t.coid /\ u.oid = t.oid
    /\ IsPresent(u) <=> IsPresent(t)
    /\ IsTerminal(t) => u = t
    /\ u.state = "PENDING_PLACE" => t.state = "PENDING_PLACE"

StateKeeps(s, s2) ==
    /\ s2.next_order_id = s.next_order_id
    /\ \A i \in Intents : Keeps(s.tickets[i], s2.tickets[i])

\* After _apply_requests only tickets that the loop has still to reach change.
PassedKept ==
    ~Early => \A i \in Intents : (pc = "drain" => i \notin todo) => st'.tickets[i] = st.tickets[i]

PhaseGoesOn ==
    /\ pc = "down" <=> pc' = "down"
    /\ (Saved' => Saved) /\ (Early' => Early)
    /\ pc' = "drain" => Early \/ (pc = "drain" /\ todo' \subseteq todo)

Quiet ==
    /\ OrdersKept /\ UNCHANGED disk_vars
    /\ StateKeeps(st, st') /\ PassedKept
    /\ PhaseGoesOn

LEMMA KeepsSame == \A t : Keeps(t, t)
  BY DEF Keeps

LEMMA QuietKeeps ==
    ASSUME TInv, TInv', PInv, Quiet
    PROVE  PInv'
<1>1. StateEvolves(st, st')
  <2>1. st.next_order_id \in Nat
    BY StateParts DEF TInv, StateOK
  <2> QED BY <2>1 DEF Quiet, StateKeeps, Keeps, StateEvolves, Evolves, IsPresent
<1> QED BY <1>1, QuietStep DEF Quiet, PhaseGoesOn

\* Replacing the ticket of one intent.
LEMMA OneTicketKeeps ==
    ASSUME NEW s \in EngineState, NEW i \in Intents, NEW t \in Ticket, Keeps(s.tickets[i], t)
    PROVE  /\ StateKeeps(s, WithTicket(s, i, t))
           /\ \A j \in Intents \ {i} : WithTicket(s, i, t).tickets[j] = s.tickets[j]
<1>1. WithTicket(s, i, t).tickets = [s.tickets EXCEPT ![i] = t]
      /\ WithTicket(s, i, t).next_order_id = s.next_order_id
  BY TicketReplaced
<1>2. s.tickets \in [Intents -> Ticket]
  BY StateParts
<1> HIDE DEF WithTicket
<1> QED BY <1>1, <1>2, KeepsSame DEF StateKeeps

\* The fields in which a live ticket is changed.
LEMMA FieldsKeep ==
    ASSUME NEW t \in Ticket, IsLive(t)
    PROVE  /\ \A how \in TerminalStates : Keeps(t, Terminate(t, how))
           /\ \A x \in TicketStates \ {"PENDING_PLACE", "ABSENT"} :
                 Keeps(t, [t EXCEPT !.state = x])
           /\ \A x \in Int : Keeps(t, [t EXCEPT !.qty = x])
           /\ \A x \in BOOLEAN : Keeps(t, [t EXCEPT !.want_cancel = x])
           /\ \A x \in Int : Keeps(t, [t EXCEPT !.want_replace = x])
           /\ \A x, y \in Int : Keeps(t, [t EXCEPT !.filled = x, !.remaining = y])
<1>1. \A how \in TerminalStates : Keeps(t, Terminate(t, how))
  BY DEF Keeps, Terminate, Ticket, IsLive, IsPresent
<1>2. \A x \in TicketStates \ {"PENDING_PLACE", "ABSENT"} : Keeps(t, [t EXCEPT !.state = x])
  BY DEF Keeps, Ticket, IsLive, IsPresent
<1> QED BY <1>1, <1>2 DEF Keeps, Ticket, IsLive, IsPresent

LEMMA CountedKeeps ==
    ASSUME StateOK, NEW i \in Intents, NEW e \in BrokerEvent, IsLive(st.tickets[i])
    PROVE  /\ Keeps(st.tickets[i], Counted(i, e)) /\ IsLive(Counted(i, e))
<1>1. st.tickets[i] \in Ticket
  BY StateParts DEF StateOK
<1>2. st.tickets[i].filled + e.qty \in Int /\ e.remaining \in Int
  BY <1>1, TicketParts, EventParts
<1>3. Keeps(st.tickets[i], Counted(i, e))
  BY <1>1, <1>2, FieldsKeep DEF Counted
<1>4. IsLive(Counted(i, e))
  BY <1>1 DEF Counted, IsLive, IsPresent, IsTerminal, Ticket
<1> QED BY <1>3, <1>4

LEMMA KeepsTwice ==
    ASSUME NEW t, NEW u, NEW v, Keeps(t, u), Keeps(u, v)
    PROVE  Keeps(t, v)
  BY DEF Keeps

LEMMA AppliedKeeps ==
    ASSUME StateOK, NEW i \in Intents, NEW e \in BrokerEvent, IsPresent(st.tickets[i])
    PROVE  Keeps(st.tickets[i], Applied(i, e))
<1> DEFINE t == st.tickets[i]
<1>1. t \in Ticket
  BY StateParts DEF StateOK
<1>2. {"ACKED", "PARTIAL"} \subseteq TicketStates \ {"PENDING_PLACE", "ABSENT"}
      /\ {"DONE", "FILLED", "FAILED", "CANCELLED"} \subseteq TerminalStates
  BY DEF TicketStates, TerminalStates
<1>6. e.type \in {"ACK", "REJECT", "CANCELLED", "FILL"} /\ e.remaining \in Int
  BY EventParts
<1>7. CASE IsTerminal(t)
  BY <1>7, KeepsSame DEF Applied
<1>8. CASE IsLive(t)
  <2>1. Counted(i, e) \in Ticket /\ Keeps(t, Counted(i, e)) /\ IsLive(Counted(i, e))
    BY <1>8, CountedTyped, CountedKeeps
  <2>2. /\ Keeps(t, [t EXCEPT !.state = "ACKED"]) /\ Keeps(t, Terminate(t, "FAILED"))
        /\ Keeps(t, Terminate(t, "CANCELLED")) /\ Keeps(t, t)
    BY <1>1, <1>2, <1>8, FieldsKeep, KeepsSame
  <2>3. /\ Keeps(t, [Counted(i, e) EXCEPT !.state = "PARTIAL"])
        /\ Keeps(t, Terminate(Counted(i, e), "DONE"))
        /\ Keeps(t, Terminate(Counted(i, e), "FILLED"))
    <3>1. /\ Keeps(Counted(i, e), [Counted(i, e) EXCEPT !.state = "PARTIAL"])
          /\ Keeps(Counted(i, e), Terminate(Counted(i, e), "DONE"))
          /\ Keeps(Counted(i, e), Terminate(Counted(i, e), "FILLED"))
      BY <1>2, <2>1, FieldsKeep
    <3> QED BY <2>1, <3>1, KeepsTwice
  <2>4. CASE e.type = "ACK"
    BY <1>8, <2>2, <2>4 DEF Applied, IsLive
  <2>5. CASE e.type \in {"REJECT", "CANCELLED"}
    BY <1>8, <2>2, <2>5 DEF Applied, IsLive
  <2>6. CASE e.type = "FILL" /\ e.remaining > 0
    BY <1>8, <2>3, <2>6 DEF Applied, IsLive
  <2>7. CASE e.type = "FILL" /\ e.remaining <= 0
    BY <1>6, <1>8, <2>3, <2>7 DEF Applied, IsLive
  <2> QED BY <1>6, <2>4, <2>5, <2>6, <2>7
<1> QED BY <1>7, <1>8 DEF IsLive

\* Only the tickets and the next order id matter.
LEMMA SameTicketsKeep ==
    ASSUME NEW s, NEW s1, NEW s2, StateKeeps(s, s1),
           s2.tickets = s1.tickets, s2.next_order_id = s1.next_order_id
    PROVE  StateKeeps(s, s2)
  BY DEF StateKeeps

LEMMA StateKeepsSame == \A s : StateKeeps(s, s)
  BY KeepsSame DEF StateKeeps

\* The state after a fill is remembered, with one ticket changed.
LEMMA RememberedKeeps ==
    ASSUME StateOK, NEW i \in Intents, NEW e \in BrokerEvent,
           NEW t \in Ticket, Keeps(st.tickets[i], t)
    PROVE  StateKeeps(st, WithTicket(Remembered(e), i, t))
<1>1. /\ Remembered(e) \in EngineState /\ Remembered(e).tickets = st.tickets
      /\ Remembered(e).next_order_id = st.next_order_id /\ st \in EngineState
  BY RememberedTyped DEF StateOK
<1>2. StateKeeps(Remembered(e), WithTicket(Remembered(e), i, t))
  BY <1>1, OneTicketKeeps
<1> QED BY <1>1, <1>2 DEF StateKeeps

LEMMA OrderIdParts ==
    ASSUME StateOK, NEW i \in Intents
    PROVE  /\ WithOrderId(i).next_order_id = st.next_order_id + 1
           /\ \A j \in Intents \ {i} : WithOrderId(i).tickets[j] = st.tickets[j]
           /\ WithOrderId(i).tickets[i] = [st.tickets[i] EXCEPT !.oid = st.next_order_id]
<1>1. st \in EngineState /\ st.tickets \in [Intents -> Ticket]
  BY StateParts DEF StateOK
<1> QED BY <1>1 DEF WithOrderId, WithTicket, EngineState

-----------------------------------------------------------------------------
(* The quiet operations, one group after another.                           *)

\* A call of the runner that changes one ticket.
LEMMA QuietCall ==
    ASSUME TInv, NEW i \in Intents, NEW t \in Ticket, pc = "idle",
           Keeps(st.tickets[i], t), CallUpdates(WithTicket(st, i, t))
    PROVE  Quiet
<1>1. StateKeeps(st, st')
  BY OneTicketKeeps DEF CallUpdates, TInv, StateOK
<1>2. OrdersKept /\ UNCHANGED disk_vars /\ pc' = "persist"
  BY SameOrdersKept DEF CallUpdates
<1> QED BY <1>1, <1>2 DEF Quiet, PassedKept, PhaseGoesOn, Saved, Early

LEMMA RequestCallsQuiet ==
    ASSUME TInv, NEW i \in Intents,
           request_cancel(i) \/ \E q \in ReplaceQtys : request_replace_qty(i, q)
    PROVE  Quiet
<1>t. st.tickets[i] \in Ticket
  BY StateParts DEF TInv, StateOK
<1>1. CASE request_cancel(i)
  <2> DEFINE t == [st.tickets[i] EXCEPT !.want_cancel = TRUE]
  <2>1. t \in Ticket /\ Keeps(st.tickets[i], t)
    BY <1>t, <1>1, TicketSet, FieldsKeep DEF request_cancel
  <2>2. CallUpdates(WithTicket(st, i, t)) /\ pc = "idle"
    BY <1>1 DEF request_cancel, WithTicket
  <2> HIDE DEF t
  <2> QED BY <2>1, <2>2, QuietCall
<1>2. ASSUME NEW q \in ReplaceQtys, request_replace_qty(i, q) PROVE Quiet
  <2> DEFINE t == [st.tickets[i] EXCEPT !.want_replace = q]
  <2>1. t \in Ticket /\ Keeps(st.tickets[i], t)
    BY <1>t, <1>2, TicketSet, FieldsKeep, IntentsAssumption DEF request_replace_qty
  <2>2. CallUpdates(WithTicket(st, i, t)) /\ pc = "idle"
    BY <1>2 DEF request_replace_qty, WithTicket
  <2> HIDE DEF t
  <2> QED BY <2>1, <2>2, QuietCall
<1> QED BY <1>1, <1>2

\* The phases of a step that leave the tickets alone.
LEMMA PhasesQuiet ==
    ASSUME TInv, BeginStep \/ PollEvents \/ EndDrain \/ Reconcile \/ CooldownExpires \/ MoveFlag
    PROVE  Quiet
<1>s. st \in EngineState
  BY DEF TInv, StateOK
<1>1. st'.tickets = st.tickets /\ st'.next_order_id = st.next_order_id
  BY <1>s DEF BeginStep, PollEvents, EndDrain, Reconcile, CooldownExpires, MoveFlag,
              engine_vars, EngineState
<1>2. StateKeeps(st, st') /\ PassedKept
  BY <1>1, StateKeepsSame, SameTicketsKeep DEF PassedKept
<1>3. OrdersKept
  BY DEF BeginStep, PollEvents, EndDrain, Reconcile, CooldownExpires, MoveFlag,
         OrdersKept, broker_vars
<1>4. UNCHANGED disk_vars /\ PhaseGoesOn
  BY DEF BeginStep, PollEvents, EndDrain, Reconcile, CooldownExpires, MoveFlag,
         engine_vars, PhaseGoesOn, Saved, Early
<1> QED BY <1>2, <1>3, <1>4 DEF Quiet

LEMMA EventsQuiet ==
    ASSUME TInv, DropSeenFill \/ OrphanEvent \/ \E i \in Intents : ApplyEvent(i)
    PROVE  Quiet
<1>s. StateOK /\ st \in EngineState
  BY DEF TInv, StateOK
<1>e. Head(batch) \in BrokerEvent
  BY BatchParts DEF DropSeenFill, OrphanEvent, ApplyEvent
<1>1. StateKeeps(st, st')
  <2>1. CASE DropSeenFill
    BY <2>1, StateKeepsSame DEF DropSeenFill
  <2>2. CASE OrphanEvent
    <3>1. st'.tickets = st.tickets /\ st'.next_order_id = st.next_order_id
      BY <1>s, <1>e, <2>2, RememberedTyped DEF OrphanEvent
    <3> QED BY <3>1, StateKeepsSame, SameTicketsKeep
  <2>3. ASSUME NEW i \in Intents, ApplyEvent(i) PROVE StateKeeps(st, st')
    <3> DEFINE e == Head(batch)
               s == WithTicket(Remembered(e), i, Applied(i, e))
    <3>p. IsPresent(st.tickets[i])
      BY <2>3 DEF ApplyEvent, MatchedTickets
    <3>1. StateKeeps(st, s) /\ s \in EngineState
      <4>1. Applied(i, e) \in Ticket /\ Keeps(st.tickets[i], Applied(i, e))
        BY <1>s, <1>e, <3>p, AppliedTyped, AppliedKeeps
      <4>2. Remembered(e) \in EngineState
        BY <1>s, <1>e, RememberedTyped
      <4> QED BY <1>s, <1>e, <4>1, <4>2, RememberedKeeps, TicketReplaced
    <3>2. PICK cooled : st' = [s EXCEPT !.cooldown = cooled]
      BY <2>3 DEF ApplyEvent
    <3> HIDE DEF s
    <3>3. st'.tickets = s.tickets /\ st'.next_order_id = s.next_order_id
      BY <3>1, <3>2 DEF EngineState
    <3> QED BY <3>1, <3>3, SameTicketsKeep
  <2> QED BY <2>1, <2>2, <2>3
<1>2. OrdersKept
  BY SameOrdersKept DEF DropSeenFill, OrphanEvent, ApplyEvent
<1>3. UNCHANGED disk_vars /\ UNCHANGED pc /\ pc = "apply"
  BY DEF DropSeenFill, OrphanEvent, ApplyEvent
<1> QED BY <1>1, <1>2, <1>3 DEF Quiet, PassedKept, PhaseGoesOn, Saved, Early

LEMMA RequestsQuiet == ASSUME TInv, ApplyRequests PROVE Quiet
<1>1. ASSUME NEW i \in Intents
      PROVE  Keeps(st.tickets[i], Requested(st.tickets[i]))
  <2>1. st.tickets[i] \in Ticket
    BY StateParts DEF TInv, StateOK
  <2>2. {"REPLACE_REQUESTED", "CANCEL_REQUESTED"}
            \subseteq TicketStates \ {"PENDING_PLACE", "ABSENT"}
    BY DEF TicketStates
  <2> QED BY <2>1, <2>2, FieldsKeep, KeepsSame DEF Requested
<1>2. StateKeeps(st, st')
  <2>1. st \in EngineState
    BY DEF TInv, StateOK
  <2>2. /\ st'.next_order_id = st.next_order_id
        /\ \A i \in Intents : st'.tickets[i] = Requested(st.tickets[i])
    BY <2>1 DEF ApplyRequests, EngineState
  <2> QED BY <1>1, <2>2 DEF StateKeeps
<1>3. OrdersKept /\ UNCHANGED disk_vars
  BY SameOrdersKept DEF ApplyRequests
<1>4. pc = "apply" /\ pc' \in {"reconcile", "drain"}
  BY DEF ApplyRequests
<1> QED BY <1>2, <1>3, <1>4 DEF Quiet, PassedKept, PhaseGoesOn, Saved, Early

\* A step that raises, with an engine state that keeps the old one's tickets.
LEMMA RaisesQuiet ==
    ASSUME NEW s \in EngineState, StateKeeps(st, s), s.tickets = st.tickets \/ Early,
           pc # "down", StepRaises(s), OrdersKept
    PROVE  Quiet
<1>1. st'.tickets = s.tickets /\ st'.next_order_id = s.next_order_id
  BY DEF StepRaises, EngineState
<1>2. UNCHANGED disk_vars /\ pc' = "persist"
  BY DEF StepRaises
<1>3. StateKeeps(st, st') /\ PassedKept
  BY <1>1, SameTicketsKeep DEF PassedKept
<1> QED BY <1>2, <1>3 DEF Quiet, PhaseGoesOn, Saved, Early

\* Cancelling and replacing keep the orders and their client ids.
LEMMA BrokerCallsKeepOrders ==
    ASSUME BrokerOK, NEW oid, NEW qty, BrokerCancels(oid) \/ BrokerReplaces(oid, qty)
    PROVE  OrdersKept
<1>1. \A x \in DOMAIN orders : orders[x] \in Order
  BY DEF BrokerOK
<1>2. CASE BrokerCancels(oid)
  BY <1>1, <1>2, SameOrdersKept DEF BrokerCancels, OrdersKept, Order
<1>3. CASE BrokerReplaces(oid, qty)
  BY <1>1, <1>3, SameOrdersKept DEF BrokerReplaces, OrdersKept, Order
<1> QED BY <1>2, <1>3

LEMMA BrokerQuiet == ASSUME TInv, Broker PROVE Quiet
<1>1. OrdersKept
  <2>1. \A x \in DOMAIN orders : orders[x] \in Order
    BY DEF TInv, BrokerOK
  <2>2. ASSUME NEW oid \in DOMAIN orders, BrokerAck(oid) PROVE OrdersKept
    BY <2>1, <2>2 DEF BrokerAck, OrdersKept, Order
  <2>3. ASSUME NEW oid \in DOMAIN orders, BrokerReject(oid) PROVE OrdersKept
    BY <2>1, <2>3 DEF BrokerReject, OrdersKept, Order
  <2>4. ASSUME NEW oid \in DOMAIN orders, NEW qty, BrokerFill(oid, qty) PROVE OrdersKept
    BY <2>1, <2>4 DEF BrokerFill, OrdersKept, Order
  <2>5. ASSUME NEW e, Resend(e) PROVE OrdersKept
    BY <2>5 DEF Resend, OrdersKept
  <2> QED BY <2>2, <2>3, <2>4, <2>5 DEF Broker
<1>2. UNCHANGED engine_vars /\ UNCHANGED disk_vars
  BY DEF Broker, BrokerAck, BrokerReject, BrokerFill, Resend
<1>3. UNCHANGED <<st, pc, todo>>
  BY <1>2 DEF engine_vars
<1>4. StateKeeps(st, st') /\ PassedKept
  BY <1>3, StateKeepsSame DEF PassedKept
<1> QED BY <1>1, <1>2, <1>3, <1>4 DEF Quiet, PhaseGoesOn, Saved, Early

LEMMA SnapshotRaiseQuiet == ASSUME TInv, SnapshotOrPollRaises PROVE Quiet
<1>1. st \in EngineState /\ StateKeeps(st, st)
  BY StateKeepsSame DEF TInv, StateOK
<1> QED BY <1>1, SameOrdersKept, RaisesQuiet DEF SnapshotOrPollRaises

LEMMA RaisesAreQuiet ==
    ASSUME TInv, NEW i \in Intents,
           LastFillRaises(i) \/ CancelRaises(i) \/ ReplaceRaises(i)
    PROVE  Quiet
<1>s. st \in EngineState /\ StateOK /\ BrokerOK /\ StateKeeps(st, st)
  BY StateKeepsSame DEF TInv, StateOK
<1>1. CASE LastFillRaises(i)
  <2> DEFINE e == Head(batch)
             s == WithTicket(Remembered(e), i, Counted(i, e))
  <2>1. e \in BrokerEvent
    BY <1>1, BatchParts DEF LastFillRaises
  <2>2. IsLive(st.tickets[i])
    BY <1>1 DEF LastFillRaises, MatchedTickets, IsLive
  <2>3. Counted(i, e) \in Ticket /\ Keeps(st.tickets[i], Counted(i, e))
        /\ Remembered(e) \in EngineState
    BY <1>s, <2>1, <2>2, CountedTyped, CountedKeeps, RememberedTyped
  <2>4. s \in EngineState /\ StateKeeps(st, s)
    BY <1>s, <2>1, <2>3, RememberedKeeps, TicketReplaced
  <2>5. StepRaises(s) /\ UNCHANGED broker_vars /\ pc = "apply"
    BY <1>1 DEF LastFillRaises
  <2> HIDE DEF s
  <2> QED BY <2>4, <2>5, SameOrdersKept, RaisesQuiet DEF Early
<1>2. CASE CancelRaises(i)
  BY <1>s, <1>2, SameOrdersKept, BrokerCallsKeepOrders, RaisesQuiet DEF CancelRaises, Draining
<1>3. CASE ReplaceRaises(i)
  BY <1>s, <1>3, SameOrdersKept, BrokerCallsKeepOrders, RaisesQuiet
     DEF ReplaceRaises, Replacing
<1> QED BY <1>1, <1>2, <1>3

\* The loop goes on after the ticket of intent i, which it may have changed.
LEMMA QuietTicket ==
    ASSUME TInv, NEW i \in Intents, NEW t \in Ticket, Keeps(st.tickets[i], t),
           pc = "drain", i \in todo, NextTicket(i, WithTicket(st, i, t)), OrdersKept
    PROVE  Quiet
<1>1. /\ StateKeeps(st, st')
      /\ \A j \in Intents \ {i} : st'.tickets[j] = st.tickets[j]
  BY OneTicketKeeps DEF NextTicket, TInv, StateOK
<1>2. UNCHANGED disk_vars /\ UNCHANGED pc /\ todo' \subseteq todo
  BY DEF NextTicket
<1> QED BY <1>1, <1>2 DEF Quiet, PassedKept, PhaseGoesOn, Saved, Early

LEMMA DrainQuiet ==
    ASSUME TInv, ReplaceUnderWay, NEW i \in Intents,
           \/ DrainNothing(i) \/ ForbidPlace(i) \/ SkipPlaced(i)
           \/ Cancel(i) \/ LookBeforeReplace(i) \/ ForbidReplace(i) \/ Replace(i)
    PROVE  Quiet
<1> DEFINE t == st.tickets[i]
<1>s. st \in EngineState /\ StateOK /\ BrokerOK /\ StateKeeps(st, st)
  BY StateKeepsSame DEF TInv, StateOK
<1>t. t \in Ticket /\ t.want_replace \in Int /\ Terminate(t, "FAILED") \in Ticket /\ Keeps(t, t)
  BY <1>s, StateParts, TicketParts, TicketSet, KeepsSame DEF TerminalStates
<1>u. WithTicket(st, i, t) = st
  BY <1>s, StateParts DEF WithTicket, EngineState
<1>d. pc = "drain" /\ i \in todo
  BY DEF DrainNothing, ForbidPlace, SkipPlaced, Cancel, LookBeforeReplace, ForbidReplace, Replace,
         Draining, Replacing, ReplaceUnderWay
<1>l. ForbidPlace(i) \/ SkipPlaced(i) \/ ForbidReplace(i) \/ Replace(i) => IsLive(t)
  BY DEF ForbidPlace, SkipPlaced, ForbidReplace, Replace, Draining, Replacing, ReplaceUnderWay,
         IsLive, IsPresent, IsTerminal
<1>1. CASE DrainNothing(i)
  BY <1>d, <1>t, <1>u, <1>1, SameOrdersKept, QuietTicket DEF DrainNothing
<1>2. CASE ForbidPlace(i) \/ ForbidReplace(i)
  <2>1. Keeps(t, Terminate(t, "FAILED"))
    BY <1>l, <1>t, <1>2, FieldsKeep DEF TerminalStates
  <2> QED BY <1>d, <1>t, <1>2, <2>1, SameOrdersKept, QuietTicket DEF ForbidPlace, ForbidReplace
<1>3. CASE SkipPlaced(i)
  <2> DEFINE u == [t EXCEPT !.state = "SENT"]
  <2>1. "SENT" \in TicketStates \ {"PENDING_PLACE", "ABSENT"}
    BY DEF TicketStates
  <2>2. u \in Ticket /\ Keeps(t, u)
    BY <1>l, <1>t, <1>3, <2>1, TicketSet, FieldsKeep
  <2>3. NextTicket(i, WithTicket(st, i, u)) /\ UNCHANGED broker_vars
    BY <1>3 DEF SkipPlaced, WithSent
  <2> HIDE DEF u
  <2> QED BY <1>d, <2>2, <2>3, SameOrdersKept, QuietTicket
<1>4. CASE Cancel(i)
  BY <1>d, <1>s, <1>t, <1>u, <1>4, BrokerCallsKeepOrders, QuietTicket DEF Cancel
<1>5. CASE LookBeforeReplace(i)
  <2>1. UNCHANGED <<st, pc, todo>> /\ UNCHANGED disk_vars /\ UNCHANGED broker_vars
    BY <1>5 DEF LookBeforeReplace
  <2> QED BY <1>s, <2>1, SameOrdersKept DEF Quiet, PassedKept, PhaseGoesOn, Saved, Early
<1>6. CASE Replace(i)
  <2> DEFINE u == [t EXCEPT !.qty = t.want_replace]
  <2>1. u \in Ticket /\ Keeps(t, u)
    BY <1>l, <1>t, <1>6, TicketSet, FieldsKeep
  <2>2. NextTicket(i, WithTicket(st, i, u))
    BY <1>6 DEF Replace, WithTicket
  <2>3. OrdersKept
    BY <1>s, <1>6, BrokerCallsKeepOrders DEF Replace
  <2> HIDE DEF u
  <2> QED BY <1>d, <2>1, <2>2, <2>3, QuietTicket
<1> QED BY <1>1, <1>2, <1>3, <1>4, <1>5, <1>6

LEMMA NothingQuiet == ASSUME UNCHANGED vars PROVE Quiet
<1>1. UNCHANGED <<st, pc, todo, disk_vars, broker_vars>>
  BY DEF vars, engine_vars
<1>2. StateKeeps(st, st')
  BY <1>1, StateKeepsSame
<1> QED BY <1>1, <1>2, SameOrdersKept DEF Quiet, PassedKept, PhaseGoesOn, Saved, Early

-----------------------------------------------------------------------------
(* New tickets.                                                             *)

\* Submitting or adopting: no order was sent for an intent without a ticket.
LEMMA NewTicketKeeps ==
    ASSUME TInv, TInv', PInv, NEW i \in Intents, NEW t \in Ticket, pc # "down",
           st.tickets[i].state = "ABSENT", CallUpdates(WithTicket(st, i, t)),
           t.state # "ABSENT", t.state = "PENDING_PLACE" => t.coid = i
    PROVE  PInv'
<1>s. st \in EngineState /\ st.tickets \in [Intents -> Ticket]
  BY StateParts DEF TInv, StateOK
<1>1. st'.tickets = [st.tickets EXCEPT ![i] = t] /\ st'.next_order_id = st.next_order_id
  BY <1>s, TicketReplaced DEF CallUpdates
<1>2. UNCHANGED disk_vars /\ UNCHANGED broker_vars /\ pc' = "persist"
  BY DEF CallUpdates
<1>3. ~(placed[i] > 0)
  BY DEF PInv, AllWellFormed, WellFormed, KnownInMemory
<1>4. AllWellFormed'
  <2>1. WellFormed(st)'
    BY <1>s, <1>1 DEF PInv, AllWellFormed, WellFormed
  <2> QED BY <1>2, <2>1 DEF PInv, AllWellFormed, WellFormed, disk_vars
<1>5. KnownInMemory'
  BY <1>s, <1>1, <1>2, <1>3 DEF PInv, KnownInMemory, broker_vars
<1>6. KnownOnDisk'
  BY <1>2 DEF PInv, KnownOnDisk, Recoverable, AtBroker, disk_vars, broker_vars
<1>7. ~Saved'
  BY <1>2 DEF Saved
<1> QED BY <1>2, <1>4, <1>5, <1>6, <1>7
        DEF PInv, OrderIdsPositive, PendingIsSaved, UnsavedBelowNext, NoDuplicatePlace,
            broker_vars

LEMMA NewTicketCalls ==
    ASSUME TInv, TInv', PInv, NEW i \in Intents, submit_intent(i) \/ adopt_order(i)
    PROVE  PInv'
<1>n. "PENDING_PLACE" \in TicketStates /\ "SENT" \in TicketStates
  BY DEF TicketStates
<1>1. CASE submit_intent(i)
  <2> DEFINE t == NewTicket(i, NoOid, OrderOf[i].qty, "PENDING_PLACE")
  <2>1. t \in Ticket
    BY <1>n, IntentsAssumption, NewIsTicket DEF NoOid
  <2>2. t.state = "PENDING_PLACE" /\ t.coid = i
    BY DEF NewTicket
  <2>3. CallUpdates(WithTicket(st, i, t)) /\ st.tickets[i].state = "ABSENT" /\ pc # "down"
    BY <1>1 DEF submit_intent, IsPresent
  <2> HIDE DEF t
  <2> QED BY <2>1, <2>2, <2>3, NewTicketKeeps
<1>2. CASE adopt_order(i)
  <2> DEFINE t == NewTicket(OidCoid(AdoptedAs[i]), AdoptedAs[i], OrderOf[i].qty, "SENT")
  <2>1. AdoptedAs[i] \in Nat /\ OidCoid(AdoptedAs[i]) \in Int
    BY <1>2, AdoptionAssumption DEF adopt_order, OidCoid
  <2>2. t \in Ticket
    BY <1>n, <2>1, IntentsAssumption, NewIsTicket
  <2>3. t.state = "SENT"
    BY DEF NewTicket
  <2>4. CallUpdates(WithTicket(st, i, t)) /\ st.tickets[i].state = "ABSENT" /\ pc # "down"
    BY <1>2 DEF adopt_order, IsPresent
  <2> HIDE DEF t
  <2> QED BY <2>2, <2>3, <2>4, NewTicketKeeps
<1> QED BY <1>1, <1>2

-----------------------------------------------------------------------------
(* The files, crashes and start-up.                                         *)

LEMMA PersistKeeps == ASSUME TInv, TInv', PInv, PersistState PROVE PInv'
<1>1. /\ UNCHANGED st /\ UNCHANGED broker_vars /\ state_file' = st /\ ledger_state' = st
      /\ pc = "persist"
  BY DEF PersistState
<1>2. \A i \in Intents : placed[i] > 0 => st.tickets[i].oid # NoOid
  BY <1>1 DEF PInv, KnownInMemory
<1>3. AllWellFormed'
  BY <1>1 DEF PInv, AllWellFormed, WellFormed
<1>4. KnownInMemory' /\ OrderIdsPositive' /\ NoDuplicatePlace'
  BY <1>1, <1>2 DEF PInv, KnownInMemory, OrderIdsPositive, NoDuplicatePlace, broker_vars
<1>5. KnownOnDisk'
  BY <1>1, <1>2 DEF KnownOnDisk, Recoverable, broker_vars
<1>6. PendingIsSaved'
  BY <1>1 DEF PendingIsSaved
<1>7. UnsavedBelowNext'
  BY <1>1, <1>2 DEF UnsavedBelowNext, Unsaved, broker_vars
<1> QED BY <1>3, <1>4, <1>5, <1>6, <1>7 DEF PInv

LEMMA FreshWellFormed == WellFormed(FreshState)
  BY BoundsAssumption DEF WellFormed, FreshState, AbsentTicket, NewTicket

LEMMA CrashKeeps ==
    ASSUME TInv, TInv', PInv, Crash \/ CrashInPersist \/ LoseStateFile
    PROVE  PInv'
<1>1. UNCHANGED broker_vars /\ UNCHANGED ledger_state /\ pc' = "down"
  BY DEF Crash, CrashInPersist, LoseStateFile, MemoryLost, disk_vars, engine_vars
<1>2. AllWellFormed'
  <2>1. WellFormed(st) /\ WellFormed(state_file) /\ WellFormed(ledger_state)
        /\ WellFormed(FreshState)
    BY FreshWellFormed DEF PInv, AllWellFormed
  <2>2. st' \in {st, FreshState} /\ state_file' \in {state_file, st, FreshState}
        /\ ledger_state' = ledger_state
    BY DEF Crash, CrashInPersist, LoseStateFile, MemoryLost, disk_vars, engine_vars
  <2> QED BY <2>1, <2>2 DEF AllWellFormed, WellFormed
<1>3. KnownOnDisk'
  <2> SUFFICES ASSUME NEW i \in Intents, placed[i] > 0
               PROVE  /\ state_exists' => Recoverable(state_file.tickets[i], i)'
                      /\ Recoverable(ledger_state.tickets[i], i)'
    BY <1>1 DEF KnownOnDisk, broker_vars
  <2>1. AtBroker(i)' <=> AtBroker(i)
    BY <1>1 DEF AtBroker, broker_vars
  <2>2. /\ state_exists => Recoverable(state_file.tickets[i], i)
        /\ Recoverable(ledger_state.tickets[i], i)
    BY DEF PInv, KnownOnDisk
  <2>3. CASE Crash
    BY <1>1, <2>1, <2>2, <2>3 DEF Crash, disk_vars, Recoverable
  <2>4. CASE CrashInPersist
    <3>1. st.tickets[i].oid # NoOid /\ state_file' = st
      BY <2>4 DEF CrashInPersist, PInv, KnownInMemory
    <3> QED BY <1>1, <2>1, <2>2, <3>1 DEF Recoverable
  <2>5. CASE LoseStateFile
    BY <1>1, <2>1, <2>2, <2>5 DEF LoseStateFile, Recoverable
  <2> QED BY <2>3, <2>4, <2>5
<1>4. ~Saved' /\ KnownInMemory'
  BY <1>1 DEF Saved, KnownInMemory
<1> QED BY <1>1, <1>2, <1>3, <1>4
        DEF PInv, OrderIdsPositive, PendingIsSaved, UnsavedBelowNext, NoDuplicatePlace,
            broker_vars

\* The handshake recovers the order id of every order that can be recovered.
LEMMA HandshakeRecovers ==
    ASSUME BrokerOK, OrderIdsPositive, NEW s \in EngineState, NEW i \in Intents
    PROVE  /\ Recoverable(s.tickets[i], i) => Handshake(s).tickets[i].oid # NoOid
           /\ Handshake(s).tickets[i].coid = s.tickets[i].coid
           /\ Handshake(s).tickets[i].state \in {"PENDING_PLACE", "ABSENT"} =>
                 Handshake(s).tickets[i] = s.tickets[i]
<1> DEFINE t == s.tickets[i]
           chosen == CHOOSE oid \in OrdersOf(t) : \A other \in OrdersOf(t) : oid <= other
<1>1. t \in Ticket /\ i # NoCoid
  BY StateParts, IntentsAssumption DEF NoCoid
<1>2. Handshake(s).tickets[i] =
         IF IsLive(t) /\ t.oid = NoOid /\ OrdersOf(t) # {}
         THEN [t EXCEPT !.oid = chosen, !.state = "SENT"] ELSE t
  BY DEF Handshake, EngineState
<1>3. OrdersOf(t) # {} => chosen # NoOid
  <2>1. OrdersOf(t) \in SUBSET Nat /\ 0 \notin OrdersOf(t)
    BY DEF OrdersOf, BrokerOK, OrderIdsPositive
  <2> QED BY <2>1, LeastOrder DEF NoOid
<1>4. t.coid = i /\ AtBroker(i) => OrdersOf(t) # {}
  BY <1>1 DEF AtBroker, OrdersOf
<1> HIDE DEF t, chosen
<1>5. CASE IsLive(t) /\ t.oid = NoOid /\ OrdersOf(t) # {}
  <2>1. /\ Handshake(s).tickets[i].oid = chosen /\ Handshake(s).tickets[i].coid = t.coid
        /\ Handshake(s).tickets[i].state = "SENT"
    BY <1>1, <1>2, <1>5 DEF Ticket
  <2> QED BY <1>3, <1>5, <2>1 DEF t
<1>6. CASE ~(IsLive(t) /\ t.oid = NoOid /\ OrdersOf(t) # {})
  BY <1>2, <1>4, <1>6 DEF t, Recoverable
<1> QED BY <1>5, <1>6

LEMMA StartKeeps == ASSUME TInv, TInv', PInv, Start PROVE PInv'
<1> DEFINE s == Handshake(LoadedState)
<1>1. UNCHANGED disk_vars /\ UNCHANGED broker_vars /\ pc' = "persist"
  BY DEF Start
<1>2. LoadedState \in EngineState /\ s \in EngineState /\ BrokerOK /\ OrderIdsPositive
  BY LoadedTyped, HandshakeTyped DEF TInv, PInv
<1>3. s.next_order_id = LoadedState.next_order_id
  BY DEF Handshake, EngineState
<1>4. st'.tickets = s.tickets /\ st'.next_order_id = s.next_order_id
  <2>1. PICK cooldown : st' = [s EXCEPT !.cooldown = cooldown]
    BY DEF Start
  <2> HIDE DEF s
  <2> QED BY <1>2, <2>1 DEF EngineState
<1>5. WellFormed(LoadedState)
  BY DEF PInv, AllWellFormed, LoadedState
<1>6. WellFormed(st)'
  BY <1>2, <1>3, <1>4, <1>5, HandshakeRecovers DEF WellFormed
<1>7. KnownInMemory'
  <2> SUFFICES ASSUME NEW i \in Intents, placed[i] > 0
               PROVE  st'.tickets[i].oid # NoOid
    BY <1>1 DEF KnownInMemory, broker_vars
  <2>1. Recoverable(LoadedState.tickets[i], i)
    BY DEF PInv, KnownOnDisk, LoadedState
  <2> QED BY <1>2, <1>4, <2>1, HandshakeRecovers
<1>8. AllWellFormed' /\ KnownOnDisk'
  BY <1>1, <1>6 DEF PInv, AllWellFormed, WellFormed, KnownOnDisk, Recoverable, AtBroker,
                    disk_vars, broker_vars
<1>9. ~Saved'
  BY <1>1 DEF Saved
<1> QED BY <1>1, <1>7, <1>8, <1>9
        DEF PInv, OrderIdsPositive, PendingIsSaved, UnsavedBelowNext, NoDuplicatePlace,
            broker_vars

-----------------------------------------------------------------------------
(* Placing an order.                                                        *)

\* The order of intent i has reached the broker under the next order id, and the
\* engine's memory, if not yet its files, knows that id.
LEMMA PlacedKeeps ==
    ASSUME TInv, TInv', PInv, NEW i \in Intents, pc = "drain",
           st.tickets[i].state = "PENDING_PLACE", st.tickets[i].oid = NoOid,
           BrokerPlaces(i, st.next_order_id), UNCHANGED disk_vars,
           st'.next_order_id = st.next_order_id + 1,
           \A j \in Intents \ {i} : st'.tickets[j] = st.tickets[j],
           st'.tickets[i].oid = st.next_order_id,
           st'.tickets[i].coid = st.tickets[i].coid,
           st'.tickets[i].state \in {"SENT", "PENDING_PLACE"},
           Saved' => st'.tickets[i].state = "SENT"
    PROVE  PInv'
<1> DEFINE n == st.next_order_id
<1>n. n \in Nat \ {0}
  BY StateParts DEF TInv, StateOK, PInv, AllWellFormed, WellFormed
<1>p. placed \in [Intents -> Nat] /\ DOMAIN orders \subseteq Nat
  BY DEF TInv, BrokerOK
<1>1. placed[i] = 0 /\ placed' = [placed EXCEPT ![i] = 1] /\ Saved
  <2>1. placed[i] = 0
    BY <1>p DEF PInv, KnownInMemory
  <2>2. placed' = [placed EXCEPT ![i] = placed[i] + 1]
    BY DEF BrokerPlaces
  <2> QED BY <2>1, <2>2 DEF Saved
<1>2. /\ DOMAIN orders' = DOMAIN orders \cup {n}
      /\ orders'[n].coid = i
      /\ \A oid \in DOMAIN orders \ {n} : orders'[oid] = orders[oid]
  <2>1. st.tickets[i].coid = i
    BY DEF PInv, AllWellFormed, WellFormed
  <2> QED BY <2>1 DEF BrokerPlaces
<1> HIDE DEF n
<1>s. st'.next_order_id = n + 1 /\ st'.tickets[i].oid = n
  BY DEF n
<1>3. AllWellFormed'
  <2>1. WellFormed(st)'
    BY <1>n, <1>s DEF PInv, AllWellFormed, WellFormed
  <2> QED BY <2>1 DEF PInv, AllWellFormed, WellFormed, disk_vars
<1>4. OrderIdsPositive'
  BY <1>n, <1>2 DEF PInv, OrderIdsPositive
<1>5. KnownInMemory'
  <2> SUFFICES ASSUME NEW j \in Intents, placed'[j] > 0 PROVE st'.tickets[j].oid # NoOid
    BY DEF KnownInMemory
  <2>1. CASE j = i
    BY <1>n, <1>s, <2>1 DEF NoOid
  <2>2. CASE j # i
    BY <1>p, <1>1, <2>2 DEF PInv, KnownInMemory
  <2> QED BY <2>1, <2>2
\* An order sent before that some file does not know of is still there.
<1>6. ASSUME NEW j \in Intents, j # i, placed'[j] > 0, Unsaved(j)
      PROVE  \E oid \in DOMAIN orders' : orders'[oid].coid = j /\ oid < n
  <2>1. placed[j] > 0
    BY <1>p, <1>1, <1>6
  <2>2. PICK oid \in DOMAIN orders : orders[oid].coid = j /\ oid < n
    BY <1>1, <1>6, <2>1 DEF PInv, UnsavedBelowNext, n
  <2>3. oid # n
    BY <1>n, <1>p, <2>2
  <2> QED BY <1>2, <2>2, <2>3
<1>7. KnownOnDisk'
  <2> SUFFICES ASSUME NEW j \in Intents, placed'[j] > 0
               PROVE  /\ state_exists => Recoverable(state_file.tickets[j], j)'
                      /\ Recoverable(ledger_state.tickets[j], j)'
    BY DEF KnownOnDisk, disk_vars
  <2>1. CASE j = i
    <3>1. state_file.tickets[i].state = "PENDING_PLACE"
          /\ ledger_state.tickets[i].state = "PENDING_PLACE"
      BY <1>1 DEF PInv, PendingIsSaved
    <3>2. state_file.tickets[i].coid = i /\ ledger_state.tickets[i].coid = i
      BY <3>1 DEF PInv, AllWellFormed, WellFormed
    <3>3. AtBroker(i)'
      BY <1>2 DEF AtBroker
    <3> QED BY <2>1, <3>1, <3>2, <3>3
            DEF Recoverable, IsLive, IsPresent, IsTerminal, disk_vars
  <2>2. CASE j # i /\ Unsaved(j)
    <3>1. AtBroker(j)'
      BY <1>6, <2>2 DEF AtBroker
    <3>2. placed[j] > 0
      BY <1>p, <1>1, <2>2
    <3>3. Recoverable(ledger_state.tickets[j], j)
          /\ (state_exists => Recoverable(state_file.tickets[j], j))
      BY <3>2 DEF PInv, KnownOnDisk
    <3> QED BY <3>1, <3>3 DEF Recoverable, disk_vars
  <2>3. CASE j # i /\ ~Unsaved(j)
    BY <2>3 DEF Unsaved, Recoverable, disk_vars
  <2> QED BY <2>1, <2>2, <2>3
<1>8. PendingIsSaved'
  BY <1>1 DEF PInv, PendingIsSaved, disk_vars
<1>9. UnsavedBelowNext'
  <2> SUFFICES ASSUME Saved', NEW j \in Intents, placed'[j] > 0, Unsaved(j)'
               PROVE  \E oid \in DOMAIN orders' :
                         orders'[oid].coid = j /\ oid < n + 1
    BY <1>s DEF UnsavedBelowNext
  <2>1. CASE j = i
    BY <1>n, <1>2, <2>1
  <2>2. CASE j # i
    <3>1. Unsaved(j)
      BY DEF Unsaved, disk_vars
    <3>2. PICK oid \in DOMAIN orders' : orders'[oid].coid = j /\ oid < n
      BY <1>6, <2>2, <3>1
    <3>3. oid < n + 1
      BY <1>n, <1>p, <1>2, <3>2
    <3> QED BY <3>2, <3>3
  <2> QED BY <2>1, <2>2
<1>10. NoDuplicatePlace'
  BY <1>p, <1>1 DEF PInv, NoDuplicatePlace
<1> QED BY <1>3, <1>4, <1>5, <1>7, <1>8, <1>9, <1>10 DEF PInv

LEMMA PlaceKeeps ==
    ASSUME TInv, TInv', PInv, NEW i \in Intents, Place(i) \/ PlaceRaises(i)
    PROVE  PInv'
<1>s. StateOK /\ st \in EngineState /\ BrokerOK /\ st.tickets[i] \in Ticket
  BY StateParts DEF TInv, StateOK
<1>t. st.tickets[i].state = "PENDING_PLACE" /\ st.tickets[i].oid = NoOid /\ pc = "drain"
  BY DEF Place, PlaceRaises, Draining
<1>o. /\ WithOrderId(i) \in EngineState
      /\ WithOrderId(i).next_order_id = st.next_order_id + 1
      /\ \A j \in Intents \ {i} : WithOrderId(i).tickets[j] = st.tickets[j]
      /\ WithOrderId(i).tickets[i].oid = st.next_order_id
      /\ WithOrderId(i).tickets[i].coid = st.tickets[i].coid
      /\ WithOrderId(i).tickets[i].state = "PENDING_PLACE"
  BY <1>s, <1>t, OrderIdTyped, OrderIdParts DEF Ticket
<1>1. CASE Place(i)
  <2>1. st' = WithSent(WithOrderId(i), i) /\ UNCHANGED disk_vars /\ UNCHANGED pc
        /\ BrokerPlaces(i, st.next_order_id)
    BY <1>1 DEF Place, NextTicket
  <2>2. /\ st'.next_order_id = WithOrderId(i).next_order_id
        /\ \A j \in Intents \ {i} : st'.tickets[j] = WithOrderId(i).tickets[j]
        /\ st'.tickets[i] = [WithOrderId(i).tickets[i] EXCEPT !.state = "SENT"]
    <3> HIDE DEF WithOrderId
    <3> QED BY <1>o, <2>1, StateParts DEF WithSent, WithTicket, EngineState
  <2>3. WithOrderId(i).tickets[i] \in Ticket
    BY <1>o, StateParts
  <2>4. /\ st'.tickets[i].oid = st.next_order_id
        /\ st'.tickets[i].coid = st.tickets[i].coid /\ st'.tickets[i].state = "SENT"
    BY <1>o, <2>2, <2>3 DEF Ticket
  <2>5. /\ st'.next_order_id = st.next_order_id + 1
        /\ \A j \in Intents \ {i} : st'.tickets[j] = st.tickets[j]
    BY <1>o, <2>2
  <2> HIDE DEF WithOrderId
  <2> QED BY <1>t, <2>1, <2>4, <2>5, PlacedKeeps
<1>2. CASE PlaceRaises(i)
  <2>1. StepRaises(WithOrderId(i))
    BY <1>2 DEF PlaceRaises
  <2>2. st'.tickets = WithOrderId(i).tickets /\ UNCHANGED disk_vars
        /\ st'.next_order_id = WithOrderId(i).next_order_id /\ pc' = "persist"
    BY <1>o, <2>1 DEF StepRaises, EngineState
  <2>3. CASE BrokerPlaces(i, st.next_order_id)
    BY <1>t, <1>o, <2>2, <2>3, PlacedKeeps DEF Saved
  <2>4. CASE UNCHANGED broker_vars
    <3>1. st.next_order_id \in Nat
      BY <1>s, StateParts
    <3>2. \A j \in Intents : Evolves(st.tickets[j], WithOrderId(i).tickets[j])
      BY <1>t, <1>o, EvolvesSame DEF Evolves
    <3>3. StateEvolves(st, st')
      BY <1>o, <2>2, <3>1, <3>2 DEF StateEvolves
    <3> QED BY <1>t, <2>2, <2>4, <3>3, SameOrdersKept, QuietStep DEF Saved
  <2> QED BY <1>2, <2>3, <2>4 DEF PlaceRaises
<1> QED BY <1>1, <1>2

-----------------------------------------------------------------------------

LEMMA PlacementInit == Init => PInv
<1> SUFFICES ASSUME Init PROVE PInv
  OBVIOUS
<1>1. AllWellFormed /\ OrderIdsPositive
  BY FreshWellFormed, InitialOrdersAssumption DEF Init, AllWellFormed, OrderIdsPositive
<1>2. \A i \in Intents : placed[i] = 0
  BY DEF Init
<1>3. ~Saved
  BY DEF Init, Saved
<1> QED BY <1>1, <1>2, <1>3
        DEF PInv, KnownInMemory, KnownOnDisk, PendingIsSaved, UnsavedBelowNext,
            NoDuplicatePlace

LEMMA ReplaceInit == Init => ReplaceUnderWay
  BY DEF Init, ReplaceUnderWay

LEMMA ReplaceStep == TInv /\ ReplaceUnderWay /\ [Next]_vars => ReplaceUnderWay'
<1> SUFFICES ASSUME TInv, ReplaceUnderWay, [Next]_vars PROVE ReplaceUnderWay'
  OBVIOUS
<1>1. CASE UNCHANGED replace_seen /\ pc # "drain"
  BY <1>1 DEF ReplaceUnderWay
<1>2. CASE replace_seen' = <<>>
  BY <1>2 DEF ReplaceUnderWay
<1>3. CASE UNCHANGED engine_vars
  BY <1>3 DEF ReplaceUnderWay, engine_vars
<1>4. CASE CooldownExpires
  <2>1. st'.tickets = st.tickets /\ UNCHANGED <<pc, todo, replace_seen>>
    BY <1>4 DEF CooldownExpires, TInv, StateOK, EngineState
  <2> QED BY <2>1 DEF ReplaceUnderWay
<1>5. ASSUME NEW i \in Intents, LookBeforeReplace(i) PROVE ReplaceUnderWay'
  <2>1. /\ replace_seen' = <<i, positions>> /\ UNCHANGED <<st, pc, todo>>
        /\ pc = "drain" /\ i \in todo /\ st.tickets[i].state = "REPLACE_REQUESTED"
    BY <1>5 DEF LookBeforeReplace, Draining
  <2> QED BY <2>1 DEF ReplaceUnderWay
<1>6. CASE Start \/ RunnerCalls \/ BeginStep
  BY <1>1, <1>6 DEF Start, RunnerCalls, BeginStep, submit_intent, adopt_order, request_cancel,
                    request_replace_qty, CallUpdates
<1>7. CASE StepWork
  <2>1. CASE PollEvents \/ DropSeenFill \/ OrphanEvent \/ ApplyRequests \/ Reconcile \/ PersistState
    BY <1>1, <2>1 DEF PollEvents, DropSeenFill, OrphanEvent, ApplyRequests, Reconcile, PersistState
  <2>2. CASE EndDrain
    BY <1>2, <2>2 DEF EndDrain, ReplaceUnderWay
  <2>3. ASSUME NEW i \in Intents,
               \/ DrainNothing(i) \/ ForbidPlace(i) \/ SkipPlaced(i) \/ Place(i)
               \/ Cancel(i) \/ ForbidReplace(i) \/ Replace(i)
        PROVE  ReplaceUnderWay'
    BY <1>2, <2>3 DEF DrainNothing, ForbidPlace, SkipPlaced, Place, Cancel, ForbidReplace, Replace,
                      NextTicket
  <2>4. ASSUME NEW i \in Intents, ApplyEvent(i) PROVE ReplaceUnderWay'
    BY <1>1, <2>4 DEF ApplyEvent
  <2> QED BY <1>5, <1>7, <2>1, <2>2, <2>3, <2>4 DEF StepWork
<1>8. CASE Raises
  BY <1>2, <1>8 DEF Raises, SnapshotOrPollRaises, LastFillRaises, PlaceRaises, CancelRaises,
                    ReplaceRaises, StepRaises
<1>9. CASE Crash \/ CrashInPersist
  BY <1>2, <1>9 DEF Crash, CrashInPersist, MemoryLost
<1>10. CASE LoseStateFile \/ Broker \/ MoveFlag
  BY <1>3, <1>10 DEF LoseStateFile, Broker, BrokerAck, BrokerReject, BrokerFill, Resend, MoveFlag
<1>11. CASE UNCHANGED vars
  BY <1>3, <1>11 DEF vars
<1> QED BY <1>4, <1>6, <1>7, <1>8, <1>9, <1>10, <1>11 DEF Next

\* Submitting, adopting, placing, starting, persisting and crashing; every other
\* step is quiet.
Loud ==
    \/ \E i \in Intents : submit_intent(i) \/ adopt_order(i) \/ Place(i) \/ PlaceRaises(i)
    \/ Start \/ PersistState
    \/ Crash \/ CrashInPersist \/ LoseStateFile

LEMMA LoudOrQuiet == ASSUME TInv, ReplaceUnderWay, [Next]_vars PROVE Loud \/ Quiet
<1>1. CASE RunnerCalls
  BY <1>1, RequestCallsQuiet DEF RunnerCalls, Loud
<1>2. CASE BeginStep \/ CooldownExpires \/ MoveFlag
  BY <1>2, PhasesQuiet
<1>3. CASE StepWork
  BY <1>3, PhasesQuiet, EventsQuiet, RequestsQuiet, DrainQuiet DEF StepWork, Loud
<1>4. CASE Raises
  BY <1>4, SnapshotRaiseQuiet, RaisesAreQuiet DEF Raises, Loud
<1>5. CASE Broker
  BY <1>5, BrokerQuiet
<1>6. CASE UNCHANGED vars
  BY <1>6, NothingQuiet
<1> QED BY <1>1, <1>2, <1>3, <1>4, <1>5, <1>6 DEF Next, Loud

LEMMA PlacementStep == TInv /\ ReplaceUnderWay /\ PInv /\ [Next]_vars => PInv'
<1> SUFFICES ASSUME TInv, ReplaceUnderWay, PInv, [Next]_vars PROVE PInv'
  OBVIOUS
<1>t. TInv'
  BY TypeStep
<1>1. CASE Loud
  BY <1>t, <1>1, NewTicketCalls, PlaceKeeps, StartKeeps, PersistKeeps, CrashKeeps DEF Loud
<1>2. CASE Quiet
  BY <1>t, <1>2, QuietKeeps
<1> QED BY <1>1, <1>2, LoudOrQuiet

LEMMA ReplaceInvariant == Spec => []ReplaceUnderWay
  BY TypesInvariant, ReplaceInit, ReplaceStep, PTL DEF Spec

LEMMA PlacementInvariant == Spec => []PInv
  BY TypesInvariant, ReplaceInvariant, PlacementInit, PlacementStep, PTL DEF Spec

\* The broker receives the order of an intent at most once (_drain_actions,
\* _handshake_with_snapshot, _persist_state), however often the engine crashes,
\* loses state.json, or sees an adapter call raise.
THEOREM NoDuplicates == Spec => []NoDuplicatePlace
<1>1. PInv => NoDuplicatePlace
  BY DEF PInv
<1> QED BY <1>1, PlacementInvariant, PTL

-----------------------------------------------------------------------------
(* What a restart would find.                                               *)

\* A ticket that ended on disk is in memory as it is on disk.
EndKept ==
    pc # "down" =>
        \A i \in Intents :
            IsTerminal(LoadedState.tickets[i]) => st.tickets[i] = LoadedState.tickets[i]

\* What a restart makes of the ticket of one intent.
LEMMA StartTicket ==
    ASSUME TInv, OrderIdsPositive, Start, NEW i \in Intents
    PROVE  \/ st'.tickets[i] = LoadedState.tickets[i]
           \/ /\ IsLive(LoadedState.tickets[i]) /\ LoadedState.tickets[i].oid = NoOid
              /\ OrdersOf(LoadedState.tickets[i]) # {}
              /\ st'.tickets[i].oid # NoOid
              /\ st'.tickets[i].coid = LoadedState.tickets[i].coid
              /\ IsLive(st'.tickets[i])
<1> DEFINE t == LoadedState.tickets[i]
           s == Handshake(LoadedState)
           chosen == CHOOSE oid \in OrdersOf(t) : \A other \in OrdersOf(t) : oid <= other
<1>1. LoadedState \in EngineState /\ s \in EngineState /\ t \in Ticket /\ BrokerOK
  BY LoadedTyped, HandshakeTyped, StateParts DEF TInv
<1>2. st'.tickets = s.tickets
  <2>1. PICK cooldown : st' = [s EXCEPT !.cooldown = cooldown]
    BY DEF Start
  <2> HIDE DEF s
  <2> QED BY <1>1, <2>1 DEF EngineState
<1>3. s.tickets[i] = IF IsLive(t) /\ t.oid = NoOid /\ OrdersOf(t) # {}
                     THEN [t EXCEPT !.oid = chosen, !.state = "SENT"] ELSE t
  BY <1>1 DEF Handshake, EngineState
<1>4. OrdersOf(t) # {} => chosen # NoOid
  <2>1. OrdersOf(t) \in SUBSET Nat /\ 0 \notin OrdersOf(t)
    BY <1>1 DEF OrdersOf, BrokerOK, OrderIdsPositive
  <2> QED BY <2>1, LeastOrder DEF NoOid
<1> HIDE DEF s, chosen
<1>5. CASE IsLive(t) /\ t.oid = NoOid /\ OrdersOf(t) # {}
  <2>1. st'.tickets[i] = [t EXCEPT !.oid = chosen, !.state = "SENT"]
    BY <1>2, <1>3, <1>5
  <2> HIDE DEF t
  <2>2. /\ st'.tickets[i].oid = chosen /\ st'.tickets[i].coid = t.coid
        /\ st'.tickets[i].state = "SENT"
    BY <1>1, <2>1 DEF Ticket
  <2>3. IsLive(st'.tickets[i])
    BY <2>2 DEF IsLive, IsPresent, IsTerminal
  <2> QED BY <1>4, <1>5, <2>2, <2>3 DEF t
<1>6. CASE ~(IsLive(t) /\ t.oid = NoOid /\ OrdersOf(t) # {})
  BY <1>2, <1>3, <1>6
<1> QED BY <1>5, <1>6

LEMMA StartNextId ==
    ASSUME TInv, Start
    PROVE  st'.next_order_id = LoadedState.next_order_id
<1> DEFINE s == Handshake(LoadedState)
<1>1. LoadedState \in EngineState /\ s \in EngineState
  BY LoadedTyped, HandshakeTyped DEF TInv
<1>2. s.next_order_id = LoadedState.next_order_id
  BY <1>1 DEF Handshake, EngineState
<1>3. PICK cooldown : st' = [s EXCEPT !.cooldown = cooldown]
  BY DEF Start
<1> HIDE DEF s
<1> QED BY <1>1, <1>2, <1>3 DEF EngineState

\* Only _persist_state changes what a restart would load, as long as the files stay.
LEMMA LoadedChanges ==
    ASSUME ~MayLoseStateFile, Loud \/ Quiet
    PROVE  \/ UNCHANGED LoadedState
           \/ PersistState /\ LoadedState' = st
           \/ CrashInPersist /\ LoadedState' = st
  BY DEF Loud, Quiet, submit_intent, adopt_order, CallUpdates, Place, PlaceRaises, NextTicket,
         StepRaises, Start, PersistState, Crash, CrashInPersist, LoseStateFile, disk_vars,
         LoadedState

\* What the calls and sends that are not quiet do to the tickets.
LEMMA NewTicketParts ==
    ASSUME TInv, NEW i \in Intents, submit_intent(i) \/ adopt_order(i)
    PROVE  /\ pc = "idle" /\ pc' = "persist" /\ UNCHANGED disk_vars /\ UNCHANGED broker_vars
           /\ ~IsPresent(st.tickets[i]) /\ IsLive(st'.tickets[i])
           /\ i \in DOMAIN AdoptedAs <=> st'.tickets[i].oid # NoOid
           /\ i \in DOMAIN AdoptedAs => st'.tickets[i].oid = AdoptedAs[i]
           /\ i \notin DOMAIN AdoptedAs => st'.tickets[i].coid = i
           /\ \A j \in Intents \ {i} : st'.tickets[j] = st.tickets[j]
           /\ st'.next_order_id = st.next_order_id
<1>s. st \in EngineState /\ st.tickets \in [Intents -> Ticket]
  BY StateParts DEF TInv, StateOK
<1>n. "PENDING_PLACE" \in TicketStates /\ "SENT" \in TicketStates
  BY DEF TicketStates
<1>1. CASE submit_intent(i)
  <2> DEFINE t == NewTicket(i, NoOid, OrderOf[i].qty, "PENDING_PLACE")
  <2>1. t \in Ticket /\ t.oid = NoOid /\ t.coid = i /\ IsLive(t)
    BY <1>n, IntentsAssumption, NewIsTicket DEF NoOid, NewTicket, IsLive, IsPresent, IsTerminal
  <2>2. CallUpdates(WithTicket(st, i, t)) /\ ~IsPresent(st.tickets[i]) /\ pc = "idle"
        /\ i \notin DOMAIN AdoptedAs
    BY <1>1 DEF submit_intent
  <2> HIDE DEF t
  <2>3. st'.tickets = [st.tickets EXCEPT ![i] = t] /\ st'.next_order_id = st.next_order_id
    BY <1>s, <2>1, <2>2, TicketReplaced DEF CallUpdates
  <2> QED BY <1>s, <2>1, <2>2, <2>3 DEF CallUpdates
<1>2. CASE adopt_order(i)
  <2> DEFINE t == NewTicket(OidCoid(AdoptedAs[i]), AdoptedAs[i], OrderOf[i].qty, "SENT")
  <2>1. AdoptedAs[i] \in Nat \ {0} /\ OidCoid(AdoptedAs[i]) \in Int
    BY <1>2, AdoptionAssumption DEF adopt_order, OidCoid
  <2>2. t \in Ticket /\ t.oid = AdoptedAs[i] /\ t.oid # NoOid /\ IsLive(t)
    BY <1>n, <2>1, IntentsAssumption, NewIsTicket
       DEF NoOid, NewTicket, IsLive, IsPresent, IsTerminal
  <2>3. CallUpdates(WithTicket(st, i, t)) /\ ~IsPresent(st.tickets[i]) /\ pc = "idle"
        /\ i \in DOMAIN AdoptedAs
    BY <1>2 DEF adopt_order
  <2> HIDE DEF t
  <2>4. st'.tickets = [st.tickets EXCEPT ![i] = t] /\ st'.next_order_id = st.next_order_id
    BY <1>s, <2>2, <2>3, TicketReplaced DEF CallUpdates
  <2> QED BY <1>s, <2>2, <2>3, <2>4 DEF CallUpdates
<1> QED BY <1>1, <1>2

LEMMA PlaceParts ==
    ASSUME TInv, NEW i \in Intents, Place(i) \/ PlaceRaises(i)
    PROVE  /\ pc = "drain" /\ pc' # "down" /\ UNCHANGED disk_vars
           /\ st.tickets[i].state = "PENDING_PLACE" /\ st.tickets[i].oid = NoOid
           /\ \A j \in Intents \ {i} : st'.tickets[j] = st.tickets[j]
           /\ st'.tickets[i].oid = st.next_order_id
           /\ st'.tickets[i].coid = st.tickets[i].coid
           /\ IsLive(st'.tickets[i])
           /\ st'.next_order_id = st.next_order_id + 1
<1>s. StateOK /\ st \in EngineState /\ st.tickets[i] \in Ticket
  BY StateParts DEF TInv, StateOK
<1>t. st.tickets[i].state = "PENDING_PLACE" /\ st.tickets[i].oid = NoOid /\ pc = "drain"
  BY DEF Place, PlaceRaises, Draining
<1>o. /\ WithOrderId(i) \in EngineState /\ WithOrderId(i).tickets[i] \in Ticket
      /\ WithOrderId(i).next_order_id = st.next_order_id + 1
      /\ \A j \in Intents \ {i} : WithOrderId(i).tickets[j] = st.tickets[j]
      /\ WithOrderId(i).tickets[i].oid = st.next_order_id
      /\ WithOrderId(i).tickets[i].coid = st.tickets[i].coid
      /\ WithOrderId(i).tickets[i].state = "PENDING_PLACE"
  <2>1. WithOrderId(i) \in EngineState
    BY ONLY <1>s, i \in Intents, OrderIdTyped
  <2>2. WithOrderId(i).tickets[i] \in Ticket
    BY ONLY <2>1, i \in Intents, StateParts
  <2>3. /\ WithOrderId(i).next_order_id = st.next_order_id + 1
        /\ \A j \in Intents \ {i} : WithOrderId(i).tickets[j] = st.tickets[j]
        /\ WithOrderId(i).tickets[i] = [st.tickets[i] EXCEPT !.oid = st.next_order_id]
    BY ONLY <1>s, i \in Intents, OrderIdParts
  <2>4. /\ WithOrderId(i).tickets[i].oid = st.next_order_id
        /\ WithOrderId(i).tickets[i].coid = st.tickets[i].coid
        /\ WithOrderId(i).tickets[i].state = "PENDING_PLACE"
    BY ONLY <1>s, <1>t, <2>3 DEF Ticket
  <2> QED BY ONLY <2>1, <2>2, <2>3, <2>4
<1> HIDE DEF WithOrderId
<1>1. CASE Place(i)
  <2>1. st' = WithSent(WithOrderId(i), i) /\ UNCHANGED disk_vars /\ UNCHANGED pc
    BY <1>1 DEF Place, NextTicket
  <2>2. /\ st'.next_order_id = WithOrderId(i).next_order_id
        /\ \A j \in Intents \ {i} : st'.tickets[j] = WithOrderId(i).tickets[j]
        /\ st'.tickets[i] = [WithOrderId(i).tickets[i] EXCEPT !.state = "SENT"]
    BY <1>o, <2>1, StateParts DEF WithSent, WithTicket, EngineState
  <2>3. /\ st'.tickets[i].oid = st.next_order_id
        /\ st'.tickets[i].coid = st.tickets[i].coid /\ st'.tickets[i].state = "SENT"
    BY <1>o, <2>2 DEF Ticket
  <2> QED BY <1>t, <1>o, <2>1, <2>2, <2>3 DEF IsLive, IsPresent, IsTerminal
<1>2. CASE PlaceRaises(i)
  <2>1. st'.tickets = WithOrderId(i).tickets /\ UNCHANGED disk_vars /\ pc' = "persist"
        /\ st'.next_order_id = WithOrderId(i).next_order_id
    BY <1>o, <1>2 DEF PlaceRaises, StepRaises, EngineState
  <2> QED BY <1>t, <1>o, <2>1 DEF IsLive, IsPresent, IsTerminal
<1> QED BY <1>1, <1>2

LEMMA EndKeptStep ==
    ASSUME ~MayLoseStateFile, TInv, ReplaceUnderWay, PInv, EndKept, [Next]_vars
    PROVE  EndKept'
<1> SUFFICES ASSUME pc' # "down", NEW i \in Intents, IsTerminal(LoadedState'.tickets[i])
             PROVE  st'.tickets[i] = LoadedState'.tickets[i]
  BY DEF EndKept
<1>l. \/ UNCHANGED LoadedState
      \/ PersistState /\ LoadedState' = st
      \/ CrashInPersist /\ LoadedState' = st
  BY LoudOrQuiet, LoadedChanges
<1>1. CASE PersistState \/ Crash \/ CrashInPersist \/ LoseStateFile
  BY <1>1, <1>l DEF PersistState, Crash, CrashInPersist, LoseStateFile, MemoryLost, LoadedState
<1>2. CASE Quiet /\ ~PersistState /\ ~CrashInPersist
  <2>1. pc # "down" /\ Keeps(st.tickets[i], st'.tickets[i]) /\ UNCHANGED LoadedState
    BY <1>2, <1>l DEF Quiet, PhaseGoesOn, StateKeeps
  <2>2. IsTerminal(LoadedState.tickets[i])
    BY <2>1
  <2> QED BY <2>1, <2>2 DEF EndKept, Keeps
<1>3. CASE Start
  <2>1. UNCHANGED LoadedState
    BY <1>3 DEF Start, disk_vars, LoadedState
  <2> QED BY <1>3, <2>1, StartTicket DEF PInv, IsLive
<1>4. ASSUME NEW j \in Intents, submit_intent(j) \/ adopt_order(j) \/ Place(j) \/ PlaceRaises(j)
      PROVE  st'.tickets[i] = LoadedState'.tickets[i]
  <2>1. /\ pc # "down" /\ UNCHANGED disk_vars
        /\ ~IsTerminal(st.tickets[j])
        /\ j # i => st'.tickets[i] = st.tickets[i]
    BY <1>4, NewTicketParts, PlaceParts DEF IsTerminal, IsPresent
  <2>2. UNCHANGED LoadedState
    BY <2>1 DEF disk_vars, LoadedState
  <2>3. st.tickets[i] = LoadedState.tickets[i] /\ IsTerminal(st.tickets[i])
    BY <2>1, <2>2 DEF EndKept
  <2> QED BY <2>1, <2>2, <2>3
<1> QED BY <1>1, <1>2, <1>3, <1>4, LoudOrQuiet DEF Loud

\* A ticket that was recorded as terminal stays as it is, whatever crashes, comes
\* late or raises (_handshake_with_snapshot, _apply_event, _drain_actions), as long
\* as state.json is not lost: the ledger's snapshot may be older.
THEOREM EndsAreFinal == ASSUME ~MayLoseStateFile PROVE Spec => RecordedEndIsFinal
<1>1. Init => EndKept
  BY DEF Init, EndKept
<1>2. Spec => []EndKept
  BY <1>1, EndKeptStep, TypesInvariant, ReplaceInvariant, PlacementInvariant, PTL DEF Spec
<1>3. ASSUME TInv, ReplaceUnderWay, EndKept, [Next]_vars, NEW i \in Intents,
             IsTerminal(LoadedState.tickets[i])
      PROVE  LoadedState'.tickets[i] = LoadedState.tickets[i]
  <2>1. \/ UNCHANGED LoadedState
        \/ pc = "persist" /\ LoadedState' = st
    BY <1>3, LoudOrQuiet, LoadedChanges DEF PersistState, CrashInPersist
  <2> QED BY <1>3, <2>1 DEF EndKept
<1>4. TInv /\ ReplaceUnderWay /\ EndKept /\ [Next]_vars =>
        [\A i \in Intents : IsTerminal(LoadedState.tickets[i]) =>
            LoadedState'.tickets[i] = LoadedState.tickets[i]]_vars
  BY <1>3
<1> QED BY <1>2, <1>4, TypesInvariant, ReplaceInvariant, PTL DEF Spec, RecordedEndIsFinal

-----------------------------------------------------------------------------
(* The engine implements the life cycle of every intent.                    *)

\* The assumptions of the refinement: no adapter call raises, state.json is not
\* lost, and no order was sent under a client id before the engine started.
Undisturbed ==
    /\ MaxFaults = 0 /\ ~MayLoseStateFile
    /\ \A oid \in DOMAIN InitialOrders : InitialOrders[oid].coid = NoCoid

\* Adopted tickets carry an order id, the others the client id of their intent.
Named(s) ==
    \A i \in Intents : IsPresent(s.tickets[i]) =>
        IF i \in DOMAIN AdoptedAs THEN s.tickets[i].oid # NoOid ELSE s.tickets[i].coid = i

\* An order with a client id was sent by the engine.
OrdersSent ==
    \A oid \in DOMAIN orders :
        orders[oid].coid # NoCoid => orders[oid].coid \in Intents /\ placed[orders[oid].coid] > 0

\* How the ticket of intent i in memory, m, may differ from the one on disk, d:
\* it is not given up, it is new only on its way to disk, its order id came with
\* an order, and a ticket whose order was sent is left alone until it is on disk.
Follows(i, d, m) ==
    /\ IsPresent(d) => IsPresent(m)
    /\ d.oid # NoOid => m.oid # NoOid
    /\ ~IsPresent(d) /\ IsPresent(m) =>
          pc = "persist" /\ IsLive(m) /\ (m.oid # NoOid <=> i \in DOMAIN AdoptedAs)
    /\ IsPresent(d) /\ d.oid = NoOid /\ m.oid # NoOid => placed[i] > 0
    /\ IsLive(d) /\ d.oid = NoOid /\ placed[i] > 0 =>
          IsLive(m) /\ ~Early /\ (pc = "drain" => i \notin todo)

MemoryFollows ==
    pc # "down" => \A i \in Intents : Follows(i, LoadedState.tickets[i], st.tickets[i])

RInv ==
    /\ Named(LoadedState) /\ Named(st)
    /\ OrdersSent
    /\ EndKept
    /\ MemoryFollows

LEMMA NamedFresh == Named(FreshState)
  BY DEF Named, FreshState, AbsentTicket, NewTicket, IsPresent

LEMMA RefinementInit == ASSUME Undisturbed, Init PROVE RInv
  BY NamedFresh DEF Undisturbed, Init, RInv, LoadedState, OrdersSent, EndKept, MemoryFollows

\* Without faults the steps that raise cannot be taken.
LEMMA NothingRaises == ASSUME Undisturbed, TInv, NEW i \in Intents PROVE ~PlaceRaises(i)
  BY DEF Undisturbed, TInv, EnvOK, PlaceRaises, StepRaises

LEMMA RefinementQuiet ==
    ASSUME TInv, TInv', RInv, Quiet
    PROVE  RInv'
<1>1. UNCHANGED LoadedState /\ UNCHANGED placed
  BY DEF Quiet, OrdersKept, disk_vars, LoadedState
<1>2. \A i \in Intents : Keeps(st.tickets[i], st'.tickets[i])
  BY DEF Quiet, StateKeeps
<1>3. Named(LoadedState)' /\ Named(st)'
  BY <1>1, <1>2 DEF RInv, Named, Keeps
<1>4. OrdersSent'
  BY DEF RInv, OrdersSent, Quiet, OrdersKept
<1>5. EndKept'
  BY <1>1, <1>2 DEF RInv, EndKept, Quiet, PhaseGoesOn, Keeps
<1>6. MemoryFollows'
  <2> SUFFICES ASSUME pc' # "down", NEW i \in Intents
               PROVE  Follows(i, LoadedState.tickets[i], st.tickets[i])'
    BY DEF MemoryFollows
  <2>1. PICK d, m, m2 : d = LoadedState.tickets[i] /\ m = st.tickets[i] /\ m2 = st'.tickets[i]
    OBVIOUS
  <2>2. Follows(i, d, m) /\ Keeps(m, m2) /\ LoadedState'.tickets[i] = d
    BY <1>1, <1>2, <2>1 DEF RInv, MemoryFollows, Quiet, PhaseGoesOn
  <2>3. ~Early => ~Early' /\ (pc' = "drain" => pc = "drain" /\ todo' \subseteq todo)
    BY DEF Quiet, PhaseGoesOn
  <2>4. ~Early /\ (pc = "drain" => i \notin todo) => m2 = m
    BY <2>1 DEF Quiet, PassedKept
  <2>5. pc = "persist" => pc' = "persist"
    BY DEF Quiet, PhaseGoesOn, Saved, TInv, MemoryOK
  <2>6. (IsPresent(d) => IsPresent(m2)) /\ (d.oid # NoOid => m2.oid # NoOid)
    BY <2>2 DEF Follows, Keeps
  <2>7. ~IsPresent(d) /\ IsPresent(m2) =>
           pc' = "persist" /\ IsLive(m2) /\ (m2.oid # NoOid <=> i \in DOMAIN AdoptedAs)
    BY <2>2, <2>4, <2>5 DEF Follows, Keeps, Early
  <2>8. IsPresent(d) /\ d.oid = NoOid /\ m2.oid # NoOid => placed'[i] > 0
    BY <1>1, <2>2 DEF Follows, Keeps
  <2>9. IsLive(d) /\ d.oid = NoOid /\ placed'[i] > 0 =>
           IsLive(m2) /\ ~Early' /\ (pc' = "drain" => i \notin todo')
    BY <1>1, <2>2, <2>3, <2>4 DEF Follows
  <2> QED BY <2>1, <2>2, <2>6, <2>7, <2>8, <2>9 DEF Follows
<1> QED BY <1>3, <1>4, <1>5, <1>6 DEF RInv

LEMMA RefinementNew ==
    ASSUME TInv, PInv, RInv, NEW i \in Intents, submit_intent(i) \/ adopt_order(i)
    PROVE  RInv'
<1>p. /\ pc = "idle" /\ pc' = "persist" /\ UNCHANGED disk_vars /\ UNCHANGED broker_vars
      /\ ~IsPresent(st.tickets[i]) /\ IsLive(st'.tickets[i])
      /\ i \in DOMAIN AdoptedAs <=> st'.tickets[i].oid # NoOid
      /\ i \notin DOMAIN AdoptedAs => st'.tickets[i].coid = i
      /\ \A j \in Intents \ {i} : st'.tickets[j] = st.tickets[j]
  BY NewTicketParts
<1>1. UNCHANGED LoadedState /\ UNCHANGED placed /\ UNCHANGED orders
  BY <1>p DEF disk_vars, broker_vars, LoadedState
<1>2. Named(LoadedState)' /\ Named(st)'
  BY <1>p, <1>1 DEF RInv, Named
<1>3. OrdersSent'
  BY <1>1 DEF RInv, OrdersSent
<1>4. EndKept'
  BY <1>p, <1>1 DEF RInv, EndKept, IsTerminal, IsPresent
<1>5. MemoryFollows'
  <2> SUFFICES ASSUME NEW j \in Intents
               PROVE  Follows(j, LoadedState.tickets[j], st.tickets[j])'
    BY DEF MemoryFollows
  <2>1. Follows(j, LoadedState.tickets[j], st.tickets[j])
    BY <1>p DEF RInv, MemoryFollows
  <2>2. CASE j # i
    BY <1>p, <1>1, <2>1, <2>2 DEF Follows, Early
  <2>3. CASE j = i
    <3>1. ~IsPresent(LoadedState.tickets[i]) /\ LoadedState.tickets[i].oid = NoOid
      <4>1. st.tickets[i].oid = NoOid
        BY <1>p DEF PInv, AllWellFormed, WellFormed, IsPresent
      <4> QED BY <1>p, <2>1, <2>3, <4>1 DEF Follows
    <3> QED BY <1>p, <1>1, <2>3, <3>1 DEF Follows, IsLive
  <2> QED BY <2>2, <2>3
<1> QED BY <1>2, <1>3, <1>4, <1>5 DEF RInv

\* The order reaches the broker while its ticket is pending on disk.
LEMMA RefinementPlace ==
    ASSUME TInv, PInv, RInv, NEW i \in Intents, Place(i)
    PROVE  /\ RInv'
           /\ IsLive(LoadedState.tickets[i]) /\ LoadedState.tickets[i].oid = NoOid
           /\ placed[i] = 0 /\ placed' = [placed EXCEPT ![i] = 1]
           /\ UNCHANGED LoadedState
<1>p. /\ pc = "drain" /\ pc' # "down" /\ UNCHANGED disk_vars
      /\ st.tickets[i].state = "PENDING_PLACE" /\ st.tickets[i].oid = NoOid
      /\ \A j \in Intents \ {i} : st'.tickets[j] = st.tickets[j]
      /\ st'.tickets[i].oid = st.next_order_id
      /\ st'.tickets[i].coid = st.tickets[i].coid
      /\ IsLive(st'.tickets[i])
  BY PlaceParts
<1>n. st'.tickets[i].oid # NoOid /\ placed \in [Intents -> Nat]
  BY <1>p, StateParts DEF TInv, StateOK, BrokerOK, PInv, AllWellFormed, WellFormed, NoOid
<1>b. BrokerPlaces(i, st.next_order_id) /\ todo' = todo \ {i} /\ UNCHANGED pc
  BY DEF Place, NextTicket
<1>1. UNCHANGED LoadedState
  BY <1>p DEF disk_vars, LoadedState
<1>2. placed[i] = 0 /\ placed' = [placed EXCEPT ![i] = 1]
  <2>1. placed[i] = 0
    BY <1>p, <1>n DEF PInv, KnownInMemory
  <2>2. placed' = [placed EXCEPT ![i] = placed[i] + 1]
    BY <1>b DEF BrokerPlaces
  <2> QED BY <2>1, <2>2
<1>3. IsLive(LoadedState.tickets[i]) /\ LoadedState.tickets[i].oid = NoOid
  <2>1. LoadedState.tickets[i].state = "PENDING_PLACE"
    BY <1>p DEF PInv, PendingIsSaved, Saved, LoadedState
  <2>2. Follows(i, LoadedState.tickets[i], st.tickets[i])
    BY <1>p DEF RInv, MemoryFollows
  <2> QED BY <1>p, <2>1, <2>2 DEF Follows, IsLive, IsPresent, IsTerminal
<1>4. Named(LoadedState)' /\ Named(st)'
  <2>1. IsPresent(st.tickets[i])
    BY <1>p DEF IsPresent
  <2> QED BY <1>p, <1>n, <1>1, <2>1 DEF RInv, Named
<1>5. OrdersSent'
  <2>1. st.tickets[i].coid = i
    BY <1>p DEF PInv, AllWellFormed, WellFormed
  <2>2. \A oid \in DOMAIN orders' :
           orders'[oid].coid = i \/ (oid \in DOMAIN orders /\ orders'[oid] = orders[oid])
    BY <1>b, <2>1 DEF BrokerPlaces
  <2>3. \A j \in Intents : placed[j] > 0 \/ j = i => placed'[j] > 0
    BY <1>n, <1>2
  <2> QED BY <2>2, <2>3 DEF RInv, OrdersSent
<1>6. EndKept'
  BY <1>p, <1>1, <1>3 DEF RInv, EndKept, IsLive
<1>7. MemoryFollows'
  <2> SUFFICES ASSUME NEW j \in Intents
               PROVE  Follows(j, LoadedState.tickets[j], st.tickets[j])'
    BY DEF MemoryFollows
  <2>1. Follows(j, LoadedState.tickets[j], st.tickets[j])
    BY <1>p DEF RInv, MemoryFollows
  <2>2. CASE j # i
    <3>1. st'.tickets[j] = st.tickets[j] /\ placed'[j] = placed[j]
      BY <1>p, <1>n, <1>2, <2>2
    <3> QED BY <1>p, <1>b, <1>1, <2>1, <3>1 DEF Follows, Early
  <2>3. CASE j = i
    BY <1>p, <1>b, <1>n, <1>1, <1>2, <1>3, <2>3 DEF Follows, Early, IsLive
  <2> QED BY <2>2, <2>3
<1> QED BY <1>1, <1>2, <1>3, <1>4, <1>5, <1>6, <1>7 DEF RInv

LEMMA RefinementStart ==
    ASSUME TInv, PInv, PInv', RInv, EndKept', Start
    PROVE  RInv' /\ UNCHANGED LoadedState
<1>1. UNCHANGED LoadedState /\ UNCHANGED placed /\ UNCHANGED orders /\ pc' = "persist"
  BY DEF Start, disk_vars, broker_vars, LoadedState
<1>2. ASSUME NEW i \in Intents, st'.tickets[i] # LoadedState.tickets[i]
      PROVE  /\ IsLive(LoadedState.tickets[i]) /\ LoadedState.tickets[i].oid = NoOid
             /\ OrdersOf(LoadedState.tickets[i]) # {}
             /\ st'.tickets[i].oid # NoOid
             /\ st'.tickets[i].coid = LoadedState.tickets[i].coid
             /\ IsLive(st'.tickets[i])
  BY <1>2, StartTicket DEF PInv
<1>3. Named(LoadedState)' /\ Named(st)'
  BY <1>1, <1>2 DEF RInv, Named, IsLive
<1>4. OrdersSent'
  BY <1>1 DEF RInv, OrdersSent
<1>5. MemoryFollows'
  <2> SUFFICES ASSUME NEW i \in Intents
               PROVE  Follows(i, LoadedState.tickets[i], st.tickets[i])'
    BY DEF MemoryFollows
  <2>1. OrdersOf(LoadedState.tickets[i]) # {} /\ LoadedState.tickets[i].oid = NoOid
           /\ IsLive(LoadedState.tickets[i]) => placed[i] > 0
    <3> SUFFICES ASSUME NEW oid \in OrdersOf(LoadedState.tickets[i]),
                        LoadedState.tickets[i].oid = NoOid, IsLive(LoadedState.tickets[i])
                 PROVE  placed[i] > 0
      OBVIOUS
    <3>1. orders[oid].coid = i /\ oid \in DOMAIN orders /\ orders[oid].coid # NoCoid
      BY DEF RInv, Named, OrdersOf, IsLive
    <3> QED BY <3>1 DEF RInv, OrdersSent
  <2>2. placed[i] > 0 => st'.tickets[i].oid # NoOid
    BY <1>1 DEF PInv, KnownInMemory
  <2>3. CASE st'.tickets[i] = LoadedState.tickets[i]
    BY <1>1, <2>2, <2>3 DEF Follows, Early
  <2>4. CASE st'.tickets[i] # LoadedState.tickets[i]
    BY <1>1, <1>2, <2>1, <2>4 DEF Follows, Early, IsLive
  <2> QED BY <2>3, <2>4
<1> QED BY <1>1, <1>3, <1>4, <1>5 DEF RInv

LEMMA RefinementFiles ==
    ASSUME ~MayLoseStateFile, TInv, PInv, RInv, EndKept',
           PersistState \/ Crash \/ CrashInPersist
    PROVE  RInv'
<1>1. UNCHANGED placed /\ UNCHANGED orders
  BY DEF PersistState, Crash, CrashInPersist, MemoryLost, broker_vars
<1>2. LoadedState' \in {LoadedState, st} /\ st' \in {st, FreshState}
  BY DEF PersistState, Crash, CrashInPersist, MemoryLost, disk_vars, LoadedState
<1>3. Named(LoadedState)' /\ Named(st)'
  BY <1>2, NamedFresh DEF RInv, Named
<1>4. OrdersSent'
  BY <1>1 DEF RInv, OrdersSent
<1>5. MemoryFollows'
  <2>1. CASE PersistState
    <3>1. LoadedState' = st /\ st' = st /\ pc = "persist"
      BY <2>1 DEF PersistState, LoadedState
    <3> SUFFICES ASSUME NEW i \in Intents
                 PROVE  Follows(i, LoadedState.tickets[i], st.tickets[i])'
      BY DEF MemoryFollows
    <3>2. placed'[i] > 0 => st.tickets[i].oid # NoOid
      BY <1>1, <3>1 DEF PInv, KnownInMemory
    <3> QED BY <3>1, <3>2 DEF Follows
  <2>2. CASE Crash \/ CrashInPersist
    BY <2>2 DEF Crash, CrashInPersist, MemoryLost, MemoryFollows
  <2> QED BY <2>1, <2>2
<1> QED BY <1>3, <1>4, <1>5 DEF RInv

LEMMA RefinementStep ==
    ASSUME Undisturbed, TInv, ReplaceUnderWay, PInv, RInv, [Next]_vars
    PROVE  RInv'
<1>1. TInv' /\ PInv' /\ EndKept'
  BY TypeStep, PlacementStep, EndKeptStep DEF Undisturbed, RInv
<1>2. CASE Quiet
  BY <1>1, <1>2, RefinementQuiet
<1>3. CASE Loud
  BY <1>1, <1>3, RefinementNew, RefinementPlace, NothingRaises, RefinementStart, RefinementFiles
     DEF Loud, Undisturbed, LoseStateFile
<1> QED BY <1>2, <1>3, LoudOrQuiet

-----------------------------------------------------------------------------
(* The steps of the life cycle.                                             *)

LEMMA RecordsPersisted ==
    ASSUME TInv, PInv, RInv, pc = "persist", LoadedState' = st, UNCHANGED placed
    PROVE  Lifecycle!Record
<1> DEFINE next == [i \in Intents |-> RecordedPhase(st.tickets[i])]
<1>1. next \in [Intents -> {"unknown", "pending", "worked", "ended"}]
  BY DEF RecordedPhase, IsLive
<1>2. ASSUME NEW i \in Intents
      PROVE  Lifecycle!MayGo(i, RecordedPhase(LoadedState.tickets[i]),
                             RecordedPhase(st.tickets[i]))
  <2>1. PICK d, m : d = LoadedState.tickets[i] /\ m = st.tickets[i]
    OBVIOUS
  <2> SUFFICES Lifecycle!MayGo(i, RecordedPhase(d), RecordedPhase(m))
    BY <2>1
  <2>2. Follows(i, d, m) /\ (IsTerminal(d) => m = d)
    BY <2>1 DEF RInv, MemoryFollows, EndKept
  <2>3. placed[i] > 0 => m.oid # NoOid
    BY <2>1 DEF PInv, KnownInMemory
  <2>4. placed[i] > 0 => placed[i] = 1
    BY DEF PInv, NoDuplicatePlace, TInv, BrokerOK
  <2>5. placed[i] = 0 \/ placed[i] > 0
    BY DEF TInv, BrokerOK
  <2>6. CASE ~IsPresent(d)
    BY <2>2, <2>6 DEF Follows, RecordedPhase, Lifecycle!MayGo, IsLive, IsPresent, IsTerminal
  <2>7. CASE IsTerminal(d)
    BY <2>2, <2>7 DEF Lifecycle!MayGo
  <2>8. CASE IsLive(d) /\ d.oid = NoOid
    BY <2>2, <2>3, <2>4, <2>5, <2>8 DEF Follows, RecordedPhase, Lifecycle!MayGo, IsLive
  <2>9. CASE IsLive(d) /\ d.oid # NoOid
    BY <2>2, <2>9 DEF Follows, RecordedPhase, Lifecycle!MayGo, IsLive
  <2> QED BY <2>1, <2>6, <2>7, <2>8, <2>9 DEF IsLive
<1>3. [i \in Intents |-> RecordedPhase(LoadedState'.tickets[i])] = next
  OBVIOUS
<1> HIDE DEF next
<1> QED BY <1>1, <1>2, <1>3 DEF Lifecycle!Record, next

LEMMA SendsPlaced ==
    ASSUME TInv, PInv, RInv, NEW i \in Intents, Place(i)
    PROVE  Lifecycle!Send(i)
<1>1. /\ IsLive(LoadedState.tickets[i]) /\ LoadedState.tickets[i].oid = NoOid
      /\ placed[i] = 0 /\ placed' = [placed EXCEPT ![i] = 1]
      /\ UNCHANGED LoadedState
  BY RefinementPlace
<1>2. RecordedPhase(LoadedState.tickets[i]) = "pending"
  BY <1>1 DEF RecordedPhase, IsLive
<1> QED BY <1>1, <1>2 DEF Lifecycle!Send

LEMMA NextIsLifecycle ==
    ASSUME Undisturbed, TInv, ReplaceUnderWay, PInv, RInv, [Next]_vars
    PROVE  [Lifecycle!Next]_(Lifecycle!vars)
<1>1. CASE UNCHANGED LoadedState /\ UNCHANGED placed
  BY <1>1 DEF Lifecycle!vars
<1>2. CASE Quiet
  BY <1>1, <1>2 DEF Quiet, OrdersKept, disk_vars, LoadedState
<1>3. CASE Start
  BY <1>1, <1>3 DEF Start, disk_vars, broker_vars, LoadedState
<1>4. ASSUME NEW i \in Intents, submit_intent(i) \/ adopt_order(i)
      PROVE  [Lifecycle!Next]_(Lifecycle!vars)
  BY <1>1, <1>4 DEF submit_intent, adopt_order, CallUpdates, disk_vars, broker_vars, LoadedState
<1>5. ASSUME NEW i \in Intents, Place(i) PROVE [Lifecycle!Next]_(Lifecycle!vars)
  BY <1>5, SendsPlaced DEF Lifecycle!Next
<1>6. CASE PersistState \/ CrashInPersist
  <2>1. pc = "persist" /\ LoadedState' = st /\ UNCHANGED placed
    BY <1>6 DEF PersistState, CrashInPersist, MemoryLost, broker_vars, LoadedState
  <2> QED BY <2>1, RecordsPersisted DEF Lifecycle!Next
<1>7. CASE Crash
  BY <1>1, <1>7 DEF Crash, MemoryLost, disk_vars, broker_vars, LoadedState
<1> QED BY <1>2, <1>3, <1>4, <1>5, <1>6, <1>7, LoudOrQuiet, NothingRaises
        DEF Loud, Undisturbed, LoseStateFile

LEMMA InitIsLifecycle == ASSUME Undisturbed, Init PROVE Lifecycle!Init
<1>1. \A i \in Intents : LoadedState.tickets[i] = AbsentTicket
  BY DEF Init, LoadedState, FreshState
<1>2. RecordedPhase(AbsentTicket) = "unknown"
  BY DEF AbsentTicket, NewTicket, RecordedPhase, IsPresent, IsLive
<1> QED BY <1>1, <1>2 DEF Init, Lifecycle!Init

\* Step by step the engine implements OrderLifecycle, whatever crashes and
\* restarts: what a restart would find moves along the life cycle of each intent,
\* and its order is sent once, while it is recorded as pending.
THEOREM EngineImplementsLifecycle ==
    ASSUME Undisturbed
    PROVE  Spec => ImplementsLifecycle
<1>1. Spec => []RInv
  BY RefinementInit, RefinementStep, TypesInvariant, ReplaceInvariant, PlacementInvariant, PTL
     DEF Spec
<1> QED BY <1>1, InitIsLifecycle, NextIsLifecycle, TypesInvariant, ReplaceInvariant,
           PlacementInvariant, PTL DEF Spec, ImplementsLifecycle, Lifecycle!Spec

-----------------------------------------------------------------------------
(* Whose order an order id stands for.                                      *)

\* Either the engine is never restarted and the orders that were there before it
\* have lower ids than it gives, or there is a single intent and nothing else.
NeverRestarted ==
    /\ MaxCrashes = 0
    /\ \A oid \in DOMAIN InitialOrders : oid < FirstOrderId /\ InitialOrders[oid].coid = NoCoid
    /\ \A i \in DOMAIN AdoptedAs : AdoptedAs[i] < FirstOrderId

SingleIntent ==
    /\ \A i, j \in Intents : i = j
    /\ DOMAIN InitialOrders = {} /\ DOMAIN AdoptedAs = {}

\* An engine that was never restarted finds no files, and gives an order an id
\* above those of all orders and tickets.
NothingSaved ==
    pc = "down" =>
        /\ ~state_exists /\ ledger_state = FreshState
        /\ st.next_order_id = FirstOrderId

IdsBelowNext ==
    /\ FirstOrderId <= st.next_order_id
    /\ \A oid \in DOMAIN orders :
          /\ oid < st.next_order_id
          /\ oid < FirstOrderId => orders[oid].coid = NoCoid
    /\ \A i \in Intents : st.tickets[i].oid < st.next_order_id

OwnInv == NothingSaved /\ IdsBelowNext /\ OrderIdsAreOwn

LEMMA OwnInit == ASSUME NeverRestarted, Init PROVE OwnInv
<1>1. \A i \in Intents : st.tickets[i].oid = 0
  BY DEF Init, FreshState, AbsentTicket, NewTicket, NoOid
<1>2. st.next_order_id = FirstOrderId /\ FirstOrderId > 0 /\ orders = InitialOrders
  BY BoundsAssumption DEF Init, FreshState
<1>3. NothingSaved
  BY DEF Init, NothingSaved, FreshState
<1>4. IdsBelowNext
  BY <1>1, <1>2, BoundsAssumption DEF IdsBelowNext, NeverRestarted
<1>5. OrderIdsAreOwn
  BY <1>1, <1>2, InitialOrdersAssumption DEF OrderIdsAreOwn
<1> QED BY <1>3, <1>4, <1>5 DEF OwnInv

LEMMA OwnQuiet == ASSUME OwnInv, Quiet PROVE OwnInv'
<1>1. NothingSaved'
  BY DEF OwnInv, NothingSaved, Quiet, PhaseGoesOn, StateKeeps, disk_vars
<1>2. \A i \in Intents : st'.tickets[i].oid = st.tickets[i].oid
                         /\ st'.tickets[i].coid = st.tickets[i].coid
  BY DEF Quiet, StateKeeps, Keeps
<1>3. st'.next_order_id = st.next_order_id /\ OrdersKept
  BY DEF Quiet, StateKeeps
<1>4. IdsBelowNext'
  BY <1>2, <1>3 DEF OwnInv, IdsBelowNext, OrdersKept
<1>5. OrderIdsAreOwn'
  BY <1>2, <1>3 DEF OwnInv, OrderIdsAreOwn, OrdersKept
<1> QED BY <1>1, <1>4, <1>5 DEF OwnInv

LEMMA OwnPlace ==
    ASSUME TInv, PInv, OwnInv, NEW i \in Intents, Place(i) \/ PlaceRaises(i)
    PROVE  OwnInv'
<1> DEFINE n == st.next_order_id
<1>p. /\ pc' # "down"
      /\ st.tickets[i].state = "PENDING_PLACE"
      /\ \A j \in Intents \ {i} : st'.tickets[j] = st.tickets[j]
      /\ st'.tickets[i].oid = n
      /\ st'.tickets[i].coid = st.tickets[i].coid
      /\ st'.next_order_id = n + 1
  BY PlaceParts
<1>b. BrokerPlaces(i, n) \/ UNCHANGED broker_vars
  BY DEF Place, PlaceRaises
<1>n. n \in Nat /\ DOMAIN orders \subseteq Nat /\ FirstOrderId \in Nat
      /\ \A j \in Intents : st.tickets[j].oid \in Nat
  BY StateParts, TicketParts, BoundsAssumption DEF TInv, StateOK, BrokerOK
<1>c. st.tickets[i].coid = i
  BY <1>p DEF PInv, AllWellFormed, WellFormed
<1>o. /\ DOMAIN orders' \subseteq DOMAIN orders \cup {n}
      /\ \A oid \in DOMAIN orders' :
            IF oid = n /\ oid \notin DOMAIN orders
            THEN orders'[oid].coid = i ELSE orders'[oid] = orders[oid]
  <2>1. n \notin DOMAIN orders
    BY <1>n DEF OwnInv, IdsBelowNext
  <2> HIDE DEF n
  <2>2. CASE BrokerPlaces(i, n)
    BY <1>c, <2>1, <2>2 DEF BrokerPlaces
  <2>3. CASE UNCHANGED broker_vars
    BY <2>1, <2>3 DEF broker_vars
  <2> QED BY <1>b, <2>2, <2>3
<1> HIDE DEF n
<1>k. /\ FirstOrderId <= n
      /\ \A oid \in DOMAIN orders : oid < n /\ (oid < FirstOrderId => orders[oid].coid = NoCoid)
      /\ \A j \in Intents : st.tickets[j].oid < n
  BY DEF OwnInv, IdsBelowNext, n
<1>1. NothingSaved'
  BY <1>p DEF NothingSaved
<1>2. IdsBelowNext'
  <2>1. \A oid \in DOMAIN orders' :
           oid < n + 1 /\ (oid < FirstOrderId => orders'[oid].coid = NoCoid)
    BY <1>n, <1>o, <1>k
  <2>2. \A j \in Intents : st'.tickets[j].oid < n + 1
    BY <1>p, <1>n, <1>k
  <2> QED BY <1>p, <1>n, <1>k, <2>1, <2>2 DEF IdsBelowNext
<1>3. OrderIdsAreOwn'
  <2> SUFFICES ASSUME NEW j \in Intents, st'.tickets[j].oid \in DOMAIN orders'
               PROVE  orders'[st'.tickets[j].oid].coid \in {st'.tickets[j].coid, NoCoid}
    BY DEF OrderIdsAreOwn
  <2>1. CASE j = i
    <3>1. n \notin DOMAIN orders
      BY <1>n, <1>k
    <3> QED BY <1>p, <1>c, <1>o, <2>1, <3>1
  <2>2. CASE j # i
    <3>1. st.tickets[j].oid # n
      BY <1>n, <1>k
    <3> QED BY <1>p, <1>o, <2>2, <3>1 DEF OwnInv, OrderIdsAreOwn
  <2> QED BY <2>1, <2>2
<1> QED BY <1>1, <1>2, <1>3 DEF OwnInv

LEMMA OwnNew ==
    ASSUME NeverRestarted, TInv, OwnInv, NEW i \in Intents, submit_intent(i) \/ adopt_order(i)
    PROVE  OwnInv'
<1>p. /\ pc' = "persist" /\ UNCHANGED broker_vars
      /\ i \notin DOMAIN AdoptedAs => st'.tickets[i].oid = NoOid
      /\ i \in DOMAIN AdoptedAs => st'.tickets[i].oid = AdoptedAs[i]
      /\ \A j \in Intents \ {i} : st'.tickets[j] = st.tickets[j]
      /\ st'.next_order_id = st.next_order_id
  BY NewTicketParts
<1>o. UNCHANGED orders
  BY <1>p DEF broker_vars
<1>n. /\ st.next_order_id \in Nat /\ FirstOrderId \in Nat \ {0} /\ DOMAIN orders \subseteq Nat
      /\ FirstOrderId <= st.next_order_id
  BY StateParts, BoundsAssumption DEF TInv, StateOK, BrokerOK, OwnInv, IdsBelowNext
<1>a. st'.tickets[i].oid \in Nat /\ st'.tickets[i].oid < FirstOrderId
  BY <1>p, <1>n, AdoptionAssumption DEF NeverRestarted, NoOid
<1>1. NothingSaved'
  BY <1>p DEF NothingSaved
<1>2. IdsBelowNext'
  BY <1>p, <1>o, <1>n, <1>a DEF OwnInv, IdsBelowNext
<1>3. OrderIdsAreOwn'
  <2> SUFFICES ASSUME NEW j \in Intents, st'.tickets[j].oid \in DOMAIN orders
               PROVE  orders[st'.tickets[j].oid].coid \in {st'.tickets[j].coid, NoCoid}
    BY <1>o DEF OrderIdsAreOwn
  <2>1. CASE j = i
    BY <1>a, <2>1 DEF OwnInv, IdsBelowNext
  <2>2. CASE j # i
    BY <1>p, <2>2 DEF OwnInv, OrderIdsAreOwn
  <2> QED BY <2>1, <2>2
<1> QED BY <1>1, <1>2, <1>3 DEF OwnInv

LEMMA OwnStart == ASSUME TInv, PInv, OwnInv, Start PROVE OwnInv'
<1>1. LoadedState = FreshState /\ pc' = "persist" /\ UNCHANGED broker_vars
      /\ st.next_order_id = FirstOrderId
  BY DEF OwnInv, NothingSaved, Start, LoadedState
<1>2. st'.next_order_id = FirstOrderId
  BY <1>1, StartNextId DEF FreshState
<1>3. \A i \in Intents : st'.tickets[i].oid = NoOid
  <2>1. \A i \in Intents : FreshState.tickets[i].oid = NoOid /\ ~IsLive(FreshState.tickets[i])
    BY DEF FreshState, AbsentTicket, NewTicket, IsLive, IsPresent
  <2> QED BY <1>1, <2>1, StartTicket DEF PInv
<1>o. UNCHANGED orders /\ 0 \notin DOMAIN orders
  BY <1>1 DEF broker_vars, PInv, OrderIdsPositive
<1>4. NothingSaved'
  BY <1>1 DEF NothingSaved
<1>5. IdsBelowNext'
  BY <1>1, <1>2, <1>3, <1>o, BoundsAssumption DEF OwnInv, IdsBelowNext, NoOid
<1>6. OrderIdsAreOwn'
  BY <1>3, <1>o DEF OrderIdsAreOwn, NoOid
<1> QED BY <1>4, <1>5, <1>6 DEF OwnInv

LEMMA OwnStep ==
    ASSUME NeverRestarted, TInv, ReplaceUnderWay, PInv, OwnInv, [Next]_vars
    PROVE  OwnInv'
<1>1. CASE PersistState
  <2>1. UNCHANGED <<st, orders>> /\ pc' # "down"
    BY <1>1 DEF PersistState, broker_vars
  <2> QED BY <2>1 DEF OwnInv, NothingSaved, IdsBelowNext, OrderIdsAreOwn
<1>2. ~Crash /\ ~CrashInPersist
  BY DEF NeverRestarted, TInv, EnvOK, Crash, CrashInPersist, MemoryLost
<1>3. ~LoseStateFile
  BY DEF LoseStateFile, OwnInv, NothingSaved
<1> QED BY <1>1, <1>2, <1>3, LoudOrQuiet, OwnQuiet, OwnPlace, OwnNew, OwnStart DEF Loud

\* The engine has no other orders than its own to deal with.
NothingElse == DOMAIN InitialOrders = {} /\ DOMAIN AdoptedAs = {}

AllNamed == Named(st) /\ Named(state_file) /\ Named(ledger_state)

\* Every order is the order of an intent.
OrdersTraced ==
    \A oid \in DOMAIN orders :
        LET o == orders[oid] IN
        /\ o.coid \in Intents /\ placed[o.coid] > 0
        /\ o.symbol = OrderOf[o.coid].symbol /\ o.side = OrderOf[o.coid].side

TracedInv == AllNamed /\ OrdersTraced

LEMMA TracedInit == ASSUME NothingElse, Init PROVE TracedInv
  BY NamedFresh DEF NothingElse, Init, TracedInv, AllNamed, OrdersTraced

LEMMA TracedPlace ==
    ASSUME TInv, PInv, TracedInv, NEW i \in Intents, Place(i) \/ PlaceRaises(i)
    PROVE  TracedInv'
<1>p. /\ UNCHANGED disk_vars
      /\ st.tickets[i].state = "PENDING_PLACE"
      /\ \A j \in Intents \ {i} : st'.tickets[j] = st.tickets[j]
      /\ st'.tickets[i].oid = st.next_order_id
      /\ st'.tickets[i].coid = st.tickets[i].coid
  BY PlaceParts
<1>b. BrokerPlaces(i, st.next_order_id) \/ UNCHANGED broker_vars
  BY DEF Place, PlaceRaises
<1>c. st.tickets[i].coid = i /\ st.next_order_id # NoOid /\ IsPresent(st.tickets[i])
  BY <1>p DEF PInv, AllWellFormed, WellFormed, NoOid, IsPresent
<1>n. placed \in [Intents -> Nat]
  BY DEF TInv, BrokerOK
<1>1. AllNamed'
  <2>1. Named(st)'
    BY <1>p, <1>c DEF TracedInv, AllNamed, Named
  <2> QED BY <1>p, <2>1 DEF TracedInv, AllNamed, Named, disk_vars
<1>2. OrdersTraced'
  <2>1. CASE BrokerPlaces(i, st.next_order_id)
    <3>1. \A oid \in DOMAIN orders' :
             \/ oid \in DOMAIN orders /\ orders'[oid] = orders[oid]
             \/ /\ orders'[oid].coid = i /\ orders'[oid].symbol = OrderOf[i].symbol
                /\ orders'[oid].side = OrderOf[i].side
      BY <1>c, <2>1 DEF BrokerPlaces
    <3>2. \A j \in Intents : placed[j] > 0 \/ j = i => placed'[j] > 0
      BY <1>n, <2>1 DEF BrokerPlaces
    <3> QED BY <3>1, <3>2 DEF TracedInv, OrdersTraced
  <2>2. CASE UNCHANGED broker_vars
    BY <2>2 DEF TracedInv, OrdersTraced, broker_vars
  <2> QED BY <1>b, <2>1, <2>2
<1> QED BY <1>1, <1>2 DEF TracedInv

LEMMA TracedStart == ASSUME TInv, PInv, TracedInv, Start PROVE TracedInv'
<1>1. UNCHANGED disk_vars /\ UNCHANGED broker_vars
  BY DEF Start
<1>2. Named(LoadedState)
  BY DEF TracedInv, AllNamed, LoadedState
<1>3. Named(st)'
  BY <1>2, StartTicket DEF PInv, Named, IsLive
<1> QED BY <1>1, <1>3 DEF TracedInv, AllNamed, Named, OrdersTraced, disk_vars, broker_vars

LEMMA TracedStep == ASSUME TInv, ReplaceUnderWay, PInv, TracedInv, [Next]_vars PROVE TracedInv'
<1>1. CASE Quiet
  <2>1. Named(st)'
    BY <1>1 DEF TracedInv, AllNamed, Named, Quiet, StateKeeps, Keeps
  <2>2. Named(state_file)' /\ Named(ledger_state)'
    BY <1>1 DEF TracedInv, AllNamed, Named, Quiet, disk_vars
  <2>3. OrdersTraced'
    BY <1>1 DEF TracedInv, OrdersTraced, Quiet, OrdersKept
  <2> QED BY <2>1, <2>2, <2>3 DEF TracedInv, AllNamed
<1>2. ASSUME NEW i \in Intents, submit_intent(i) \/ adopt_order(i) PROVE TracedInv'
  <2>1. Named(st)'
    BY <1>2, NewTicketParts DEF TracedInv, AllNamed, Named
  <2>2. UNCHANGED disk_vars /\ UNCHANGED broker_vars
    BY <1>2, NewTicketParts
  <2> QED BY <2>1, <2>2 DEF TracedInv, AllNamed, Named, OrdersTraced, disk_vars, broker_vars
<1>3. CASE PersistState \/ Crash \/ CrashInPersist \/ LoseStateFile
  <2>1. /\ st' \in {st, FreshState} /\ state_file' \in {state_file, st, FreshState}
        /\ ledger_state' \in {ledger_state, st} /\ UNCHANGED broker_vars
    BY <1>3 DEF PersistState, Crash, CrashInPersist, LoseStateFile, MemoryLost, disk_vars,
                engine_vars
  <2>2. AllNamed'
    BY <2>1, NamedFresh DEF TracedInv, AllNamed, Named
  <2> QED BY <2>1, <2>2 DEF TracedInv, OrdersTraced, broker_vars
<1> QED BY <1>1, <1>2, <1>3, LoudOrQuiet, TracedPlace, TracedStart DEF Loud

LEMMA TracedInvariant == ASSUME NothingElse PROVE Spec => []TracedInv
  BY TracedInit, TracedStep, TypesInvariant, ReplaceInvariant, PlacementInvariant, PTL DEF Spec

\* The order that the broker holds under a ticket's order id is that ticket's order
\* (_drain_actions, next_order_id), as long as the engine is never restarted.  It is
\* not so after a restart when there are several intents: next_order_id is rolled
\* back with the rest of the state.
THEOREM OwnOrderIds ==
    ASSUME NeverRestarted \/ SingleIntent
    PROVE  Spec => []OrderIdsAreOwn
<1>1. CASE NeverRestarted
  <2>1. Spec => []OwnInv
    BY <1>1, OwnInit, OwnStep, TypesInvariant, ReplaceInvariant, PlacementInvariant, PTL
       DEF Spec
  <2>2. OwnInv => OrderIdsAreOwn
    BY DEF OwnInv
  <2> QED BY <2>1, <2>2, PTL
<1>2. CASE SingleIntent
  <2>1. Spec => []TracedInv
    BY <1>2, TracedInvariant DEF SingleIntent, NothingElse
  <2>2. ASSUME PInv, TracedInv PROVE OrderIdsAreOwn
    <3> SUFFICES ASSUME NEW i \in Intents, st.tickets[i].oid \in DOMAIN orders
                 PROVE  orders[st.tickets[i].oid].coid = st.tickets[i].coid
      BY DEF OrderIdsAreOwn
    <3>1. IsPresent(st.tickets[i])
      BY <2>2 DEF PInv, AllWellFormed, WellFormed, OrderIdsPositive, IsPresent, NoOid
    <3>2. st.tickets[i].coid = i
      BY <1>2, <2>2, <3>1 DEF TracedInv, AllNamed, Named, SingleIntent
    <3>3. orders[st.tickets[i].oid].coid = i
      BY <1>2, <2>2 DEF TracedInv, OrdersTraced, SingleIntent
    <3> QED BY <3>2, <3>3
  <2>3. PInv /\ TracedInv => OrderIdsAreOwn
    BY <2>2
  <2> QED BY <2>1, <2>3, PlacementInvariant, PTL
<1> QED BY <1>1, <1>2

-----------------------------------------------------------------------------
(* Exits only shrink a position.                                            *)

\* Two intents do not exit the same position; two exits of one position, each
\* allowed by itself, may together turn it.
OneExitPerSymbol ==
    \A i, j \in Intents : OrderOf[i].symbol = OrderOf[j].symbol => i = j

\* What the engine has seen of the positions was between their start and zero.
SeenShrunk ==
    \A symbol \in DOMAIN InitialPositions :
        /\ Shrinks(InitialPositions[symbol], seen_positions[symbol])
        /\ replace_seen # <<>> => Shrinks(InitialPositions[symbol], replace_seen[2][symbol])

PositionsShrunk ==
    \A symbol \in DOMAIN InitialPositions : Shrinks(InitialPositions[symbol], positions[symbol])

Exits(whole, side) == (whole > 0 /\ side = "SELL") \/ (whole < 0 /\ side = "BUY")

\* An order's fills are all that moved its position, and what is left of it
\* cannot turn the position.
OrdersExit ==
    \A oid \in DOMAIN orders :
        LET o == orders[oid]
            whole == InitialPositions[o.symbol]
        IN  /\ Exits(whole, o.side)
            /\ o.filled <= Abs(whole) /\ o.filled + o.remaining <= Abs(whole)
            /\ positions[o.symbol] = whole + Delta(o.side, o.filled)

OneOrderEach == \A a, b \in DOMAIN orders : orders[a].coid = orders[b].coid => a = b

\* A position is where it was until the order of its intent is sent.
Untouched ==
    \A i \in Intents :
        placed[i] = 0 => positions[OrderOf[i].symbol] = InitialPositions[OrderOf[i].symbol]

ExitInv == SeenShrunk /\ PositionsShrunk /\ OrdersExit /\ OneOrderEach /\ Untouched

LEMMA InitialShrunk ==
    \A symbol \in DOMAIN InitialPositions :
        Shrinks(InitialPositions[symbol], InitialPositions[symbol])
  BY PositionsAssumption DEF Shrinks

LEMMA ExitInit == ASSUME NothingElse, Init PROVE ExitInv
  BY InitialShrunk DEF NothingElse, Init, ExitInv, SeenShrunk, PositionsShrunk, OrdersExit,
                       OneOrderEach, Untouched

\* An order that the policy allows against a position seen on the way to zero.
LEMMA AllowedExits ==
    ASSUME ControlPlane.global_mode = "ONLY_EXITS", NEW i \in Intents,
           NEW held \in [DOMAIN InitialPositions -> Int],
           Shrinks(InitialPositions[OrderOf[i].symbol], held[OrderOf[i].symbol]),
           NEW qty \in Int, NEW action, action # "CANCEL", Allowed(i, qty, held, action)
    PROVE  /\ Exits(InitialPositions[OrderOf[i].symbol], OrderOf[i].side)
           /\ 0 < qty /\ qty <= Abs(InitialPositions[OrderOf[i].symbol])
<1> DEFINE now == held[OrderOf[i].symbol]
           whole == InitialPositions[OrderOf[i].symbol]
<1>1. is_exit_order(now, OrderOf[i].side, qty)
  BY DEF Allowed, check_order_allowed
<1>2. now \in Int /\ whole \in Int
  BY IntentsAssumption, PositionsAssumption
<1>3. Shrinks(whole, now)
  OBVIOUS
<1> HIDE DEF now, whole
<1>4. Exits(whole, OrderOf[i].side) /\ 0 < qty /\ qty <= Abs(whole)
  BY <1>1, <1>2, <1>3 DEF is_exit_order, Shrinks, Exits, Abs
<1> QED BY <1>4 DEF whole

\* The engine looks at the positions as they are, or forgets what it saw.
LEMMA SeenStep == ASSUME TInv, ExitInv, [Next]_vars PROVE SeenShrunk'
<1>1. CASE /\ seen_positions' \in {seen_positions, positions, InitialPositions}
           /\ replace_seen' \in {replace_seen, <<>>}
  BY <1>1, InitialShrunk DEF ExitInv, SeenShrunk, PositionsShrunk
<1>2. CASE UNCHANGED <<seen_positions, replace_seen>>
  BY <1>1, <1>2
<1>3. CASE RunnerCalls
  BY <1>2, <1>3 DEF RunnerCalls, submit_intent, adopt_order, request_cancel,
                    request_replace_qty, CallUpdates
<1>4. CASE Start \/ BeginStep \/ CooldownExpires \/ MoveFlag \/ UNCHANGED vars
  BY <1>2, <1>4 DEF Start, BeginStep, CooldownExpires, MoveFlag, vars, engine_vars
<1>5. CASE PollEvents \/ DropSeenFill \/ OrphanEvent \/ Reconcile \/ PersistState
  BY <1>2, <1>5 DEF PollEvents, DropSeenFill, OrphanEvent, Reconcile, PersistState
<1>6. CASE ApplyRequests \/ EndDrain
  BY <1>1, <1>6 DEF ApplyRequests, EndDrain
<1>7. ASSUME NEW i \in Intents,
             \/ ApplyEvent(i) \/ DrainNothing(i) \/ ForbidPlace(i) \/ SkipPlaced(i) \/ Place(i)
             \/ Cancel(i) \/ ForbidReplace(i) \/ Replace(i)
      PROVE  SeenShrunk'
  BY <1>1, <1>7 DEF ApplyEvent, DrainNothing, ForbidPlace, SkipPlaced, Place, Cancel,
                    ForbidReplace, Replace, NextTicket
<1>8. ASSUME NEW i \in Intents, LookBeforeReplace(i) PROVE SeenShrunk'
  <2>1. replace_seen' = <<i, positions>> /\ UNCHANGED seen_positions
    BY <1>8 DEF LookBeforeReplace
  <2> QED BY <2>1 DEF ExitInv, SeenShrunk, PositionsShrunk
<1>9. CASE Raises
  BY <1>1, <1>9 DEF Raises, SnapshotOrPollRaises, LastFillRaises, PlaceRaises, CancelRaises,
                    ReplaceRaises, StepRaises
<1>10. CASE Crash \/ CrashInPersist
  BY <1>1, <1>10 DEF Crash, CrashInPersist, MemoryLost
<1>11. CASE LoseStateFile \/ Broker
  <2>1. UNCHANGED engine_vars
    BY <1>11 DEF LoseStateFile, Broker, BrokerAck, BrokerReject, BrokerFill, Resend
  <2> QED BY <1>2, <2>1 DEF engine_vars
<1> QED BY <1>3, <1>4, <1>5, <1>6, <1>7, <1>8, <1>9, <1>10, <1>11 DEF Next, StepWork

\* Positions and orders, in all that the invariant says of them.
BooksInv == PositionsShrunk /\ OrdersExit /\ OneOrderEach /\ Untouched

LEMMA SameBooks ==
    ASSUME BooksInv, UNCHANGED <<orders, positions, placed>>
    PROVE  BooksInv'
  BY DEF BooksInv, PositionsShrunk, OrdersExit, OneOrderEach, Untouched

\* Acknowledging, rejecting and cancelling.
LEMMA SettledBooks ==
    ASSUME BooksInv, UNCHANGED <<positions, placed>>, DOMAIN orders' = DOMAIN orders,
           \A oid \in DOMAIN orders :
              /\ orders'[oid].coid = orders[oid].coid
              /\ orders'[oid].symbol = orders[oid].symbol /\ orders'[oid].side = orders[oid].side
              /\ orders'[oid].filled = orders[oid].filled
              /\ orders'[oid].remaining = orders[oid].remaining
    PROVE  BooksInv'
  BY DEF BooksInv, PositionsShrunk, OrdersExit, OneOrderEach, Untouched

LEMMA CancelledBooks == ASSUME TInv, BooksInv, NEW oid, BrokerCancels(oid) PROVE BooksInv'
<1>1. \A x \in DOMAIN orders : orders[x] \in Order
  BY DEF TInv, BrokerOK
<1>2. CASE UNCHANGED broker_vars
  BY <1>2, SameBooks DEF broker_vars
<1>3. CASE /\ oid \in DOMAIN orders /\ UNCHANGED <<positions, placed>>
           /\ orders' = [orders EXCEPT ![oid].status = "Cancelled"]
  BY <1>1, <1>3, SettledBooks DEF Order
<1> QED BY <1>2, <1>3 DEF BrokerCancels

\* A replaced order's new quantity was allowed against a position of its symbol.
LEMMA ReplacedBooks ==
    ASSUME TInv, BooksInv, NEW oid, NEW qty \in Int, BrokerReplaces(oid, qty),
           oid \in DOMAIN orders => qty <= Abs(InitialPositions[orders[oid].symbol])
    PROVE  BooksInv'
<1>1. \A x \in DOMAIN orders : orders[x] \in Order
  BY DEF TInv, BrokerOK
<1>2. CASE UNCHANGED broker_vars
  BY <1>2, SameBooks DEF broker_vars
<1>3. CASE oid \in DOMAIN orders /\ ~UNCHANGED broker_vars
  <2> DEFINE o == orders[oid]
             left == IF qty > o.filled THEN qty - o.filled ELSE 0
             new == [o EXCEPT !.qty = qty, !.remaining = left]
  <2>1. orders' = [orders EXCEPT ![oid] = new] /\ UNCHANGED <<positions, placed>>
    BY <1>3 DEF BrokerReplaces
  <2>2. o \in Order /\ o.filled \in Nat /\ InitialPositions[o.symbol] \in Int
    BY <1>1, <1>3, OrderParts, PositionsAssumption
  <2>3. left \in Int /\ (left = 0 \/ o.filled + left = qty)
    BY <2>2
  <2>4. /\ new.coid = o.coid /\ new.symbol = o.symbol /\ new.side = o.side
        /\ new.filled = o.filled /\ new.remaining = left
    <3> HIDE DEF left, o
    <3> QED BY <2>2 DEF Order
  <2>5. /\ Exits(InitialPositions[o.symbol], o.side)
        /\ o.filled <= Abs(InitialPositions[o.symbol])
        /\ positions[o.symbol] = InitialPositions[o.symbol] + Delta(o.side, o.filled)
    BY <1>3 DEF BooksInv, OrdersExit
  <2>6. qty <= Abs(InitialPositions[o.symbol])
    BY <1>3
  <2> HIDE DEF left, new, o
  <2>7. new.filled + new.remaining <= Abs(InitialPositions[new.symbol])
    BY <2>2, <2>3, <2>4, <2>5, <2>6
  <2>8. OrdersExit'
    <3>1. \A x \in DOMAIN orders \ {oid} : orders'[x] = orders[x]
      BY <2>1
    <3>2. orders'[oid] = new /\ DOMAIN orders' = DOMAIN orders /\ UNCHANGED positions
      BY <1>3, <2>1
    <3> QED BY <2>4, <2>5, <2>7, <3>1, <3>2 DEF BooksInv, OrdersExit
  <2>9. OneOrderEach'
    <3>1. \A x \in DOMAIN orders : orders'[x].coid = orders[x].coid
      BY <1>3, <2>1, <2>4 DEF o
    <3> QED BY <2>1, <3>1 DEF BooksInv, OneOrderEach
  <2> QED BY <2>1, <2>8, <2>9 DEF BooksInv, PositionsShrunk, Untouched
<1> QED BY <1>2, <1>3 DEF BrokerReplaces

\* A fill moves the position of its order's symbol, and no other order has it.
LEMMA FilledBooks ==
    ASSUME OneExitPerSymbol, TInv, TracedInv, BooksInv, NEW oid \in DOMAIN orders, NEW qty,
           BrokerFill(oid, qty)
    PROVE  BooksInv'
<1> DEFINE o == orders[oid]
           whole == InitialPositions[o.symbol]
           left == o.remaining - qty
           how == IF left <= 0 THEN "Filled" ELSE o.status
           new == [o EXCEPT !.filled = o.filled + qty, !.remaining = left,
                            !.status = how]
<1>1. /\ o \in Order /\ o.symbol \in DOMAIN InitialPositions /\ o.side \in Sides
      /\ o.filled \in Nat /\ o.remaining \in Int /\ whole \in Int
  BY OrderParts, PositionsAssumption DEF TInv, BrokerOK
<1>2. qty \in 1..o.remaining /\ UNCHANGED placed
      /\ positions' = [positions EXCEPT ![o.symbol] = positions[o.symbol] + Delta(o.side, qty)]
  BY DEF BrokerFill
<1>3. orders' = [orders EXCEPT ![oid] = new]
  BY DEF BrokerFill
<1>4. /\ new.coid = o.coid /\ new.symbol = o.symbol /\ new.side = o.side
      /\ new.filled = o.filled + qty /\ new.remaining = left
  <2> HIDE DEF left, o, how
  <2> QED BY <1>1 DEF Order
<1>5. positions \in [DOMAIN InitialPositions -> Int]
  BY DEF TInv, BrokerOK
<1>6. /\ Exits(whole, o.side)
      /\ o.filled + o.remaining <= Abs(whole)
      /\ positions[o.symbol] = whole + Delta(o.side, o.filled)
  BY DEF BooksInv, OrdersExit
<1>7. left = o.remaining - qty
  OBVIOUS
<1>8. /\ \A x \in DOMAIN orders \ {oid} : orders'[x] = orders[x]
      /\ orders'[oid] = new /\ DOMAIN orders' = DOMAIN orders
  BY <1>3
<1> HIDE DEF o, whole, left, how, new
<1>9. /\ new.filled <= Abs(whole) /\ new.filled + new.remaining <= Abs(whole)
      /\ new.filled \in Nat
      /\ positions'[o.symbol] = whole + Delta(o.side, new.filled)
  <2>1. qty \in Nat /\ left \in Int /\ Abs(whole) \in Int
    BY <1>1, <1>2, <1>7 DEF Abs
  <2>2. positions'[o.symbol] = positions[o.symbol] + Delta(o.side, qty)
    BY <1>1, <1>2, <1>5
  <2>3. Delta(o.side, o.filled) + Delta(o.side, qty) = Delta(o.side, o.filled + qty)
        /\ Delta(o.side, o.filled) \in Int /\ Delta(o.side, qty) \in Int
    BY <1>1, <2>1 DEF Delta
  <2>4. positions'[o.symbol] = whole + Delta(o.side, new.filled)
    BY <1>1, <1>4, <1>6, <2>2, <2>3
  <2>5. /\ new.filled <= Abs(whole) /\ new.filled + new.remaining <= Abs(whole)
        /\ new.filled \in Nat
    BY <1>1, <1>2, <1>4, <1>6, <1>7, <2>1
  <2> QED BY <2>4, <2>5
<1>10. Shrinks(whole, positions'[o.symbol])
  BY <1>1, <1>6, <1>9 DEF Exits, Delta, Shrinks, Abs
<1>11. \A symbol \in DOMAIN InitialPositions \ {o.symbol} : positions'[symbol] = positions[symbol]
  BY <1>1, <1>2, <1>5
<1>12. PositionsShrunk'
  BY <1>10, <1>11 DEF BooksInv, PositionsShrunk, whole
\* The order of another intent is for another symbol.
<1>13. \A x \in DOMAIN orders \ {oid} : orders[x].symbol # o.symbol
       /\ orders[x].symbol \in DOMAIN InitialPositions
  <2> SUFFICES ASSUME NEW x \in DOMAIN orders \ {oid}
               PROVE  orders[x].symbol # o.symbol /\ orders[x].symbol \in DOMAIN InitialPositions
    OBVIOUS
  <2>1. orders[x].coid # o.coid /\ orders[x].coid \in Intents /\ o.coid \in Intents
    BY DEF BooksInv, OneOrderEach, TracedInv, OrdersTraced, o
  <2>2. orders[x].symbol = OrderOf[orders[x].coid].symbol /\ o.symbol = OrderOf[o.coid].symbol
    BY DEF TracedInv, OrdersTraced, o
  <2>3. orders[x].symbol # o.symbol
    BY <2>1, <2>2 DEF OneExitPerSymbol
  <2> QED BY <2>3, OrderParts DEF TInv, BrokerOK
<1>14. OrdersExit'
  <2> SUFFICES ASSUME NEW x \in DOMAIN orders
               PROVE  /\ Exits(InitialPositions[orders'[x].symbol], orders'[x].side)
                      /\ orders'[x].filled <= Abs(InitialPositions[orders'[x].symbol])
                      /\ orders'[x].filled + orders'[x].remaining
                            <= Abs(InitialPositions[orders'[x].symbol])
                      /\ positions'[orders'[x].symbol] =
                            InitialPositions[orders'[x].symbol]
                               + Delta(orders'[x].side, orders'[x].filled)
    BY <1>8 DEF OrdersExit
  <2>1. CASE x = oid
    BY <1>4, <1>6, <1>8, <1>9, <2>1 DEF whole
  <2>2. CASE x # oid
    BY <1>8, <1>11, <1>13, <2>2 DEF BooksInv, OrdersExit
  <2> QED BY <2>1, <2>2
<1>15. OneOrderEach'
  <2>1. \A x \in DOMAIN orders : orders'[x].coid = orders[x].coid
    BY <1>4, <1>8 DEF o
  <2> QED BY <1>8, <2>1 DEF BooksInv, OneOrderEach
<1>16. Untouched'
  <2> SUFFICES ASSUME NEW i \in Intents, placed[i] = 0
               PROVE  positions'[OrderOf[i].symbol] = InitialPositions[OrderOf[i].symbol]
    BY <1>2 DEF Untouched
  <2>1. o.coid \in Intents /\ placed[o.coid] > 0 /\ o.symbol = OrderOf[o.coid].symbol
    BY DEF TracedInv, OrdersTraced, o
  <2>2. i # o.coid
    BY <2>1
  <2>3. OrderOf[i].symbol # o.symbol
    BY <2>1, <2>2 DEF OneExitPerSymbol
  <2>4. OrderOf[i].symbol \in DOMAIN InitialPositions
    BY IntentsAssumption
  <2> QED BY <1>11, <2>3, <2>4 DEF BooksInv, Untouched
<1> QED BY <1>12, <1>14, <1>15, <1>16 DEF BooksInv

\* The first order for a position, allowed against what was seen of it.
LEMMA PlacedBooks ==
    ASSUME ControlPlane.global_mode = "ONLY_EXITS", OneExitPerSymbol,
           TInv, PInv, TracedInv, SeenShrunk, BooksInv, NEW i \in Intents,
           Draining(i, {"PENDING_PLACE"}), PlaceAllowed(i), st.tickets[i].oid = NoOid,
           BrokerPlaces(i, st.next_order_id)
    PROVE  BooksInv'
<1> DEFINE n == st.next_order_id
           symbol == OrderOf[i].symbol
           whole == InitialPositions[symbol]
           o == [coid |-> st.tickets[i].coid, symbol |-> symbol, side |-> OrderOf[i].side,
                 qty |-> st.tickets[i].qty, filled |-> 0, remaining |-> st.tickets[i].qty,
                 status |-> "Submitted", acked |-> FALSE]
<1>1. /\ placed \in [Intents -> Nat] /\ st.tickets[i].qty \in Int /\ whole \in Int
      /\ symbol \in DOMAIN InitialPositions /\ OrderOf[i].side \in Sides
      /\ seen_positions \in [DOMAIN InitialPositions -> Int]
  BY StateParts, TicketParts, IntentsAssumption, PositionsAssumption
     DEF TInv, StateOK, BrokerOK, MemoryOK
<1>2. placed[i] = 0 /\ st.tickets[i].coid = i
  BY <1>1 DEF PInv, KnownInMemory, AllWellFormed, WellFormed, Draining
<1>3. /\ DOMAIN orders' = DOMAIN orders \cup {n} /\ orders'[n] = o
      /\ \A x \in DOMAIN orders \ {n} : orders'[x] = orders[x]
      /\ UNCHANGED positions /\ placed' = [placed EXCEPT ![i] = placed[i] + 1]
  BY DEF BrokerPlaces
<1>4. Exits(whole, OrderOf[i].side) /\ 0 < st.tickets[i].qty /\ st.tickets[i].qty <= Abs(whole)
  BY <1>1, AllowedExits DEF PlaceAllowed, SeenShrunk
<1>5. positions[symbol] = whole
  BY <1>2 DEF BooksInv, Untouched
<1>6. \A x \in DOMAIN orders : orders[x].coid # i
  BY <1>1, <1>2 DEF TracedInv, OrdersTraced
<1>7. /\ o.coid = i /\ o.symbol = symbol /\ o.side = OrderOf[i].side /\ o.filled = 0
      /\ o.remaining = st.tickets[i].qty
  BY <1>2
<1> HIDE DEF n, o, whole, symbol
<1>8. OrdersExit'
  <2>1. /\ Exits(whole, o.side) /\ o.filled <= Abs(whole)
        /\ o.filled + o.remaining <= Abs(whole)
        /\ positions[o.symbol] = whole + Delta(o.side, o.filled)
    BY <1>1, <1>4, <1>5, <1>7 DEF Abs, Delta
  <2> QED BY <1>3, <1>7, <2>1 DEF BooksInv, OrdersExit, whole
<1>9. OneOrderEach'
  BY <1>3, <1>6, <1>7 DEF BooksInv, OneOrderEach
<1>10. PositionsShrunk' /\ Untouched'
  <2>1. \A j \in Intents : placed'[j] = 0 => placed[j] = 0
    BY <1>1, <1>2, <1>3
  <2> QED BY <1>3, <2>1 DEF BooksInv, PositionsShrunk, Untouched
<1> QED BY <1>8, <1>9, <1>10 DEF BooksInv

\* A replace goes to the intent's own order, with a quantity that was allowed
\* against a position of its symbol.
LEMMA ReplaceIsOwn ==
    ASSUME ControlPlane.global_mode = "ONLY_EXITS", NothingElse,
           TInv, ReplaceUnderWay, TracedInv, SeenShrunk, OrderIdsAreOwn, NEW i \in Intents,
           Replacing(i), ReplaceAllowed(i), st.tickets[i].oid \in DOMAIN orders
    PROVE  st.tickets[i].want_replace
              <= Abs(InitialPositions[orders[st.tickets[i].oid].symbol])
<1> DEFINE t == st.tickets[i]
           held == replace_seen[2]
<1>1. t.want_replace \in Int
  BY StateParts, TicketParts DEF TInv, StateOK
<1>2. held \in [DOMAIN InitialPositions -> Int] /\ replace_seen # <<>>
      /\ Shrinks(InitialPositions[OrderOf[i].symbol], held[OrderOf[i].symbol])
  BY IntentsAssumption DEF TInv, MemoryOK, Replacing, SeenShrunk
<1>3. t.want_replace <= Abs(InitialPositions[OrderOf[i].symbol])
  <2>1. Allowed(i, t.want_replace, held, "REPLACE")
    BY DEF ReplaceAllowed
  <2> HIDE DEF t, held
  <2> QED BY <1>1, <1>2, <2>1, AllowedExits
<1>4. t.coid = i
  <2>1. IsPresent(t)
    BY DEF Replacing, ReplaceUnderWay, IsPresent
  <2> QED BY <2>1 DEF NothingElse, TracedInv, AllNamed, Named
<1>5. orders[t.oid].coid = i
  <2>1. orders[t.oid].coid \in {i, NoCoid} /\ orders[t.oid].coid \in Intents
    BY <1>4 DEF OrderIdsAreOwn, TracedInv, OrdersTraced
  <2> QED BY <2>1, IntentsAssumption DEF NoCoid
<1>6. orders[t.oid].symbol = OrderOf[i].symbol
  BY <1>5 DEF TracedInv, OrdersTraced
<1> QED BY <1>3, <1>6

LEMMA BooksStep ==
    ASSUME ControlPlane.global_mode = "ONLY_EXITS", NothingElse, OneExitPerSymbol,
           TInv, ReplaceUnderWay, PInv, TracedInv, OrderIdsAreOwn, SeenShrunk, BooksInv,
           [Next]_vars
    PROVE  BooksInv'
<1>1. CASE UNCHANGED <<orders, positions, placed>>
  BY <1>1, SameBooks
<1>2. CASE \/ Start \/ RunnerCalls \/ BeginStep \/ Crash \/ CrashInPersist \/ LoseStateFile
           \/ CooldownExpires \/ MoveFlag \/ UNCHANGED vars
  BY <1>1, <1>2 DEF Start, RunnerCalls, submit_intent, adopt_order, request_cancel,
                    request_replace_qty, CallUpdates, BeginStep, Crash, CrashInPersist,
                    LoseStateFile, MemoryLost, CooldownExpires, MoveFlag, vars, broker_vars
<1>3. CASE \/ PollEvents \/ DropSeenFill \/ OrphanEvent \/ ApplyRequests \/ EndDrain \/ Reconcile
           \/ PersistState
  BY <1>1, <1>3 DEF PollEvents, DropSeenFill, OrphanEvent, ApplyRequests, EndDrain, Reconcile,
                    PersistState, broker_vars
<1>4. ASSUME NEW i \in Intents,
             \/ ApplyEvent(i) \/ DrainNothing(i) \/ ForbidPlace(i) \/ SkipPlaced(i)
             \/ LookBeforeReplace(i) \/ ForbidReplace(i) \/ LastFillRaises(i)
      PROVE  BooksInv'
  BY <1>1, <1>4 DEF ApplyEvent, DrainNothing, ForbidPlace, SkipPlaced, LookBeforeReplace,
                    ForbidReplace, LastFillRaises, broker_vars
<1>5. ASSUME NEW i \in Intents, Place(i) \/ PlaceRaises(i) PROVE BooksInv'
  <2>1. Draining(i, {"PENDING_PLACE"}) /\ PlaceAllowed(i) /\ st.tickets[i].oid = NoOid
        /\ (BrokerPlaces(i, st.next_order_id) \/ UNCHANGED broker_vars)
    BY <1>5 DEF Place, PlaceRaises
  <2>2. CASE UNCHANGED broker_vars
    BY <1>1, <2>2 DEF broker_vars
  <2> QED BY <2>1, <2>2, PlacedBooks
<1>6. ASSUME NEW i \in Intents, Cancel(i) \/ CancelRaises(i) PROVE BooksInv'
  <2>1. BrokerCancels(st.tickets[i].oid) \/ UNCHANGED broker_vars
    BY <1>6 DEF Cancel, CancelRaises
  <2>2. CASE UNCHANGED broker_vars
    BY <1>1, <2>2 DEF broker_vars
  <2> QED BY <2>1, <2>2, CancelledBooks
<1>7. ASSUME NEW i \in Intents, Replace(i) \/ ReplaceRaises(i) PROVE BooksInv'
  <2>1. Replacing(i) /\ ReplaceAllowed(i)
        /\ \/ BrokerReplaces(st.tickets[i].oid, st.tickets[i].want_replace)
           \/ UNCHANGED broker_vars
    BY <1>7 DEF Replace, ReplaceRaises
  <2>2. CASE UNCHANGED broker_vars
    BY <1>1, <2>2 DEF broker_vars
  <2>3. st.tickets[i].want_replace \in Int
    BY StateParts, TicketParts DEF TInv, StateOK
  <2> QED BY <2>1, <2>2, <2>3, ReplaceIsOwn, ReplacedBooks
<1>8. CASE SnapshotOrPollRaises
  BY <1>1, <1>8 DEF SnapshotOrPollRaises, broker_vars
<1>9. CASE Broker
  <2>1. \A x \in DOMAIN orders : orders[x] \in Order
    BY DEF TInv, BrokerOK
  <2>2. ASSUME NEW oid \in DOMAIN orders, BrokerAck(oid) \/ BrokerReject(oid) PROVE BooksInv'
    BY <2>1, <2>2, SettledBooks DEF BrokerAck, BrokerReject, Order
  <2>3. ASSUME NEW e, Resend(e) PROVE BooksInv'
    BY <1>1, <2>3 DEF Resend
  <2> QED BY <1>9, <2>2, <2>3, FilledBooks DEF Broker
<1> QED BY <1>2, <1>3, <1>4, <1>5, <1>6, <1>7, <1>8, <1>9 DEF Next, StepWork, Raises

\* With ONLY_EXITS a position keeps its sign and never grows (check_order_allowed,
\* _drain_actions), however its one exit is placed, replaced, cancelled and filled,
\* while the engine looks at positions that move under it, and whatever raises.
THEOREM ExitsOnlyShrink ==
    ASSUME NothingElse, OneExitPerSymbol, NeverRestarted \/ SingleIntent
    PROVE  Spec => []PositionsOnlyShrink
<1>1. CASE ControlPlane.global_mode # "ONLY_EXITS"
  <2>1. PositionsOnlyShrink
    BY <1>1 DEF PositionsOnlyShrink
  <2> QED BY <2>1, PTL
<1>2. CASE ControlPlane.global_mode = "ONLY_EXITS"
  <2>1. TInv /\ ReplaceUnderWay /\ PInv /\ TracedInv /\ OrderIdsAreOwn /\ ExitInv /\ [Next]_vars
          => ExitInv'
    BY <1>2, SeenStep, BooksStep DEF ExitInv, BooksInv
  <2>2. Init => ExitInv
    BY ExitInit
  <2>3. TInv /\ ExitInv => PositionsOnlyShrink
    BY DEF TInv, BrokerOK, ExitInv, PositionsShrunk, Shrinks, PositionsOnlyShrink
  <2> QED BY <2>1, <2>2, <2>3, TypesInvariant, ReplaceInvariant, PlacementInvariant,
             TracedInvariant, OwnOrderIds, PTL DEF Spec
<1> QED BY <1>1, <1>2

-----------------------------------------------------------------------------
(* What the engine counts: the filled quantities and the keys it remembers. *)

SameCounts(s, s2) ==
    /\ s2.fill_dedup_keys = s.fill_dedup_keys
    /\ \A i \in Intents : s2.tickets[i].filled = s.tickets[i].filled

\* No ticket of s2 ended DONE but did so in s.
DoneBefore(s, s2) ==
    \A i \in Intents : s2.tickets[i].terminal = "DONE" => s.tickets[i].terminal = "DONE"

CountsKept(s, s2) == SameCounts(s, s2) /\ DoneBefore(s, s2)

LEMMA CountsSame ==
    ASSUME NEW s, NEW s2, s2.tickets = s.tickets, s2.fill_dedup_keys = s.fill_dedup_keys
    PROVE  CountsKept(s, s2)
  BY DEF CountsKept, SameCounts, DoneBefore

LEMMA OneTicketCounts ==
    ASSUME NEW s \in EngineState, NEW i \in Intents, NEW t \in Ticket,
           t.filled = s.tickets[i].filled,
           t.terminal = "DONE" => s.tickets[i].terminal = "DONE"
    PROVE  CountsKept(s, WithTicket(s, i, t))
<1>1. /\ WithTicket(s, i, t).tickets = [s.tickets EXCEPT ![i] = t]
      /\ WithTicket(s, i, t).fill_dedup_keys = s.fill_dedup_keys
  BY TicketReplaced
<1>2. s.tickets \in [Intents -> Ticket]
  BY StateParts
<1> HIDE DEF WithTicket
<1> QED BY <1>1, <1>2 DEF CountsKept, SameCounts, DoneBefore

\* The operations that change no count.
Uncounting ==
    \/ \E i \in Intents :
          \/ request_cancel(i) \/ (\E q \in ReplaceQtys : request_replace_qty(i, q))
          \/ DrainNothing(i) \/ ForbidPlace(i) \/ SkipPlaced(i) \/ Place(i)
          \/ Cancel(i) \/ LookBeforeReplace(i) \/ ForbidReplace(i) \/ Replace(i)
          \/ PlaceRaises(i) \/ CancelRaises(i) \/ ReplaceRaises(i)
    \/ BeginStep \/ PollEvents \/ DropSeenFill \/ ApplyRequests \/ EndDrain \/ Reconcile
    \/ PersistState \/ SnapshotOrPollRaises
    \/ LoseStateFile \/ CooldownExpires \/ MoveFlag \/ Broker \/ UNCHANGED vars

LEMMA UncountingKeeps == ASSUME TInv, Uncounting PROVE CountsKept(st, st')
<1>s. st \in EngineState /\ StateOK
  BY DEF TInv, StateOK
<1>0. CASE st' = st
  BY <1>0, CountsSame
<1>1. CASE \/ BeginStep \/ PollEvents \/ DropSeenFill \/ EndDrain \/ PersistState \/ LoseStateFile
           \/ MoveFlag \/ Broker \/ UNCHANGED vars
  <2>1. UNCHANGED st
    BY <1>1 DEF BeginStep, PollEvents, DropSeenFill, EndDrain, PersistState, LoseStateFile,
                MoveFlag, Broker, BrokerAck, BrokerReject, BrokerFill, Resend, vars, engine_vars
  <2> QED BY <1>0, <2>1
<1>2. CASE Reconcile \/ CooldownExpires \/ SnapshotOrPollRaises
  <2>1. st'.tickets = st.tickets /\ st'.fill_dedup_keys = st.fill_dedup_keys
    BY <1>s, <1>2 DEF Reconcile, CooldownExpires, SnapshotOrPollRaises, StepRaises, EngineState
  <2> QED BY <2>1, CountsSame
<1>3. CASE ApplyRequests
  <2>1. /\ st'.fill_dedup_keys = st.fill_dedup_keys
        /\ \A i \in Intents : st'.tickets[i] = Requested(st.tickets[i])
    BY <1>s, <1>3 DEF ApplyRequests, EngineState
  <2>2. \A i \in Intents : st.tickets[i] \in Ticket
    BY <1>s, StateParts
  <2>3. \A i \in Intents : /\ Requested(st.tickets[i]).filled = st.tickets[i].filled
                           /\ Requested(st.tickets[i]).terminal = st.tickets[i].terminal
    BY <2>2 DEF Requested, Ticket
  <2> QED BY <2>1, <2>3 DEF CountsKept, SameCounts, DoneBefore
<1>4. ASSUME NEW i \in Intents,
             \/ request_cancel(i) \/ (\E q \in ReplaceQtys : request_replace_qty(i, q))
             \/ ForbidPlace(i) \/ SkipPlaced(i) \/ ForbidReplace(i) \/ Replace(i)
      PROVE  CountsKept(st, st')
  <2> DEFINE t == st.tickets[i]
  <2>1. t \in Ticket /\ t.want_replace \in Int
    BY <1>s, StateParts, TicketParts
  <2>2. \E u \in Ticket : /\ st' = WithTicket(st, i, u)
                          /\ u.filled = t.filled /\ u.terminal \in {t.terminal, "FAILED"}
    <3>1. CASE request_cancel(i)
      <4>1. [t EXCEPT !.want_cancel = TRUE] \in Ticket
        BY <2>1, TicketSet
      <4> QED BY <2>1, <3>1, <4>1 DEF request_cancel, CallUpdates, WithTicket, Ticket
    <3>2. ASSUME NEW q \in ReplaceQtys, request_replace_qty(i, q)
          PROVE  \E u \in Ticket : /\ st' = WithTicket(st, i, u)
                                   /\ u.filled = t.filled /\ u.terminal \in {t.terminal, "FAILED"}
      <4>1. [t EXCEPT !.want_replace = q] \in Ticket
        BY <2>1, TicketSet, IntentsAssumption
      <4> QED BY <2>1, <3>2, <4>1 DEF request_replace_qty, CallUpdates, WithTicket, Ticket
    <3>3. CASE ForbidPlace(i) \/ ForbidReplace(i)
      <4>1. Terminate(t, "FAILED") \in Ticket
        BY <2>1, TicketSet DEF TerminalStates
      <4>2. Terminate(t, "FAILED").filled = t.filled /\ Terminate(t, "FAILED").terminal = "FAILED"
        BY <2>1 DEF Terminate, Ticket
      <4> QED BY <3>3, <4>1, <4>2 DEF ForbidPlace, ForbidReplace, NextTicket
    <3>4. CASE SkipPlaced(i)
      <4>1. [t EXCEPT !.state = "SENT"] \in Ticket
        BY <2>1, TicketSet DEF TicketStates
      <4> QED BY <2>1, <3>4, <4>1 DEF SkipPlaced, NextTicket, WithSent, Ticket
    <3>5. CASE Replace(i)
      <4>1. [t EXCEPT !.qty = t.want_replace] \in Ticket
        BY <2>1, TicketSet
      <4> QED BY <2>1, <3>5, <4>1 DEF Replace, NextTicket, WithTicket, Ticket
    <3> QED BY <1>4, <3>1, <3>2, <3>3, <3>4, <3>5
  <2> QED BY <1>s, <2>2, OneTicketCounts
<1>5. ASSUME NEW i \in Intents,
             \/ DrainNothing(i) \/ Cancel(i) \/ LookBeforeReplace(i)
             \/ CancelRaises(i) \/ ReplaceRaises(i)
      PROVE  CountsKept(st, st')
  <2>1. st'.tickets = st.tickets /\ st'.fill_dedup_keys = st.fill_dedup_keys
    BY <1>s, <1>5 DEF DrainNothing, Cancel, LookBeforeReplace, CancelRaises, ReplaceRaises,
                      NextTicket, StepRaises, EngineState
  <2> QED BY <2>1, CountsSame
<1>6. ASSUME NEW i \in Intents, Place(i) \/ PlaceRaises(i) PROVE CountsKept(st, st')
  <2> DEFINE s == WithOrderId(i)
  <2>1. st.tickets[i] \in Ticket /\ st.tickets \in [Intents -> Ticket] /\ s \in EngineState
        /\ s.tickets[i] = [st.tickets[i] EXCEPT !.oid = st.next_order_id]
        /\ \A j \in Intents \ {i} : s.tickets[j] = st.tickets[j]
    BY <1>s, StateParts, OrderIdTyped, OrderIdParts
  <2>2. s.tickets[i].filled = st.tickets[i].filled /\ s.tickets[i].terminal = st.tickets[i].terminal
        /\ s.tickets[i] \in Ticket /\ s.fill_dedup_keys = st.fill_dedup_keys
    <3>1. s.fill_dedup_keys = st.fill_dedup_keys
      BY <1>s DEF WithOrderId, WithTicket, EngineState
    <3> QED BY <2>1, <3>1, StateParts DEF Ticket
  <2>3. st' = WithSent(s, i) \/ st' = [s EXCEPT !.cooldown = TRUE]
    BY <1>6 DEF Place, PlaceRaises, NextTicket, StepRaises
  <2> HIDE DEF s
  <2>4. CASE st' = WithSent(s, i)
    <3>1. PICK u : u = [s.tickets[i] EXCEPT !.state = "SENT"]
      OBVIOUS
    <3>2. u \in Ticket /\ u.filled = s.tickets[i].filled /\ u.terminal = s.tickets[i].terminal
      <4>1. u \in Ticket
        BY <2>2, <3>1, TicketSet DEF TicketStates
      <4> QED BY <2>2, <3>1, <4>1 DEF Ticket
    <3>3. CountsKept(s, st')
      <4>1. st' = WithTicket(s, i, u)
        BY <2>4, <3>1 DEF WithSent
      <4> QED BY <2>1, <3>2, <4>1, OneTicketCounts
    <3>4. \A j \in Intents : /\ s.tickets[j].filled = st.tickets[j].filled
                             /\ s.tickets[j].terminal = st.tickets[j].terminal
      BY <2>1, <2>2
    <3> QED BY <2>2, <3>3, <3>4 DEF CountsKept, SameCounts, DoneBefore
  <2>5. CASE st' = [s EXCEPT !.cooldown = TRUE]
    <3>1. st'.tickets = s.tickets /\ st'.fill_dedup_keys = s.fill_dedup_keys
      BY <2>1, <2>5 DEF EngineState
    <3> QED BY <2>1, <2>2, <3>1 DEF CountsKept, SameCounts, DoneBefore
  <2> QED BY <2>3, <2>4, <2>5
<1> QED BY <1>1, <1>2, <1>3, <1>4, <1>5, <1>6 DEF Uncounting

-----------------------------------------------------------------------------
(* The engine never counts more of an order than was filled.                *)

\* The keys that are remembered are the keys of different fills.
KeysTold(keys, fills) ==
    /\ \A k \in 1..Len(keys) : \E e \in fills : keys[k] = Key(e)
    /\ \A k, l \in 1..Len(keys) : keys[k] = keys[l] => k = l

Rising(left) == left \in [Nat -> Nat] /\ \A k, l \in Nat : k <= l => left[k] <= left[l]

\* What the fills of intent i may still add to what engine state s has counted:
\* a fill with key k, when it is counted, adds no more than left rises at at[k],
\* and left rises no higher than what was filled and not counted.
Tally(s, i, at, left, fills, held, n) ==
    /\ Rising(left) /\ at \in [FillKey -> Nat]
    /\ \A e \in fills : e.coid = i => at[Key(e)] < n
    /\ \A e, f \in fills :
          e.coid = i /\ f.coid = i /\ at[Key(e)] = at[Key(f)] => Key(e) = Key(f)
    /\ \A e \in fills :
          e.coid = i /\ ~Contains(s.fill_dedup_keys, Key(e)) =>
             left[at[Key(e)]] + e.qty <= left[at[Key(e)] + 1]
    /\ \A oid \in DOMAIN held :
          held[oid].coid = i => s.tickets[i].filled + left[n] <= held[oid].filled

\* What engine state s has counted, and all that it may still count, was filled.
Fits(s, fills, held, sent, n) ==
    \A i \in Intents :
        /\ sent[i] = 0 => s.tickets[i].filled = 0
        /\ \E at, left : Tally(s, i, at, left, fills, held, n)

FillKeys(fills) == {Key(e) : e \in fills}

\* n fills, of orders that were sent, have no more than n keys.
FillsTold(fills, sent, n) ==
    /\ \A e \in fills : e.coid \in Intents /\ sent[e.coid] > 0
    /\ IsFiniteSet(FillKeys(fills)) /\ Cardinality(FillKeys(fills)) <= n

LEMMA KeysFit ==
    ASSUME NEW fills, NEW sent, NEW n \in Nat, FillsTold(fills, sent, n),
           NEW keys \in Seq(FillKey), KeysTold(keys, fills)
    PROVE  Len(keys) <= n
<1> DEFINE key == [k \in 1..Len(keys) |-> keys[k]]
<1>1. key \in Injection(1..Len(keys), FillKeys(fills))
  <2>1. \A k \in 1..Len(keys) : keys[k] \in FillKeys(fills)
    BY DEF KeysTold, FillKeys
  <2>2. \A k, l \in 1..Len(keys) : key[k] = key[l] => k = l
    BY DEF KeysTold
  <2>3. key \in [1..Len(keys) -> FillKeys(fills)] /\ DOMAIN key = 1..Len(keys)
    BY <2>1
  <2> HIDE DEF key
  <2> QED BY <2>2, <2>3 DEF Injection, IsInjective
<1>2. Len(keys) \in Nat
  OBVIOUS
<1>3. \A m \in Nat : Cardinality(1..m) = m
  BY FS_Interval
<1>4. IsFiniteSet(FillKeys(fills)) /\ Cardinality(FillKeys(fills)) <= n
      /\ Cardinality(FillKeys(fills)) \in Nat
  BY FS_CardinalityType DEF FillsTold
<1>5. Cardinality(1..Len(keys)) <= Cardinality(FillKeys(fills))
  BY <1>1, <1>4, FS_Injection
<1> QED BY <1>2, <1>3, <1>4, <1>5

LEMMA OneMoreTold ==
    ASSUME NEW fills, NEW sent, NEW n \in Nat, FillsTold(fills, sent, n), NEW e,
           e.coid \in Intents, sent[e.coid] > 0
    PROVE  FillsTold(fills \cup {e}, sent, n + 1)
<1>1. FillKeys(fills \cup {e}) = FillKeys(fills) \cup {Key(e)}
  BY DEF FillKeys
<1>2. /\ IsFiniteSet(FillKeys(fills) \cup {Key(e)})
      /\ Cardinality(FillKeys(fills) \cup {Key(e)})
            \in {Cardinality(FillKeys(fills)), Cardinality(FillKeys(fills)) + 1}
  BY FS_AddElement DEF FillsTold
<1>3. Cardinality(FillKeys(fills)) \in Nat /\ Cardinality(FillKeys(fills)) <= n
  BY FS_CardinalityType DEF FillsTold
<1>4. Cardinality(FillKeys(fills \cup {e})) <= n + 1
  <2>1. PICK c, d : c = Cardinality(FillKeys(fills)) /\ d = Cardinality(FillKeys(fills) \cup {Key(e)})
    OBVIOUS
  <2>2. c \in Nat /\ c <= n /\ d \in {c, c + 1}
    BY <1>2, <1>3, <2>1
  <2>3. d <= n + 1
    BY ONLY <2>2, n \in Nat
  <2> QED BY <1>1, <2>1, <2>3
<1>5. \A f \in fills \cup {e} : f.coid \in Intents /\ sent[f.coid] > 0
  BY DEF FillsTold
<1> QED BY <1>1, <1>2, <1>4, <1>5 DEF FillsTold

\* Nothing is counted, and nothing is filled.
LEMMA FitsSame ==
    ASSUME NEW s, NEW s2, NEW fills, NEW held, NEW held2, NEW sent, NEW n,
           SameCounts(s, s2), Fits(s, fills, held, sent, n),
           \A oid \in DOMAIN held2 : /\ oid \in DOMAIN held /\ held2[oid].coid = held[oid].coid
                                     /\ held2[oid].filled = held[oid].filled
    PROVE  Fits(s2, fills, held2, sent, n)
<1> SUFFICES ASSUME NEW i \in Intents
             PROVE  /\ sent[i] = 0 => s2.tickets[i].filled = 0
                    /\ \E at, left : Tally(s2, i, at, left, fills, held2, n)
  BY DEF Fits
<1>1. s2.tickets[i].filled = s.tickets[i].filled /\ s2.fill_dedup_keys = s.fill_dedup_keys
  BY DEF SameCounts
<1>2. PICK at, left : Tally(s, i, at, left, fills, held, n)
  BY DEF Fits
<1>3. Tally(s2, i, at, left, fills, held2, n)
  BY <1>1, <1>2 DEF Tally
<1> QED BY <1>1, <1>3 DEF Fits

\* The broker fills e.qty of the one order of intent e.coid.
LEMMA FitsFilled ==
    ASSUME NEW s \in EngineState, NEW fills \in SUBSET BrokerEvent, NEW e \in BrokerEvent,
           NEW held, NEW held2, NEW sent, NEW n \in Nat, Fits(s, fills, held, sent, n),
           DOMAIN held2 = DOMAIN held,
           \A oid \in DOMAIN held :
              /\ held2[oid].coid = held[oid].coid
              /\ held[oid].filled \in Nat
              /\ held2[oid].filled = held[oid].filled
                                     + (IF held[oid].coid = e.coid THEN e.qty ELSE 0)
    PROVE  Fits(s, fills \cup {e}, held2, sent, n + 1)
<1> SUFFICES ASSUME NEW i \in Intents
             PROVE  \E at, left : Tally(s, i, at, left, fills \cup {e}, held2, n + 1)
  BY DEF Fits
<1>1. PICK at, left : Tally(s, i, at, left, fills, held, n)
  BY DEF Fits
<1>2. /\ s.tickets[i].filled \in Int /\ e.qty \in Nat /\ Key(e) \in FillKey
      /\ left \in [Nat -> Nat] /\ at \in [FillKey -> Nat]
      /\ \A f \in fills : Key(f) \in FillKey /\ f.qty \in Nat
  BY <1>1, StateParts, TicketParts, EventParts DEF Tally, Rising
<1> DEFINE added == IF i = e.coid THEN e.qty ELSE 0
           known == \E f \in fills : f.coid = i /\ Key(f) = Key(e)
           at2 == [k \in FillKey |-> IF k = Key(e) /\ ~known THEN n ELSE at[k]]
           left2 == [k \in Nat |-> IF k <= n THEN left[k] ELSE left[n] + added]
<1>3. added \in Nat /\ left2 \in [Nat -> Nat] /\ at2 \in [FillKey -> Nat]
  BY <1>2
<1>4. \A k, l \in Nat : k <= l => left2[k] <= left2[l]
  BY <1>1, <1>2, <1>3 DEF Tally, Rising
<1>5. \A f \in fills : f.coid = i => /\ at2[Key(f)] = at[Key(f)]
                                     /\ at[Key(f)] \in Nat /\ at[Key(f)] < n
  BY <1>1, <1>2 DEF Tally
<1>6. ~known => at2[Key(e)] = n
  BY <1>2
<1>7. \A k \in Nat : k <= n => left2[k] = left[k]
  BY <1>2
<1>8. left2[n + 1] = left[n] + added /\ left2[n] = left[n] /\ left[n] \in Nat
  BY <1>2
<1> HIDE DEF at2, left2
<1>9. ASSUME NEW f \in fills \cup {e}, f.coid = i
      PROVE  /\ at2[Key(f)] < n + 1
             /\ at2[Key(f)] = n => Key(f) = Key(e) /\ ~known
             /\ f \in fills \/ known =>
                   \E g \in fills : g.coid = i /\ Key(g) = Key(f) /\ g.qty = f.qty
  <2>1. CASE f \in fills
    BY <1>5, <1>9, <2>1
  <2>2. CASE f = e /\ known
    <3>1. PICK g \in fills : g.coid = i /\ Key(g) = Key(e)
      BY <2>2
    <3>2. g.qty = e.qty
      BY <3>1 DEF Key
    <3>3. at2[Key(e)] \in Nat /\ at2[Key(e)] < n
      BY <1>5, <3>1
    <3> QED BY <2>2, <3>1, <3>2, <3>3
  <2>3. CASE f = e /\ ~known
    <3>1. f \notin fills
      BY <1>9, <2>3
    <3> HIDE DEF known
    <3> QED BY <1>6, <2>3, <3>1
  <2> HIDE DEF known
  <2> QED BY <1>9, <2>1, <2>2, <2>3
<1>10. ASSUME NEW f \in fills \cup {e}, NEW g \in fills \cup {e}, f.coid = i, g.coid = i,
              at2[Key(f)] = at2[Key(g)]
       PROVE  Key(f) = Key(g)
  <2>1. CASE at2[Key(f)] = n
    BY <1>9, <1>10, <2>1
  <2>2. CASE at2[Key(f)] # n
    <3>1. (f \in fills \/ known) /\ (g \in fills \/ known)
      BY <1>6, <1>10, <2>2
    <3>2. PICK x \in fills : x.coid = i /\ Key(x) = Key(f)
      BY <1>9, <1>10, <3>1
    <3>3. PICK y \in fills : y.coid = i /\ Key(y) = Key(g)
      BY <1>9, <1>10, <3>1
    <3>4. at[Key(x)] = at[Key(y)]
      BY <1>5, <1>10, <3>2, <3>3
    <3> QED BY <1>1, <3>2, <3>3, <3>4 DEF Tally
  <2> QED BY <2>1, <2>2
<1>11. ASSUME NEW f \in fills \cup {e}, f.coid = i, ~Contains(s.fill_dedup_keys, Key(f))
       PROVE  left2[at2[Key(f)]] + f.qty <= left2[at2[Key(f)] + 1]
  <2>1. CASE f \in fills \/ known
    <3>1. PICK g \in fills : g.coid = i /\ Key(g) = Key(f) /\ g.qty = f.qty
      BY <1>9, <1>11, <2>1
    <3>2. left[at[Key(g)]] + g.qty <= left[at[Key(g)] + 1]
      BY <1>1, <1>11, <3>1 DEF Tally
    <3>3. PICK x : x = at[Key(g)]
      OBVIOUS
    <3>4. x \in Nat /\ x < n /\ at2[Key(f)] = x
      BY <1>5, <3>1, <3>3
    <3>5. x <= n /\ x + 1 \in Nat /\ x + 1 <= n
      BY <3>4
    <3>6. left2[x] = left[x] /\ left2[x + 1] = left[x + 1]
      BY <1>7, <3>4, <3>5
    <3> QED BY <3>1, <3>2, <3>3, <3>4, <3>6
  <2>2. CASE f = e /\ ~known
    BY <1>2, <1>6, <1>8, <1>11, <2>2
  <2> QED BY <2>1, <2>2
<1>12. ASSUME NEW oid \in DOMAIN held2, held2[oid].coid = i
       PROVE  s.tickets[i].filled + left2[n + 1] <= held2[oid].filled
  <2>1. held2[oid].filled = held[oid].filled + added
    BY <1>12
  <2>2. s.tickets[i].filled + left[n] <= held[oid].filled
    BY <1>1, <1>12 DEF Tally
  <2>3. held[oid].filled \in Nat
    BY <1>2
  <2> HIDE DEF added
  <2> QED BY <1>2, <1>3, <1>8, <2>1, <2>2, <2>3
<1>13. Tally(s, i, at2, left2, fills \cup {e}, held2, n + 1)
  <2>1. \A f \in fills \cup {e} : f.coid = i => at2[Key(f)] < n + 1
    BY <1>9
  <2> QED BY <1>3, <1>4, <1>10, <1>11, <1>12, <2>1 DEF Tally, Rising
<1> QED BY <1>13

\* The order of intent c is sent: nothing was filled of it before.
LEMMA FitsPlaced ==
    ASSUME NEW s \in EngineState, NEW fills \in SUBSET BrokerEvent, NEW c \in Intents,
           NEW held, NEW held2, NEW sent \in [Intents -> Nat], NEW sent2 \in [Intents -> Nat],
           NEW n \in Nat, FillsTold(fills, sent, n), Fits(s, fills, held, sent, n),
           sent[c] = 0, \A i \in Intents \ {c} : sent2[i] = sent[i], sent2[c] > 0,
           \A oid \in DOMAIN held2 :
              \/ held2[oid].coid = c /\ held2[oid].filled = 0
              \/ oid \in DOMAIN held /\ held[oid].coid # c /\ held2[oid] = held[oid]
    PROVE  Fits(s, fills, held2, sent2, n)
<1> SUFFICES ASSUME NEW i \in Intents
             PROVE  /\ sent2[i] = 0 => s.tickets[i].filled = 0
                    /\ \E at, left : Tally(s, i, at, left, fills, held2, n)
  BY DEF Fits
<1>1. CASE i = c
  <2> DEFINE at == [k \in FillKey |-> 0]
             left == [k \in Nat |-> 0]
  <2>1. s.tickets[i].filled = 0 /\ sent2[i] # 0
    BY <1>1 DEF Fits
  <2>2. \A e \in fills : e.coid # i
    BY <1>1 DEF FillsTold
  <2>3. Tally(s, i, at, left, fills, held2, n)
    BY <1>1, <2>1, <2>2 DEF Tally, Rising
  <2> HIDE DEF at, left
  <2> QED BY <2>1, <2>3
<1>2. CASE i # c
  <2>1. PICK at, left : Tally(s, i, at, left, fills, held, n)
    BY DEF Fits
  <2>2. Tally(s, i, at, left, fills, held2, n)
    BY <1>2, <2>1 DEF Tally
  <2>3. sent2[i] = sent[i]
    BY <1>2
  <2> QED BY <2>2, <2>3 DEF Fits
<1> QED BY <1>1, <1>2

\* A tally may be lowered by a step that it makes.
Lower(left, z, q) == [k \in Nat |-> IF k <= z THEN left[k] ELSE left[k] - q]

LEMMA Lowered ==
    ASSUME NEW left, Rising(left), NEW z \in Nat, NEW q \in Nat, left[z] + q <= left[z + 1]
    PROVE  Rising(Lower(left, z, q))
<1>1. left \in [Nat -> Nat] /\ \A k, l \in Nat : k <= l => left[k] <= left[l]
  BY DEF Rising
<1>2. \A k \in Nat : k > z => left[k] >= left[z] + q
  <2> SUFFICES ASSUME NEW k \in Nat, k > z PROVE left[k] >= left[z] + q
    OBVIOUS
  <2>1. z + 1 \in Nat /\ z + 1 <= k
    OBVIOUS
  <2>2. left[z + 1] <= left[k]
    BY <1>1, <2>1
  <2> QED BY <1>1, <2>1, <2>2
<1>3. \A k \in Nat : k > z => left[k] - q \in Nat
  BY <1>1, <1>2
<1>4. Lower(left, z, q) \in [Nat -> Nat]
  BY <1>1, <1>3 DEF Lower
<1>5. \A k, l \in Nat : k <= l => Lower(left, z, q)[k] <= Lower(left, z, q)[l]
  BY <1>1, <1>2 DEF Lower
<1> QED BY <1>4, <1>5 DEF Rising

LEMMA ContainsAppended ==
    ASSUME NEW keys \in Seq(FillKey), NEW key \in FillKey
    PROVE  /\ Contains(Append(keys, key), key)
           /\ \A other : Contains(keys, other) => Contains(Append(keys, key), other)
<1>1. /\ Len(keys) \in Nat /\ Len(Append(keys, key)) = Len(keys) + 1
      /\ Append(keys, key)[Len(keys) + 1] = key
      /\ \A k \in 1..Len(keys) : Append(keys, key)[k] = keys[k]
  BY AppendProperties
<1> QED BY <1>1 DEF Contains

\* A fill that was not counted before is remembered, and counted at most once.
LEMMA FitsCounted ==
    ASSUME NEW s \in EngineState, NEW s2 \in EngineState, NEW fills \in SUBSET BrokerEvent,
           NEW e \in fills, NEW held, NEW sent \in [Intents -> Nat], NEW n \in Nat,
           FillsTold(fills, sent, n), Fits(s, fills, held, sent, n),
           \A oid \in DOMAIN held : held[oid].filled \in Nat,
           ~Contains(s.fill_dedup_keys, Key(e)),
           s2.fill_dedup_keys = Append(s.fill_dedup_keys, Key(e)),
           \A i \in Intents \ {e.coid} : s2.tickets[i].filled = s.tickets[i].filled,
           s2.tickets[e.coid].filled
              \in {s.tickets[e.coid].filled, s.tickets[e.coid].filled + e.qty}
    PROVE  Fits(s2, fills, held, sent, n)
<1> SUFFICES ASSUME NEW i \in Intents
             PROVE  /\ sent[i] = 0 => s2.tickets[i].filled = 0
                    /\ \E at, left : Tally(s2, i, at, left, fills, held, n)
  BY DEF Fits
<1>1. PICK at, left : Tally(s, i, at, left, fills, held, n)
  BY DEF Fits
<1>2. /\ s.tickets[i].filled \in Int /\ e.qty \in Nat /\ Key(e) \in FillKey
      /\ at \in [FillKey -> Nat] /\ e.coid \in Intents /\ sent[e.coid] > 0
  BY <1>1, StateParts, TicketParts, EventParts DEF FillsTold, Tally
<1>3. \A f \in fills : ~Contains(s2.fill_dedup_keys, Key(f)) =>
         ~Contains(s.fill_dedup_keys, Key(f)) /\ Key(f) # Key(e)
  <2> SUFFICES ASSUME NEW f \in fills
               PROVE  /\ Contains(s.fill_dedup_keys, Key(f)) => Contains(s2.fill_dedup_keys, Key(f))
                      /\ Contains(s2.fill_dedup_keys, Key(e))
    OBVIOUS
  <2>1. s.fill_dedup_keys \in Seq(FillKey) /\ Key(e) \in FillKey
    BY StateParts, EventParts
  <2> QED BY <2>1, ContainsAppended
<1>4. CASE s2.tickets[i].filled = s.tickets[i].filled
  <2>1. Tally(s2, i, at, left, fills, held, n)
    BY <1>1, <1>3, <1>4 DEF Tally
  <2> QED BY <1>4, <2>1 DEF Fits
<1>5. CASE i = e.coid /\ s2.tickets[i].filled = s.tickets[i].filled + e.qty
  <2>1. left[at[Key(e)]] + e.qty <= left[at[Key(e)] + 1] /\ at[Key(e)] < n
    BY <1>1, <1>5 DEF Tally
  <2>2. PICK z, q : z = at[Key(e)] /\ q = e.qty
    OBVIOUS
  <2> DEFINE left2 == Lower(left, z, q)
  <2>3. Rising(left) /\ Rising(left2) /\ z \in Nat /\ q \in Nat
    BY <1>1, <1>2, <2>1, <2>2, Lowered DEF Tally
  <2>4. \A k \in Nat : left2[k] = IF k <= z THEN left[k] ELSE left[k] - q
    BY DEF Lower
  <2> HIDE DEF left2
  <2>5. ASSUME NEW f \in fills, f.coid = i, ~Contains(s2.fill_dedup_keys, Key(f))
        PROVE  left2[at[Key(f)]] + f.qty <= left2[at[Key(f)] + 1]
    <3>1. at[Key(f)] # at[Key(e)] /\ Key(f) \in FillKey /\ f.qty \in Nat
      BY <1>1, <1>3, <1>5, <2>5, EventParts DEF Tally
    <3>2. left[at[Key(f)]] + f.qty <= left[at[Key(f)] + 1]
      BY <1>1, <1>3, <2>5 DEF Tally
    <3>3. PICK y, r : y = at[Key(f)] /\ r = f.qty
      OBVIOUS
    <3>4. y \in Nat /\ r \in Nat /\ y # z
      BY <1>2, <2>2, <3>1, <3>3
    <3>5. left[y] + r <= left[y + 1]
      BY <3>2, <3>3
    <3>6. left2[y] + r <= left2[y + 1]
      BY ONLY <2>3, <2>4, <3>4, <3>5 DEF Rising
    <3> QED BY <3>3, <3>6
  <2>6. ASSUME NEW oid \in DOMAIN held, held[oid].coid = i
        PROVE  s2.tickets[i].filled + left2[n] <= held[oid].filled
    <3>1. PICK a, b, h : a = s.tickets[i].filled /\ b = s2.tickets[i].filled
                         /\ h = held[oid].filled
      OBVIOUS
    <3>2. a + left[n] <= h /\ b = a + q /\ a \in Int /\ h \in Nat
      BY <1>1, <1>2, <1>5, <2>2, <2>6, <3>1 DEF Tally
    <3>3. z < n
      BY <2>1, <2>2
    <3>4. b + left2[n] <= h
      BY ONLY <2>3, <2>4, <3>2, <3>3, n \in Nat DEF Rising
    <3> QED BY <3>1, <3>4
  <2>7. Tally(s2, i, at, left2, fills, held, n)
    BY <1>1, <2>3, <2>5, <2>6 DEF Tally
  <2>8. sent[i] # 0
    BY ONLY <1>2, <1>5, sent \in [Intents -> Nat]
  <2> QED BY <2>7, <2>8
<1> QED BY <1>4, <1>5

\* A fresh state has counted nothing.
LEMMA FitsNothing ==
    ASSUME NEW held, NEW sent, NEW n, NEW s, \A i \in Intents : s.tickets[i].filled = 0,
           DOMAIN held = {}
    PROVE  Fits(s, {}, held, sent, n)
<1> DEFINE at == [k \in FillKey |-> 0]
           left == [k \in Nat |-> 0]
<1>1. \A i \in Intents : Tally(s, i, at, left, {}, held, n)
  BY DEF Tally, Rising
<1> HIDE DEF at, left
<1> QED BY <1>1 DEF Fits

LEMMA KeysAppended ==
    ASSUME NEW keys \in Seq(FillKey), NEW fills \in SUBSET BrokerEvent, NEW e \in fills,
           KeysTold(keys, fills), ~Contains(keys, Key(e))
    PROVE  KeysTold(Append(keys, Key(e)), fills)
<1> DEFINE added == Append(keys, Key(e))
<1>1. Key(e) \in FillKey
  BY EventParts
<1>2. /\ Len(keys) \in Nat /\ Len(added) = Len(keys) + 1 /\ added[Len(keys) + 1] = Key(e)
      /\ \A k \in 1..Len(keys) : added[k] = keys[k]
  BY <1>1, AppendProperties
<1> HIDE DEF added
<1>3. \A k \in 1..Len(keys) : added[k] # Key(e)
  BY <1>2 DEF Contains
<1>4. \A k \in 1..Len(added) : k = Len(keys) + 1 \/ k \in 1..Len(keys)
  BY <1>2
<1>5. \A k \in 1..Len(added) : \E f \in fills : added[k] = Key(f)
  BY <1>2, <1>4 DEF KeysTold
<1>6. \A k, l \in 1..Len(added) : added[k] = added[l] => k = l
  BY <1>2, <1>3, <1>4 DEF KeysTold
<1>7. KeysTold(added, fills)
  BY <1>5, <1>6 DEF KeysTold
<1> QED BY <1>7 DEF added

\* What an event may do to the counts of the ticket of intent i.
Counts(i, e, u) ==
    /\ \/ u.filled = st.tickets[i].filled
       \/ e.type = "FILL" /\ u.filled = st.tickets[i].filled + e.qty
    /\ u.terminal = "DONE" =>
          st.tickets[i].terminal = "DONE" \/ positions[OrderOf[i].symbol] = 0

LEMMA AppliedCounts ==
    ASSUME StateOK, NEW i \in Intents, NEW e \in BrokerEvent
    PROVE  /\ Counts(i, e, Applied(i, e))
           /\ e.type = "FILL" => Counts(i, e, Counted(i, e))
<1> DEFINE t == st.tickets[i]
           c == Counted(i, e)
<1>1. t \in Ticket /\ c \in Ticket
  BY StateParts, CountedTyped DEF StateOK
<1>2. e.type \in {"ACK", "REJECT", "CANCELLED", "FILL"} /\ e.remaining \in Int
  BY EventParts
<1>3. c.filled = t.filled + e.qty /\ c.terminal = t.terminal
  BY <1>1 DEF Counted, Ticket
<1> HIDE DEF t, c
<1>4. \A how : \A u \in Ticket : Terminate(u, how).filled = u.filled /\ Terminate(u, how).terminal = how
  BY DEF Terminate, Ticket
<1>5. \A x : \A u \in Ticket : /\ [u EXCEPT !.state = x].filled = u.filled
                                /\ [u EXCEPT !.state = x].terminal = u.terminal
  BY DEF Ticket
<1>c. e.type = "FILL" => Counts(i, e, c)
  BY <1>3 DEF Counts, t
<1> SUFFICES Counts(i, e, Applied(i, e))
  BY <1>c DEF c
<1>6. CASE IsTerminal(t)
  <2>1. Applied(i, e) = t
    BY <1>6 DEF Applied, t
  <2> QED BY <2>1 DEF Counts, t
<1>7. CASE ~IsTerminal(t) /\ e.type \in {"ACK", "REJECT", "CANCELLED"}
  <2>1. \/ Applied(i, e) \in {t, [t EXCEPT !.state = "ACKED"]}
        \/ \E how \in {"FAILED", "CANCELLED"} : Applied(i, e) = Terminate(t, how)
    BY <1>7 DEF Applied, t
  <2>2. /\ [t EXCEPT !.state = "ACKED"].filled = t.filled
        /\ [t EXCEPT !.state = "ACKED"].terminal = t.terminal
        /\ \A how : Terminate(t, how).filled = t.filled /\ Terminate(t, how).terminal = how
    BY <1>1, <1>4, <1>5
  <2> QED BY <2>1, <2>2 DEF Counts, t
<1>8. CASE ~IsTerminal(t) /\ e.type = "FILL" /\ e.remaining > 0
  <2>1. Applied(i, e) = [c EXCEPT !.state = "PARTIAL"]
    BY <1>2, <1>8 DEF Applied, t, c
  <2>2. /\ [c EXCEPT !.state = "PARTIAL"].filled = c.filled
        /\ [c EXCEPT !.state = "PARTIAL"].terminal = c.terminal
    BY <1>1, <1>5
  <2> QED BY <1>3, <1>8, <2>1, <2>2 DEF Counts, t
<1>9. CASE ~IsTerminal(t) /\ e.type = "FILL" /\ e.remaining <= 0
  BY <1>1, <1>2, <1>3, <1>4, <1>9 DEF Applied, Counts, t, c
<1> QED BY <1>2, <1>6, <1>7, <1>8, <1>9

\* An event that is applied: it was not seen, and only its ticket counts it.
LEMMA EventCounts ==
    ASSUME TInv, NEW i \in Intents, ApplyEvent(i) \/ LastFillRaises(i)
    PROVE  /\ batch # <<>> /\ pc = "apply" /\ Head(batch) \in BrokerEvent
           /\ ~SeenFill(Head(batch)) /\ i \in MatchedTickets(Head(batch))
           /\ st'.fill_dedup_keys = Remembered(Head(batch)).fill_dedup_keys
           /\ Counts(i, Head(batch), st'.tickets[i])
           /\ \A j \in Intents \ {i} : st'.tickets[j] = st.tickets[j]
<1> DEFINE e == Head(batch)
<1>1. /\ batch # <<>> /\ pc = "apply" /\ e \in BrokerEvent /\ StateOK
      /\ ~SeenFill(e) /\ i \in MatchedTickets(e)
  BY BatchParts DEF ApplyEvent, LastFillRaises, TInv
<1>2. Remembered(e) \in EngineState /\ Remembered(e).tickets = st.tickets
  BY <1>1, RememberedTyped
<1>3. \E u, cooled :
         u \in Ticket /\ Counts(i, e, u) /\ st' = [WithTicket(Remembered(e), i, u) EXCEPT !.cooldown = cooled]
  <2>1. CASE ApplyEvent(i)
    BY <1>1, <2>1, AppliedTyped, AppliedCounts DEF ApplyEvent
  <2>2. CASE LastFillRaises(i)
    BY <1>1, <2>2, CountedTyped, AppliedCounts DEF LastFillRaises, StepRaises
  <2> QED BY <2>1, <2>2
<1>4. PICK u, cooled :
         u \in Ticket /\ Counts(i, e, u) /\ st' = [WithTicket(Remembered(e), i, u) EXCEPT !.cooldown = cooled]
  BY <1>3
<1>5. PICK s : s = WithTicket(Remembered(e), i, u)
  OBVIOUS
<1> HIDE DEF e
<1>6. /\ s \in EngineState /\ s.tickets = [st.tickets EXCEPT ![i] = u]
      /\ s.fill_dedup_keys = Remembered(e).fill_dedup_keys
  BY <1>2, <1>4, <1>5, TicketReplaced
<1>7. st'.tickets = s.tickets /\ st'.fill_dedup_keys = s.fill_dedup_keys
  BY <1>4, <1>5, <1>6 DEF EngineState
<1>8. st.tickets \in [Intents -> Ticket]
  BY <1>1, StateParts DEF StateOK
<1>9. st'.tickets[i] = u /\ \A j \in Intents \ {i} : st'.tickets[j] = st.tickets[j]
  BY <1>6, <1>7, <1>8
<1> QED BY <1>1, <1>4, <1>6, <1>7, <1>9 DEF e

FillEvents == {e \in emitted : e.type = "FILL"}

CopyFits(s, fills, held, sent, n) ==
    KeysTold(s.fill_dedup_keys, fills) /\ Fits(s, fills, held, sent, n)

\* The engine's memory, what its two files hold, and what it starts from without them.
Copies == {st, state_file, ledger_state, FreshState}

CopiesFit == \A s \in Copies : CopyFits(s, FillEvents, orders, placed, execs)

\* What the engine receives was emitted.
EventsEmitted == batch \in Seq(emitted) /\ queue \in Seq(emitted)

CountInv ==
    /\ FillsTold(FillEvents, placed, execs)
    /\ EventsEmitted
    /\ OneOrderEach
    /\ CopiesFit

\* No order is filled or sent.
FillsKept ==
    /\ FillEvents' = FillEvents
    /\ UNCHANGED <<positions, placed, execs>>
    /\ DOMAIN orders' = DOMAIN orders
    /\ \A oid \in DOMAIN orders : /\ orders'[oid].coid = orders[oid].coid
                                  /\ orders'[oid].filled = orders[oid].filled

LEMMA CountInit == ASSUME NothingElse, Init PROVE CountInv
<1>1. /\ orders = InitialOrders /\ DOMAIN orders = {} /\ FillEvents = {}
      /\ st = FreshState /\ state_file = FreshState /\ ledger_state = FreshState
      /\ batch = <<>> /\ queue = <<>>
  BY DEF Init, NothingElse, FillEvents
<1>2. FreshState.fill_dedup_keys = <<>> /\ \A i \in Intents : FreshState.tickets[i].filled = 0
  BY DEF FreshState, AbsentTicket, NewTicket
<1>3. CopyFits(FreshState, {}, orders, placed, execs)
  <2>1. KeysTold(<<>>, {})
    BY DEF KeysTold
  <2> QED BY <1>1, <1>2, <2>1, FitsNothing DEF CopyFits
<1>4. CopiesFit
  BY <1>1, <1>3 DEF CopiesFit, Copies
<1>5. EventsEmitted
  BY <1>1 DEF EventsEmitted
<1>6. FillsTold({}, placed, 0)
  BY FS_EmptySet DEF FillsTold, FillKeys
<1> QED BY <1>1, <1>4, <1>5, <1>6 DEF Init, CountInv, OneOrderEach

LEMMA CopiesKept ==
    ASSUME CopiesFit, FillsKept,
           \E s \in Copies : SameCounts(s, st'),
           \E s \in Copies : SameCounts(s, state_file'),
           \E s \in Copies : SameCounts(s, ledger_state')
    PROVE  CopiesFit'
<1>1. ASSUME NEW s2, \E s \in Copies : SameCounts(s, s2)
      PROVE  CopyFits(s2, FillEvents', orders', placed', execs')
  <2>1. PICK s \in Copies : SameCounts(s, s2)
    BY <1>1
  <2>2. CopyFits(s, FillEvents, orders, placed, execs)
    BY DEF CopiesFit
  <2>3. KeysTold(s2.fill_dedup_keys, FillEvents)
    BY <2>1, <2>2 DEF CopyFits, SameCounts
  <2>4. Fits(s2, FillEvents, orders', placed, execs)
    BY <2>1, <2>2, FitsSame DEF CopyFits, FillsKept
  <2> QED BY <2>3, <2>4 DEF CopyFits, FillsKept
<1>2. SameCounts(FreshState, FreshState) /\ FreshState \in Copies
  BY CountsSame DEF CountsKept, Copies
<1> QED BY <1>1, <1>2 DEF CopiesFit, Copies

LEMMA SeqLarger ==
    ASSUME NEW S, NEW T, S \subseteq T, NEW seq \in Seq(S)
    PROVE  seq \in Seq(T)
  OBVIOUS

\* Every event on its way to the engine was emitted.
LEMMA EmittedStep == ASSUME EventsEmitted, [Next]_vars PROVE EventsEmitted'
<1>1. CASE UNCHANGED <<queue, emitted>> /\ batch' \in {batch, <<>>}
  <2>1. <<>> \in Seq(emitted)
    OBVIOUS
  <2>2. batch' \in Seq(emitted) /\ queue' \in Seq(emitted)
    BY <1>1, <2>1 DEF EventsEmitted
  <2> QED BY <1>1, <2>2 DEF EventsEmitted
<1>2. CASE UNCHANGED batch /\ \E e : Emit(e)
  <2>1. PICK e : Emit(e)
    BY <1>2
  <2>2. emitted \subseteq emitted' /\ e \in emitted' /\ queue' = Append(queue, e)
    BY <2>1 DEF Emit
  <2>3. batch \in Seq(emitted') /\ queue \in Seq(emitted')
    BY <2>2, SeqLarger DEF EventsEmitted
  <2> QED BY <1>2, <2>2, <2>3, AppendProperties DEF EventsEmitted
<1>3. CASE PollEvents
  BY <1>3 DEF PollEvents, EventsEmitted
<1>4. ASSUME NEW e \in emitted, Resend(e) PROVE EventsEmitted'
  <2>1. UNCHANGED <<batch, emitted>> /\ queue' = Append(queue, e)
    BY <1>4 DEF Resend, engine_vars
  <2> QED BY <2>1, AppendProperties DEF EventsEmitted
<1>5. CASE DropSeenFill \/ OrphanEvent \/ \E i \in Intents : ApplyEvent(i)
  <2>1. UNCHANGED <<queue, emitted>> /\ batch' = Tail(batch) /\ batch # <<>>
    BY <1>5 DEF DropSeenFill, OrphanEvent, ApplyEvent, broker_vars
  <2> QED BY <2>1, HeadTailProperties DEF EventsEmitted
<1>6. CASE \/ Start \/ RunnerCalls \/ BeginStep \/ Crash \/ CrashInPersist \/ LoseStateFile
           \/ CooldownExpires \/ MoveFlag \/ UNCHANGED vars
  BY <1>1, <1>6 DEF Start, RunnerCalls, submit_intent, adopt_order, request_cancel,
                    request_replace_qty, CallUpdates, BeginStep, Crash, CrashInPersist,
                    LoseStateFile, MemoryLost, CooldownExpires, MoveFlag, vars, broker_vars,
                    engine_vars
<1>7. CASE ApplyRequests \/ EndDrain \/ Reconcile \/ PersistState \/ SnapshotOrPollRaises
  BY <1>1, <1>7 DEF ApplyRequests, EndDrain, Reconcile, PersistState, SnapshotOrPollRaises,
                    StepRaises, broker_vars
<1>8. ASSUME NEW i \in Intents,
             \/ DrainNothing(i) \/ ForbidPlace(i) \/ SkipPlaced(i) \/ LookBeforeReplace(i)
             \/ ForbidReplace(i) \/ LastFillRaises(i)
      PROVE  EventsEmitted'
  BY <1>1, <1>8 DEF DrainNothing, ForbidPlace, SkipPlaced, LookBeforeReplace, ForbidReplace,
                    LastFillRaises, NextTicket, StepRaises, broker_vars
<1>9. ASSUME NEW i \in Intents,
             \/ Place(i) \/ PlaceRaises(i) \/ Cancel(i) \/ CancelRaises(i) \/ Replace(i)
             \/ ReplaceRaises(i)
      PROVE  EventsEmitted'
  <2>1. batch' \in {batch, <<>>}
    BY <1>9 DEF Place, PlaceRaises, Cancel, CancelRaises, Replace, ReplaceRaises, NextTicket,
                StepRaises
  <2>2. UNCHANGED <<queue, emitted>> \/ \E e : Emit(e)
    BY <1>9 DEF Place, PlaceRaises, Cancel, CancelRaises, Replace, ReplaceRaises,
                BrokerPlaces, BrokerCancels, BrokerReplaces, broker_vars
  <2>3. CASE batch' = <<>> /\ \E e : Emit(e)
    <3>1. PICK e : Emit(e)
      BY <2>3
    <3>2. emitted \subseteq emitted' /\ e \in emitted' /\ queue' = Append(queue, e)
      BY <3>1 DEF Emit
    <3>3. queue \in Seq(emitted')
      BY <3>2, SeqLarger DEF EventsEmitted
    <3> QED BY <2>3, <3>2, <3>3, AppendProperties DEF EventsEmitted
  <2> QED BY <1>1, <1>2, <2>1, <2>2, <2>3
<1>10. CASE Broker
  <2>1. ASSUME NEW oid \in DOMAIN orders, BrokerAck(oid) \/ BrokerReject(oid) PROVE EventsEmitted'
    BY <1>2, <2>1 DEF BrokerAck, BrokerReject, engine_vars
  <2>2. ASSUME NEW oid, NEW qty, BrokerFill(oid, qty) PROVE EventsEmitted'
    BY <1>2, <2>2 DEF BrokerFill, engine_vars
  <2> QED BY <1>4, <1>10, <2>1, <2>2 DEF Broker
<1> QED BY <1>3, <1>5, <1>6, <1>7, <1>8, <1>9, <1>10 DEF Next, StepWork, Raises

\* The operations that send an order or fill one, and all the others.
Sends(i) == (Place(i) \/ PlaceRaises(i)) /\ BrokerPlaces(i, st.next_order_id)

LEMMA NothingFilled == UNCHANGED broker_vars => FillsKept
  BY DEF broker_vars, FillsKept, FillEvents

LEMMA OrdersSettled ==
    ASSUME TInv, NEW e, Emit(e), e.type # "FILL", UNCHANGED <<positions, placed, execs>>,
           NEW oid \in DOMAIN orders, NEW o, orders' = [orders EXCEPT ![oid] = o],
           o.coid = orders[oid].coid, o.filled = orders[oid].filled
    PROVE  FillsKept
<1>1. FillEvents' = FillEvents
  BY DEF FillEvents, Emit
<1>2. DOMAIN orders' = DOMAIN orders
      /\ \A x \in DOMAIN orders : orders'[x] = IF x = oid THEN o ELSE orders[x]
  OBVIOUS
<1> QED BY <1>1, <1>2 DEF FillsKept

LEMMA FillsOrNot ==
    ASSUME TInv, [Next]_vars
    PROVE  \/ FillsKept
           \/ \E oid \in DOMAIN orders : \E qty \in 1..orders[oid].remaining : BrokerFill(oid, qty)
           \/ \E i \in Intents : Sends(i)
<1>o. \A oid \in DOMAIN orders : orders[oid] \in Order
  BY DEF TInv, BrokerOK
<1>e. \A type, oid, qty, remaining, stamp : Event(type, oid, qty, remaining, stamp).type = type
  BY DEF Event
<1>1. CASE \/ Start \/ RunnerCalls \/ BeginStep \/ Crash \/ CrashInPersist \/ LoseStateFile
           \/ CooldownExpires \/ MoveFlag \/ UNCHANGED vars
  BY <1>1, NothingFilled
     DEF Start, RunnerCalls, submit_intent, adopt_order, request_cancel, request_replace_qty,
         CallUpdates, BeginStep, Crash, CrashInPersist, LoseStateFile, MemoryLost,
         CooldownExpires, MoveFlag, vars
<1>2. CASE \/ DropSeenFill \/ OrphanEvent \/ ApplyRequests \/ EndDrain \/ Reconcile
           \/ PersistState \/ SnapshotOrPollRaises
  BY <1>2, NothingFilled DEF DropSeenFill, OrphanEvent, ApplyRequests, EndDrain,
                             Reconcile, PersistState, SnapshotOrPollRaises
<1>3. CASE PollEvents
  BY <1>3 DEF PollEvents, FillsKept, FillEvents
<1>4. ASSUME NEW i \in Intents,
             \/ ApplyEvent(i) \/ DrainNothing(i) \/ ForbidPlace(i) \/ SkipPlaced(i)
             \/ LookBeforeReplace(i) \/ ForbidReplace(i) \/ LastFillRaises(i)
      PROVE  FillsKept
  BY <1>4, NothingFilled DEF ApplyEvent, DrainNothing, ForbidPlace, SkipPlaced,
                             LookBeforeReplace, ForbidReplace, LastFillRaises
<1>5. ASSUME NEW i \in Intents, Place(i) \/ PlaceRaises(i) PROVE FillsKept \/ Sends(i)
  BY <1>5, NothingFilled DEF Place, PlaceRaises, Sends
<1>6. ASSUME NEW i \in Intents, Cancel(i) \/ CancelRaises(i) PROVE FillsKept
  <2> DEFINE oid == st.tickets[i].oid
             o == [orders[oid] EXCEPT !.status = "Cancelled"]
  <2>1. BrokerCancels(oid) \/ UNCHANGED broker_vars
    BY <1>6 DEF Cancel, CancelRaises
  <2> HIDE DEF oid
  <2>2. CASE ~UNCHANGED broker_vars
    <3>1. /\ oid \in DOMAIN orders /\ orders' = [orders EXCEPT ![oid] = o]
          /\ Emit(Event("CANCELLED", oid, 0, 0, 0)) /\ UNCHANGED <<positions, placed, execs>>
      BY <2>1, <2>2 DEF BrokerCancels
    <3>2. o.coid = orders[oid].coid /\ o.filled = orders[oid].filled
      BY <1>o, <3>1 DEF Order
    <3>3. PICK e : Emit(e) /\ e.type # "FILL"
      BY <1>e, <3>1
    <3> HIDE DEF o
    <3> QED BY <3>1, <3>2, <3>3, OrdersSettled
  <2> QED BY <2>2, NothingFilled
<1>7. ASSUME NEW i \in Intents, Replace(i) \/ ReplaceRaises(i) PROVE FillsKept
  <2> DEFINE oid == st.tickets[i].oid
             qty == st.tickets[i].want_replace
             left == IF qty > orders[oid].filled THEN qty - orders[oid].filled ELSE 0
             o == [orders[oid] EXCEPT !.qty = qty, !.remaining = left]
  <2>1. BrokerReplaces(oid, qty) \/ UNCHANGED broker_vars
    BY <1>7 DEF Replace, ReplaceRaises
  <2> HIDE DEF oid, qty
  <2>2. CASE ~UNCHANGED broker_vars
    <3>1. /\ oid \in DOMAIN orders /\ orders' = [orders EXCEPT ![oid] = o]
          /\ Emit(Event("ACK", oid, 0, 0, 0)) /\ UNCHANGED <<positions, placed, execs>>
      BY <2>1, <2>2 DEF BrokerReplaces
    <3>2. o.coid = orders[oid].coid /\ o.filled = orders[oid].filled
      <4> HIDE DEF left
      <4> QED BY <1>o, <3>1 DEF Order
    <3>3. PICK e : Emit(e) /\ e.type # "FILL"
      BY <1>e, <3>1
    <3> HIDE DEF o
    <3> QED BY <3>1, <3>2, <3>3, OrdersSettled
  <2> QED BY <2>2, NothingFilled
<1>8. ASSUME NEW oid \in DOMAIN orders, BrokerAck(oid) \/ BrokerReject(oid) PROVE FillsKept
  <2>1. \E o, e : /\ orders' = [orders EXCEPT ![oid] = o]
                  /\ o.coid = orders[oid].coid /\ o.filled = orders[oid].filled
                  /\ Emit(e) /\ e.type # "FILL"
                  /\ UNCHANGED <<positions, placed, execs>>
    <3>1. CASE BrokerAck(oid)
      <4> DEFINE o == [orders[oid] EXCEPT !.acked = TRUE]
      <4>1. orders' = [orders EXCEPT ![oid] = o] /\ Emit(Event("ACK", oid, 0, 0, 0))
            /\ UNCHANGED <<positions, placed, execs>>
        BY <3>1 DEF BrokerAck
      <4>2. o.coid = orders[oid].coid /\ o.filled = orders[oid].filled
        BY <1>o DEF Order
      <4>3. PICK e : Emit(e) /\ e.type # "FILL"
        BY <1>e, <4>1
      <4> HIDE DEF o
      <4> QED BY <4>1, <4>2, <4>3
    <3>2. CASE BrokerReject(oid)
      <4> DEFINE o == [orders[oid] EXCEPT !.status = "Rejected"]
      <4>1. orders' = [orders EXCEPT ![oid] = o] /\ Emit(Event("REJECT", oid, 0, 0, 0))
            /\ UNCHANGED <<positions, placed, execs>>
        BY <3>2 DEF BrokerReject
      <4>2. o.coid = orders[oid].coid /\ o.filled = orders[oid].filled
        BY <1>o DEF Order
      <4>3. PICK e : Emit(e) /\ e.type # "FILL"
        BY <1>e, <4>1
      <4> HIDE DEF o
      <4> QED BY <4>1, <4>2, <4>3
    <3> QED BY <1>8, <3>1, <3>2
  <2> QED BY <2>1, OrdersSettled
<1>9. ASSUME NEW e, Resend(e) PROVE FillsKept
  BY <1>9 DEF Resend, FillsKept, FillEvents
<1> QED BY <1>1, <1>2, <1>3, <1>4, <1>5, <1>6, <1>7, <1>8, <1>9
        DEF Next, StepWork, Raises, Broker

\* A fill is added to what every copy may still count.
LEMMA CountFilled ==
    ASSUME TInv, TracedInv, CountInv, NEW oid \in DOMAIN orders, NEW qty,
           BrokerFill(oid, qty)
    PROVE  CopiesFit' /\ FillsTold(FillEvents, placed, execs)' /\ OneOrderEach'
<1> DEFINE o == orders[oid]
           stamp == IF UniqueStamps THEN execs ELSE 0
           e == Event("FILL", oid, qty, o.remaining - qty, stamp)
<1>1. o \in Order /\ o.coid \in Intents /\ placed[o.coid] > 0 /\ qty \in Nat /\ execs \in Nat
      /\ o.remaining \in Int /\ \A x \in DOMAIN orders : orders[x].filled \in Nat
  BY OrderParts DEF TInv, BrokerOK, TracedInv, OrdersTraced, BrokerFill
<1>2. emitted' = emitted \cup {e} /\ execs' = execs + 1
      /\ UNCHANGED <<placed, st, state_file, ledger_state>>
  BY DEF BrokerFill, Emit, engine_vars, disk_vars
<1>3. e \in BrokerEvent /\ e.type = "FILL" /\ e.coid = o.coid /\ e.qty = qty
  <2>1. DOMAIN orders \subseteq Nat /\ stamp \in Nat
    BY <1>1 DEF TInv, BrokerOK
  <2> HIDE DEF stamp
  <2> QED BY <1>1, <2>1 DEF Event, BrokerEvent, Order
<1>4. /\ DOMAIN orders' = DOMAIN orders
      /\ \A x \in DOMAIN orders :
            /\ orders'[x].coid = orders[x].coid
            /\ orders'[x].filled = orders[x].filled + (IF orders[x].coid = e.coid THEN e.qty ELSE 0)
  <2> DEFINE left == o.remaining - qty
             how == IF left <= 0 THEN "Filled" ELSE o.status
             new == [o EXCEPT !.filled = o.filled + qty, !.remaining = left,
                              !.status = how]
  <2>1. orders' = [orders EXCEPT ![oid] = new]
    BY DEF BrokerFill
  <2>2. new.coid = o.coid /\ new.filled = o.filled + qty
    <3> HIDE DEF left, how, o
    <3> QED BY <1>1 DEF Order
  <2>3. \A x \in DOMAIN orders : orders[x].coid = o.coid => x = oid
    BY DEF CountInv, OneOrderEach
  <2> HIDE DEF new
  <2>4. DOMAIN orders' = DOMAIN orders /\ orders'[oid] = new
        /\ \A x \in DOMAIN orders \ {oid} : orders'[x] = orders[x]
    BY <2>1
  <2> HIDE DEF e
  <2> QED BY <1>1, <1>3, <2>2, <2>3, <2>4
<1> HIDE DEF e, o
<1>5. FillEvents' = FillEvents \cup {e} /\ FillEvents \subseteq BrokerEvent
  BY <1>2, <1>3 DEF FillEvents, TInv, BrokerOK
<1>6. FillsTold(FillEvents, placed, execs)
  BY DEF CountInv
<1>7. FillsTold(FillEvents, placed, execs)'
  <2>1. FillsTold(FillEvents \cup {e}, placed, execs + 1)
    BY <1>1, <1>3, <1>6, OneMoreTold
  <2> QED BY <1>2, <1>5, <2>1
<1>8. ASSUME NEW s \in Copies
      PROVE  CopyFits(s, FillEvents \cup {e}, orders', placed, execs + 1)
  <2>1. s \in EngineState /\ CopyFits(s, FillEvents, orders, placed, execs)
    BY FreshIsState DEF Copies, CountInv, CopiesFit, TInv, StateOK, DiskOK
  <2>2. Fits(s, FillEvents \cup {e}, orders', placed, execs + 1)
    BY <1>1, <1>3, <1>4, <1>5, <1>6, <2>1, FitsFilled DEF CopyFits
  <2>3. KeysTold(s.fill_dedup_keys, FillEvents \cup {e})
    BY <2>1 DEF CopyFits, KeysTold
  <2> QED BY <2>2, <2>3 DEF CopyFits
<1>9. CopiesFit'
  BY <1>2, <1>5, <1>8 DEF CopiesFit, Copies
<1>10. OneOrderEach'
  BY <1>4 DEF CountInv, OneOrderEach
<1> QED BY <1>7, <1>9, <1>10

\* The first order of an intent is sent before anything was counted of it.
LEMMA CountSent ==
    ASSUME TInv, PInv, TracedInv, CountInv, NEW i \in Intents, Sends(i)
    PROVE  CopiesFit' /\ FillsTold(FillEvents, placed, execs)' /\ OneOrderEach'
<1> DEFINE n == st.next_order_id
<1>1. st.tickets[i].state = "PENDING_PLACE" /\ st.tickets[i].oid = NoOid /\ pc = "drain"
      /\ UNCHANGED disk_vars
  BY PlaceParts DEF Sends
<1>2. placed \in [Intents -> Nat] /\ placed[i] = 0 /\ st.tickets[i].coid = i
      /\ execs \in Nat /\ FillEvents \subseteq BrokerEvent
  BY <1>1 DEF TInv, BrokerOK, PInv, KnownInMemory, AllWellFormed, WellFormed, FillEvents
<1>3. /\ DOMAIN orders' = DOMAIN orders \cup {n}
      /\ orders'[n].coid = i /\ orders'[n].filled = 0
      /\ \A x \in DOMAIN orders \ {n} : orders'[x] = orders[x]
      /\ placed' = [placed EXCEPT ![i] = placed[i] + 1] /\ UNCHANGED <<execs, emitted>>
  BY <1>2 DEF Sends, BrokerPlaces
<1>4. /\ \A x \in DOMAIN orders : orders[x].coid # i
      /\ placed' \in [Intents -> Nat] /\ placed'[i] > 0
      /\ \A j \in Intents \ {i} : placed'[j] = placed[j]
  BY <1>2, <1>3 DEF TracedInv, OrdersTraced
<1>5. FillEvents' = FillEvents /\ FillsTold(FillEvents, placed, execs)
  BY <1>3 DEF FillEvents, CountInv
<1>6. \A oid \in DOMAIN orders' :
         \/ orders'[oid].coid = i /\ orders'[oid].filled = 0
         \/ oid \in DOMAIN orders /\ orders[oid].coid # i /\ orders'[oid] = orders[oid]
  BY <1>3, <1>4
<1>7. ASSUME NEW s \in Copies
      PROVE  CopyFits(s, FillEvents, orders', placed', execs)
  <2>1. s \in EngineState /\ CopyFits(s, FillEvents, orders, placed, execs)
    BY FreshIsState DEF Copies, CountInv, CopiesFit, TInv, StateOK, DiskOK
  <2>2. Fits(s, FillEvents, orders', placed', execs)
    BY <1>2, <1>4, <1>5, <1>6, <2>1, FitsPlaced DEF CopyFits
  <2> QED BY <2>1, <2>2 DEF CopyFits
<1>8. SameCounts(st, st')
  BY <1>2, UncountingKeeps DEF Sends, Uncounting, CountsKept
<1>9. CopyFits(st', FillEvents, orders', placed', execs)
  <2>1. CopyFits(st, FillEvents, orders', placed', execs)
    BY <1>7 DEF Copies
  <2>2. Fits(st', FillEvents, orders', placed', execs)
    BY <1>8, <2>1, FitsSame DEF CopyFits
  <2> QED BY <1>8, <2>1, <2>2 DEF CopyFits, SameCounts
<1>10. CopiesFit'
  BY <1>1, <1>3, <1>5, <1>7, <1>9 DEF CopiesFit, Copies, disk_vars
<1>11. FillsTold(FillEvents, placed, execs)'
  BY <1>2, <1>3, <1>4, <1>5 DEF FillsTold
<1>12. OneOrderEach'
  BY <1>3, <1>4 DEF CountInv, OneOrderEach
<1> QED BY <1>10, <1>11, <1>12

\* As long as no more fills were made than keys are remembered, none is forgotten.
LEMMA AllRemembered ==
    ASSUME TInv, CountInv, execs <= MaxKeys, NEW e \in FillEvents, ~SeenFill(e)
    PROVE  /\ ~Contains(st.fill_dedup_keys, Key(e))
           /\ Remembered(e).fill_dedup_keys = Append(st.fill_dedup_keys, Key(e))
           /\ KeysTold(Append(st.fill_dedup_keys, Key(e)), FillEvents)
<1> DEFINE added == Append(st.fill_dedup_keys, Key(e))
<1>1. /\ st \in EngineState /\ st.fill_dedup_keys \in Seq(FillKey) /\ e \in BrokerEvent
      /\ e.type = "FILL" /\ FillEvents \in SUBSET BrokerEvent /\ execs \in Nat /\ MaxKeys \in Nat
  BY StateParts, BoundsAssumption DEF TInv, StateOK, BrokerOK, FillEvents
<1>2. ~Contains(st.fill_dedup_keys, Key(e))
  BY <1>1 DEF SeenFill
<1>3. KeysTold(st.fill_dedup_keys, FillEvents) /\ FillsTold(FillEvents, placed, execs)
  BY DEF CountInv, CopiesFit, Copies, CopyFits
<1>4. KeysTold(added, FillEvents) /\ added \in Seq(FillKey)
  BY <1>1, <1>2, <1>3, KeysAppended, EventParts, AppendProperties
<1> HIDE DEF added
<1>5. Len(added) <= execs
  BY <1>1, <1>3, <1>4, KeysFit
<1>6. ~(Len(added) > MaxKeys)
  BY <1>1, <1>4, <1>5
<1>7. Remembered(e) = [st EXCEPT !.fill_dedup_keys = added]
  BY <1>1, <1>6 DEF Remembered, added
<1>8. Remembered(e).fill_dedup_keys = added
  BY <1>1, <1>7 DEF EngineState
<1> QED BY <1>2, <1>4, <1>8 DEF added

\* A fill finds the ticket of the intent whose order was filled.
LEMMA FillFindsTicket ==
    ASSUME NothingElse, TInv, PInv, TracedInv, CountInv, pc # "down", NEW e \in FillEvents
    PROVE  MatchedTickets(e) = {e.coid} /\ e.coid \in Intents
<1>1. e.coid \in Intents /\ placed[e.coid] > 0
  BY DEF CountInv, FillsTold
<1>2. IsPresent(st.tickets[e.coid])
  BY <1>1 DEF PInv, KnownInMemory, AllWellFormed, WellFormed, IsPresent
<1>3. \A j \in Intents : IsPresent(st.tickets[j]) => st.tickets[j].coid = j
  BY DEF NothingElse, TracedInv, AllNamed, Named
<1>4. {i \in {j \in Intents : IsPresent(st.tickets[j])} : st.tickets[i].coid = e.coid} = {e.coid}
  BY <1>1, <1>2, <1>3
<1> QED BY <1>1, <1>4 DEF MatchedTickets

\* The counts of the tickets after an event.
LEMMA EventTickets ==
    ASSUME TInv, OrphanEvent \/ \E i \in Intents : ApplyEvent(i) \/ LastFillRaises(i)
    PROVE  /\ UNCHANGED broker_vars /\ UNCHANGED disk_vars /\ pc = "apply" /\ batch # <<>>
           /\ ~SeenFill(Head(batch)) /\ Head(batch) \in BrokerEvent
           /\ st'.fill_dedup_keys = Remembered(Head(batch)).fill_dedup_keys
           /\ \A j \in Intents \ MatchedTickets(Head(batch)) :
                 st'.tickets[j].filled = st.tickets[j].filled
           /\ \A j \in Intents :
                 /\ \/ st'.tickets[j].filled = st.tickets[j].filled
                    \/ /\ Head(batch).type = "FILL"
                       /\ st'.tickets[j].filled = st.tickets[j].filled + Head(batch).qty
                 /\ st'.tickets[j].terminal = "DONE" =>
                       \/ st.tickets[j].terminal = "DONE"
                       \/ positions[OrderOf[j].symbol] = 0
<1>1. /\ UNCHANGED broker_vars /\ UNCHANGED disk_vars /\ pc = "apply" /\ batch # <<>>
      /\ ~SeenFill(Head(batch))
  BY DEF OrphanEvent, ApplyEvent, LastFillRaises, StepRaises
<1>2. Head(batch) \in BrokerEvent /\ StateOK
  BY <1>1, BatchParts DEF TInv
<1>3. CASE OrphanEvent
  <2>1. st' = Remembered(Head(batch)) /\ Remembered(Head(batch)).tickets = st.tickets
    BY <1>2, <1>3, RememberedTyped DEF OrphanEvent
  <2> QED BY <1>1, <1>2, <2>1
<1>4. ASSUME NEW i \in Intents, ApplyEvent(i) \/ LastFillRaises(i)
      PROVE  /\ st'.fill_dedup_keys = Remembered(Head(batch)).fill_dedup_keys
             /\ \A j \in Intents \ MatchedTickets(Head(batch)) :
                   st'.tickets[j].filled = st.tickets[j].filled
             /\ \A j \in Intents :
                   /\ \/ st'.tickets[j].filled = st.tickets[j].filled
                      \/ /\ Head(batch).type = "FILL"
                         /\ st'.tickets[j].filled = st.tickets[j].filled + Head(batch).qty
                   /\ st'.tickets[j].terminal = "DONE" =>
                         \/ st.tickets[j].terminal = "DONE"
                         \/ positions[OrderOf[j].symbol] = 0
  BY <1>4, EventCounts DEF Counts
<1> QED BY <1>1, <1>2, <1>3, <1>4

LEMMA CountEvents ==
    ASSUME NothingElse, TInv, TInv', PInv, TracedInv, CountInv, execs <= MaxKeys,
           OrphanEvent \/ \E i \in Intents : ApplyEvent(i) \/ LastFillRaises(i)
    PROVE  CopiesFit'
<1> DEFINE e == Head(batch)
<1>1. /\ UNCHANGED broker_vars /\ UNCHANGED disk_vars /\ pc = "apply" /\ batch # <<>>
      /\ ~SeenFill(e) /\ e \in BrokerEvent
      /\ st'.fill_dedup_keys = Remembered(e).fill_dedup_keys
      /\ \A j \in Intents \ MatchedTickets(e) : st'.tickets[j].filled = st.tickets[j].filled
      /\ \A j \in Intents : \/ st'.tickets[j].filled = st.tickets[j].filled
                            \/ /\ e.type = "FILL"
                               /\ st'.tickets[j].filled = st.tickets[j].filled + e.qty
  BY EventTickets
<1>2. e \in emitted
  BY <1>1, HeadTailProperties DEF CountInv, EventsEmitted
<1> HIDE DEF e
<1>3. FillsKept /\ UNCHANGED <<orders, placed, execs, emitted>>
  BY <1>1, NothingFilled DEF broker_vars
<1>4. CASE e.type # "FILL"
  <2>1. SameCounts(st, st')
    BY <1>1, <1>4 DEF SameCounts, Remembered
  <2>2. \A s : SameCounts(s, s)
    BY DEF SameCounts
  <2> QED BY <1>1, <1>3, <2>1, <2>2, CopiesKept DEF Copies, disk_vars, CountInv
<1>5. CASE e.type = "FILL"
  <2>1. e \in FillEvents
    BY <1>2, <1>5 DEF FillEvents
  <2>2. MatchedTickets(e) = {e.coid} /\ e.coid \in Intents
    BY <1>1, <2>1, FillFindsTicket
  <2>3. /\ ~Contains(st.fill_dedup_keys, Key(e))
        /\ st'.fill_dedup_keys = Append(st.fill_dedup_keys, Key(e))
        /\ KeysTold(st'.fill_dedup_keys, FillEvents)
    BY <1>1, <2>1, AllRemembered
  <2>4. /\ st \in EngineState /\ st' \in EngineState /\ FillEvents \in SUBSET BrokerEvent
        /\ placed \in [Intents -> Nat] /\ execs \in Nat
        /\ \A oid \in DOMAIN orders : orders[oid].filled \in Nat
    BY OrderParts DEF TInv, StateOK, BrokerOK, FillEvents
  <2>5. FillsTold(FillEvents, placed, execs) /\ Fits(st, FillEvents, orders, placed, execs)
    BY DEF CountInv, CopiesFit, Copies, CopyFits
  <2>6. Fits(st', FillEvents, orders, placed, execs)
    <3>1. /\ \A j \in Intents \ {e.coid} : st'.tickets[j].filled = st.tickets[j].filled
          /\ st'.tickets[e.coid].filled
                \in {st.tickets[e.coid].filled, st.tickets[e.coid].filled + e.qty}
      BY <1>1, <2>2
    <3> QED BY <2>1, <2>3, <2>4, <2>5, <3>1, FitsCounted
  <2>7. CopyFits(st', FillEvents, orders, placed, execs)
    BY <2>3, <2>6 DEF CopyFits
  <2> QED BY <1>1, <1>3, <2>7 DEF CountInv, CopiesFit, Copies, FillsKept, disk_vars
<1> QED BY <1>4, <1>5

LEMMA StartCounts == ASSUME TInv, Start PROVE CountsKept(LoadedState, st')
<1> DEFINE s == Handshake(LoadedState)
<1>1. LoadedState \in EngineState /\ s \in EngineState
  BY LoadedTyped, HandshakeTyped DEF TInv
<1>2. PICK cooldown : st' = [s EXCEPT !.cooldown = cooldown]
  BY DEF Start
<1>3. s.fill_dedup_keys = LoadedState.fill_dedup_keys
  BY <1>1 DEF Handshake, EngineState
<1>4. ASSUME NEW i \in Intents
      PROVE  /\ s.tickets[i].filled = LoadedState.tickets[i].filled
             /\ s.tickets[i].terminal = LoadedState.tickets[i].terminal
  <2>1. PICK t \in Ticket : t = LoadedState.tickets[i]
    BY <1>1, StateParts
  <2>2. \E oid : s.tickets[i] \in {t, [t EXCEPT !.oid = oid, !.state = "SENT"]}
    BY <1>1, <2>1 DEF Handshake, EngineState
  <2>3. s.tickets[i].filled = t.filled /\ s.tickets[i].terminal = t.terminal
    BY <2>1, <2>2 DEF Ticket
  <2> QED BY <2>1, <2>3
<1> HIDE DEF s
<1>5. st'.tickets = s.tickets /\ st'.fill_dedup_keys = s.fill_dedup_keys
  BY <1>1, <1>2 DEF EngineState
<1> QED BY <1>3, <1>4, <1>5 DEF CountsKept, SameCounts, DoneBefore

\* Nothing was counted for a ticket that is not there.
LEMMA NewTicketCounts ==
    ASSUME TInv, PInv, NEW i \in Intents, submit_intent(i) \/ adopt_order(i)
    PROVE  DoneBefore(st, st') /\ (CountInv => SameCounts(st, st'))
<1>1. pc = "idle" /\ ~IsPresent(st.tickets[i])
  BY NewTicketParts
<1>2. placed[i] = 0
  BY <1>1 DEF PInv, KnownInMemory, AllWellFormed, WellFormed, IsPresent, TInv, BrokerOK
<1>3. CountInv => st.tickets[i].filled = 0
  BY <1>2 DEF CountInv, CopiesFit, Copies, CopyFits, Fits
<1>s. st \in EngineState
  BY DEF TInv, StateOK
<1>4. \E t \in Ticket : st' = WithTicket(st, i, t) /\ t.filled = 0 /\ t.terminal = "None"
  <2>1. \A coid \in Int, oid \in Nat, state \in TicketStates :
           LET t == NewTicket(coid, oid, OrderOf[i].qty, state)
           IN  t \in Ticket /\ t.filled = 0 /\ t.terminal = "None"
    BY IntentsAssumption, NewIsTicket DEF NewTicket
  <2>2. "PENDING_PLACE" \in TicketStates /\ "SENT" \in TicketStates /\ NoOid \in Nat /\ i \in Int
    BY IntentsAssumption DEF TicketStates, NoOid
  <2>3. CASE submit_intent(i)
    BY <2>1, <2>2, <2>3 DEF submit_intent, CallUpdates
  <2>4. CASE adopt_order(i)
    <3>1. AdoptedAs[i] \in Nat /\ OidCoid(AdoptedAs[i]) \in Int
      BY <2>4, AdoptionAssumption DEF adopt_order, OidCoid
    <3> QED BY <2>1, <2>2, <2>4, <3>1 DEF adopt_order, CallUpdates
  <2> QED BY <2>3, <2>4
<1>5. PICK t \in Ticket : st' = WithTicket(st, i, t) /\ t.filled = 0 /\ t.terminal = "None"
  BY <1>4
<1>6. /\ st'.tickets = [st.tickets EXCEPT ![i] = t]
      /\ st'.fill_dedup_keys = st.fill_dedup_keys /\ st.tickets \in [Intents -> Ticket]
  BY <1>s, <1>5, TicketReplaced, StateParts
<1>7. st'.tickets[i] = t /\ \A j \in Intents \ {i} : st'.tickets[j] = st.tickets[j]
  BY <1>6
<1>8. DoneBefore(st, st')
  BY <1>5, <1>7 DEF DoneBefore
<1>9. CountInv => SameCounts(st, st')
  BY <1>3, <1>5, <1>6, <1>7 DEF SameCounts
<1> QED BY <1>8, <1>9

\* The operations that apply no event: what the engine has counted afterwards is
\* what one of its copies had counted.
LEMMA OtherCopies ==
    ASSUME TInv, ReplaceUnderWay, PInv, [Next]_vars,
           ~OrphanEvent, \A i \in Intents : ~ApplyEvent(i) /\ ~LastFillRaises(i)
    PROVE  /\ \E s \in Copies : DoneBefore(s, st') /\ (CountInv => SameCounts(s, st'))
           /\ state_file' \in Copies /\ ledger_state' \in Copies
<1>1. CASE \/ Start \/ PersistState \/ Crash \/ CrashInPersist \/ LoseStateFile
  <2>1. st' \in {st, FreshState} \/ Start
    BY <1>1 DEF PersistState, Crash, CrashInPersist, LoseStateFile, MemoryLost, engine_vars
  <2>2. state_file' \in Copies /\ ledger_state' \in Copies
    BY <1>1 DEF Start, PersistState, Crash, CrashInPersist, LoseStateFile, disk_vars, Copies
  <2>3. LoadedState \in Copies
    BY DEF LoadedState, Copies
  <2> QED BY <2>1, <2>2, <2>3, StartCounts, CountsSame DEF Copies, CountsKept
<1>2. CASE ~(\/ Start \/ PersistState \/ Crash \/ CrashInPersist \/ LoseStateFile)
  <2>1. UNCHANGED disk_vars
    BY <1>2, LoudOrQuiet, NewTicketParts, PlaceParts DEF Loud, Quiet
  <2>2. DoneBefore(st, st') /\ (CountInv => SameCounts(st, st'))
    <3>1. Uncounting \/ \E i \in Intents : submit_intent(i) \/ adopt_order(i)
      BY <1>2 DEF Next, StepWork, Raises, RunnerCalls, Uncounting
    <3> QED BY <3>1, UncountingKeeps, NewTicketCounts DEF CountsKept
  <2> QED BY <2>1, <2>2 DEF Copies, disk_vars
<1> QED BY <1>1, <1>2

LEMMA CountStep ==
    ASSUME NothingElse, TInv, TInv', ReplaceUnderWay, PInv, TracedInv, CountInv,
           execs <= MaxKeys, [Next]_vars
    PROVE  CountInv'
<1>1. EventsEmitted'
  BY EmittedStep DEF CountInv
<1>2. CASE \E oid \in DOMAIN orders : \E qty \in 1..orders[oid].remaining : BrokerFill(oid, qty)
  BY <1>1, <1>2, CountFilled DEF CountInv
<1>3. CASE \E i \in Intents : Sends(i)
  BY <1>1, <1>3, CountSent DEF CountInv
<1>4. CASE FillsKept
  <2>1. FillsTold(FillEvents, placed, execs)' /\ OneOrderEach'
    BY <1>4 DEF CountInv, FillsKept, FillsTold, OneOrderEach
  <2>2. CopiesFit'
    <3>1. CASE OrphanEvent \/ \E i \in Intents : ApplyEvent(i) \/ LastFillRaises(i)
      BY <3>1, CountEvents
    <3>2. CASE ~OrphanEvent /\ \A i \in Intents : ~ApplyEvent(i) /\ ~LastFillRaises(i)
      <4>1. \A s : CountsKept(s, s)
        BY CountsSame
      <4>2. /\ \E s \in Copies : SameCounts(s, st')
            /\ state_file' \in Copies /\ ledger_state' \in Copies
        BY <3>2, OtherCopies
      <4> QED BY <1>4, <4>1, <4>2, CopiesKept DEF CountInv, CountsKept
    <3> QED BY <3>1, <3>2
  <2> QED BY <1>1, <2>1, <2>2 DEF CountInv
<1> QED BY <1>2, <1>3, <1>4, FillsOrNot

\* The engine never believes that more was filled of an order than the broker filled
\* (_apply_event, _fill_dedup_seen_or_add_v0), however often it crashes, loses its
\* files or is told of a fill again, and whether or not its fills can be told apart, as
\* long as no more fills were made than the keys it remembers.
THEOREM FillsCountedOnce ==
    ASSUME NothingElse
    PROVE  Spec => [](execs <= MaxKeys => FillsNotOvercounted)
<1> DEFINE TalliedSoFar == execs <= MaxKeys => CountInv
           Result == execs <= MaxKeys => FillsNotOvercounted
<1>1. TInv /\ TInv' /\ ReplaceUnderWay /\ PInv /\ TracedInv /\ TalliedSoFar /\ [Next]_vars => TalliedSoFar'
  <2> SUFFICES ASSUME TInv, TInv', ReplaceUnderWay, PInv, TracedInv, [Next]_vars,
                      execs <= MaxKeys => CountInv, execs' <= MaxKeys
               PROVE  CountInv'
    OBVIOUS
  <2>1. execs \in Nat /\ (execs' = execs \/ execs' = execs + 1)
    BY FillsOrNot DEF FillsKept, BrokerFill, Sends, BrokerPlaces, TInv, BrokerOK
  <2>2. execs <= MaxKeys
    BY <2>1, BoundsAssumption
  <2> QED BY <2>2, CountStep
<1>2. Init => TalliedSoFar
  BY CountInit
<1>3. ASSUME TInv, PInv, TracedInv, CountInv PROVE FillsNotOvercounted
  <2> SUFFICES ASSUME NEW i \in Intents, st.tickets[i].oid \in DOMAIN orders,
                      orders[st.tickets[i].oid].coid \in {st.tickets[i].coid, NoCoid}
               PROVE  st.tickets[i].filled <= orders[st.tickets[i].oid].filled
    BY DEF FillsNotOvercounted
  <2> DEFINE o == orders[st.tickets[i].oid]
  <2>1. IsPresent(st.tickets[i])
    BY <1>3 DEF PInv, AllWellFormed, WellFormed, OrderIdsPositive, IsPresent, NoOid
  <2>2. st.tickets[i].coid = i
    BY <1>3, <2>1 DEF TracedInv, AllNamed, Named, NothingElse
  <2>3. o.coid = i
    <3>1. o.coid \in Intents
      BY <1>3 DEF TracedInv, OrdersTraced
    <3> QED BY <2>2, <3>1, IntentsAssumption DEF NoCoid
  <2>4. PICK at, left : Tally(st, i, at, left, FillEvents, orders, execs)
    BY <1>3 DEF CountInv, CopiesFit, Copies, CopyFits, Fits
  <2>5. left[execs] \in Nat /\ st.tickets[i].filled + left[execs] <= o.filled
    BY <1>3, <2>3, <2>4 DEF Tally, Rising, TInv, BrokerOK
  <2>6. st.tickets[i].filled \in Int /\ o.filled \in Nat
    BY <1>3, StateParts, TicketParts, OrderParts DEF TInv, StateOK, BrokerOK
  <2> QED BY <2>5, <2>6
<1>4. TInv /\ PInv /\ TracedInv /\ TalliedSoFar => Result
  BY <1>3
<1>5. Spec => []Result
  <2> HIDE DEF TalliedSoFar, Result
  <2> QED BY <1>1, <1>2, <1>4, TypesInvariant, ReplaceInvariant, PlacementInvariant,
             TracedInvariant, PTL DEF Spec
<1> QED BY <1>5

-----------------------------------------------------------------------------
(* What ended DONE is flat, and stays so.                                   *)

\* Whatever copy the engine goes on from, its DONE tickets are about flat positions.
DoneFlat(s) ==
    \A i \in Intents : s.tickets[i].terminal = "DONE" => positions[OrderOf[i].symbol] = 0

DoneInv == \A s \in Copies : DoneFlat(s)

LEMMA DoneInit == ASSUME Init PROVE DoneInv
<1>1. \A s \in Copies : s = FreshState
  BY DEF Init, Copies
<1>2. \A i \in Intents : FreshState.tickets[i].terminal = "None"
  BY DEF FreshState, AbsentTicket, NewTicket
<1> QED BY <1>1, <1>2 DEF DoneInv, DoneFlat

\* A flat position has nothing left to be filled.
LEMMA FlatStays ==
    ASSUME TInv, BooksInv, [Next]_vars, NEW symbol \in DOMAIN InitialPositions,
           positions[symbol] = 0
    PROVE  positions'[symbol] = 0
<1>1. CASE FillsKept \/ \E i \in Intents : Sends(i)
  BY <1>1 DEF FillsKept, Sends, BrokerPlaces
<1>2. ASSUME NEW oid \in DOMAIN orders, NEW qty \in 1..orders[oid].remaining, BrokerFill(oid, qty)
      PROVE  positions'[symbol] = 0
  <2> DEFINE o == orders[oid]
             whole == InitialPositions[o.symbol]
  <2>1. /\ o.filled \in Nat /\ o.remaining \in Int /\ whole \in Int /\ o.side \in Sides
        /\ o.remaining > 0
    BY <1>2, OrderParts, PositionsAssumption DEF TInv, BrokerOK
  <2>2. /\ Exits(whole, o.side) /\ o.filled + o.remaining <= Abs(whole)
        /\ positions[o.symbol] = whole + Delta(o.side, o.filled)
    BY DEF BooksInv, OrdersExit
  <2>3. positions[o.symbol] # 0
    <3> HIDE DEF o, whole
    <3> QED BY <2>1, <2>2 DEF Exits, Abs, Delta, Sides
  <2>4. positions' = [positions EXCEPT ![o.symbol] = positions[o.symbol] + Delta(o.side, qty)]
    BY <1>2 DEF BrokerFill
  <2>5. positions \in [DOMAIN InitialPositions -> Int]
    BY DEF TInv, BrokerOK
  <2> QED BY <2>3, <2>4, <2>5
<1> QED BY <1>1, <1>2, FillsOrNot

LEMMA DoneStep ==
    ASSUME TInv, ReplaceUnderWay, PInv, BooksInv, DoneInv, [Next]_vars
    PROVE  DoneInv'
<1>1. \A i \in Intents :
         positions[OrderOf[i].symbol] = 0 => positions'[OrderOf[i].symbol] = 0
  BY FlatStays, IntentsAssumption
<1>2. ASSUME NEW s \in Copies, NEW s2, DoneBefore(s, s2)
      PROVE  \A i \in Intents :
                s2.tickets[i].terminal = "DONE" => positions'[OrderOf[i].symbol] = 0
  BY <1>1, <1>2 DEF DoneInv, DoneFlat, DoneBefore
<1>3. \A s : DoneBefore(s, s)
  BY DEF DoneBefore
<1>4. CASE OrphanEvent \/ \E i \in Intents : ApplyEvent(i) \/ LastFillRaises(i)
  <2>1. /\ UNCHANGED <<positions, state_file, ledger_state>>
        /\ \A i \in Intents : st'.tickets[i].terminal = "DONE" =>
              st.tickets[i].terminal = "DONE" \/ positions[OrderOf[i].symbol] = 0
    BY <1>4, EventTickets DEF broker_vars, disk_vars
  <2> QED BY <2>1 DEF DoneInv, DoneFlat, Copies
<1>5. CASE ~OrphanEvent /\ \A i \in Intents : ~ApplyEvent(i) /\ ~LastFillRaises(i)
  <2>1. /\ \E s \in Copies : DoneBefore(s, st')
        /\ state_file' \in Copies /\ ledger_state' \in Copies /\ FreshState \in Copies
    BY <1>5, OtherCopies DEF Copies
  <2>2. \A s2 \in Copies' : \E s \in Copies : DoneBefore(s, s2)
    BY <1>3, <2>1 DEF Copies
  <2> QED BY <1>2, <2>2 DEF DoneInv, DoneFlat
<1> QED BY <1>4, <1>5

\* A ticket ends DONE only when the position it exits is flat, and is never wrong about
\* it later (_apply_event, _reconcile): with ONLY_EXITS nothing moves a flat position
\* again, and no file holds a DONE that was not true when it was written.
THEOREM DoneStaysFlat ==
    ASSUME ControlPlane.global_mode = "ONLY_EXITS", NothingElse, OneExitPerSymbol,
           NeverRestarted \/ SingleIntent
    PROVE  Spec => []DoneIsFlat
<1>1. TInv /\ ReplaceUnderWay /\ PInv /\ TracedInv /\ OrderIdsAreOwn /\ ExitInv /\ DoneInv
         /\ [Next]_vars
        => ExitInv' /\ DoneInv'
  BY SeenStep, BooksStep, DoneStep DEF ExitInv, BooksInv
<1>2. Init => ExitInv /\ DoneInv
  BY ExitInit, DoneInit
<1>3. DoneInv => DoneIsFlat
  BY DEF DoneInv, DoneFlat, Copies, DoneIsFlat
<1> QED BY <1>1, <1>2, <1>3, TypesInvariant, ReplaceInvariant, PlacementInvariant,
           TracedInvariant, OwnOrderIds, PTL DEF Spec

-----------------------------------------------------------------------------
(* Nothing lost, ticket and order agree once all is told.                   *)

\* What the engine has not applied yet.
Pending == batch \o queue

Smooth == crashes = 0 /\ faults = 0

\* How much of an order is left, and how it ended: as its ticket has it, and as the broker has it.
Standing == [left : Int, how : {"Submitted"} \cup ClosedStatuses]

EndOf(t) ==
    CASE t.terminal = "None" -> "Submitted"
      [] t.terminal = "CANCELLED" -> "Cancelled"
      [] t.terminal = "FAILED" -> "Rejected"
      [] t.terminal \in {"DONE", "FILLED"} -> "Filled"

Told(t) == [left |-> t.qty - t.filled, how |-> EndOf(t)]
Held(o) == [left |-> o.remaining, how |-> o.status]

\* An event takes the order with that id from one standing to another.
Moves(e, oid, from, to) ==
    IF e.oid # oid \/ e.type = "ACK" THEN to = from
    ELSE /\ from.how = "Submitted"
         /\ e.type = "CANCELLED" => to = [left |-> from.left, how |-> "Cancelled"]
         /\ e.type = "REJECT" => to = [left |-> from.left, how |-> "Rejected"]
         /\ e.type = "FILL" =>
               /\ e.remaining = from.left - e.qty
               /\ to = [left |-> e.remaining,
                        how |-> IF e.remaining <= 0 THEN "Filled" ELSE "Submitted"]

\* Events, one after the other, take the order from one standing to another.
Trail(events, oid, from, to, trail) ==
    /\ trail \in [Nat -> Standing]
    /\ trail[0] = from /\ trail[Len(events)] = to
    /\ \A k \in 1..Len(events) : Moves(events[k], oid, trail[k - 1], trail[k])

Lead(events, oid, from, to) == \E trail : Trail(events, oid, from, to, trail)

LEMMA LeadNothing ==
    ASSUME NEW oid, NEW from, NEW to, Lead(<<>>, oid, from, to)
    PROVE  from = to
  BY DEF Lead, Trail

LEMMA LeadElsewhere ==
    ASSUME NEW events \in Seq(BrokerEvent), NEW oid, NEW from \in Standing,
           \A k \in 1..Len(events) : events[k].oid # oid
    PROVE  Lead(events, oid, from, from)
<1> DEFINE trail == [k \in Nat |-> from]
<1>1. Len(events) \in Nat /\ trail \in [Nat -> Standing] /\ \A k \in Nat : trail[k] = from
  OBVIOUS
<1> HIDE DEF trail
<1>2. \A k \in 1..Len(events) : k \in Nat /\ k - 1 \in Nat
  BY <1>1
<1>3. \A k \in 1..Len(events) : Moves(events[k], oid, trail[k - 1], trail[k])
  BY <1>1, <1>2 DEF Moves
<1>4. Trail(events, oid, from, from, trail)
  BY <1>1, <1>3 DEF Trail
<1> QED BY <1>4 DEF Lead

LEMMA LeadOneMore ==
    ASSUME NEW events \in Seq(BrokerEvent), NEW e \in BrokerEvent, NEW oid, NEW from,
           NEW mid, NEW to \in Standing, Lead(events, oid, from, mid), Moves(e, oid, mid, to)
    PROVE  Lead(Append(events, e), oid, from, to)
<1> DEFINE n == Len(events)
           more == Append(events, e)
<1>1. PICK trail : Trail(events, oid, from, mid, trail)
  BY DEF Lead
<1> DEFINE longer == [k \in Nat |-> IF k = n + 1 THEN to ELSE trail[k]]
<1>2. /\ n \in Nat /\ Len(more) = n + 1 /\ more[n + 1] = e
      /\ \A k \in 1..n : more[k] = events[k]
  BY AppendProperties
<1> HIDE DEF n, more
<1>3. /\ longer \in [Nat -> Standing] /\ longer[n + 1] = to
      /\ \A k \in 0..n : longer[k] = trail[k]
  BY <1>1, <1>2 DEF Trail
<1> HIDE DEF longer
<1>4. longer[0] = from /\ longer[n] = mid
  BY <1>1, <1>2, <1>3 DEF Trail, n
<1>5. ASSUME NEW k \in 1..n + 1 PROVE Moves(more[k], oid, longer[k - 1], longer[k])
  <2>1. CASE k = n + 1
    <3>1. k - 1 = n
      BY <1>2, <2>1
    <3> QED BY <1>2, <1>3, <1>4, <2>1, <3>1
  <2>2. CASE k # n + 1
    <3>1. k \in 1..n /\ k \in 0..n /\ k - 1 \in 0..n
      BY <1>2, <2>2
    <3> QED BY <1>1, <1>2, <1>3, <3>1 DEF Trail, n
  <2> QED BY <2>1, <2>2
<1>6. Trail(more, oid, from, to, longer)
  BY <1>2, <1>3, <1>4, <1>5 DEF Trail
<1> QED BY <1>6 DEF Lead, more

LEMMA LeadOneLess ==
    ASSUME NEW events \in Seq(BrokerEvent), events # <<>>, NEW oid, NEW from, NEW to,
           Lead(events, oid, from, to)
    PROVE  \E mid \in Standing : /\ Moves(Head(events), oid, from, mid)
                                 /\ Lead(Tail(events), oid, mid, to)
<1> DEFINE n == Len(events)
           rest == Tail(events)
<1>1. PICK trail : Trail(events, oid, from, to, trail)
  BY DEF Lead
<1> DEFINE later == [k \in Nat |-> trail[k + 1]]
<1>2. /\ n \in Nat /\ n > 0 /\ Len(rest) = n - 1 /\ Head(events) = events[1]
      /\ \A k \in 1..n - 1 : rest[k] = events[k + 1]
  BY HeadTailProperties, LenProperties
<1> HIDE DEF n, rest
<1>3. later \in [Nat -> Standing] /\ \A k \in Nat : later[k] = trail[k + 1]
  BY <1>1 DEF Trail
<1> HIDE DEF later
<1>4. trail[1] \in Standing /\ Moves(Head(events), oid, from, trail[1])
  <2>1. 1 \in 1..n /\ 1 - 1 = 0
    BY <1>2
  <2> QED BY <1>1, <1>2, <2>1 DEF Trail, n
<1>5. later[0] = trail[1] /\ later[n - 1] = to
  <2>1. 0 \in Nat /\ 0 + 1 = 1 /\ n - 1 \in Nat /\ (n - 1) + 1 = n
    BY <1>2
  <2> QED BY <1>1, <1>3, <2>1 DEF Trail, n
<1>6. ASSUME NEW k \in 1..n - 1 PROVE Moves(rest[k], oid, later[k - 1], later[k])
  <2>1. k \in Nat /\ k - 1 \in Nat /\ k + 1 \in 1..n /\ (k - 1) + 1 = k /\ (k + 1) - 1 = k
    BY <1>2
  <2>2. Moves(events[k + 1], oid, trail[k], trail[k + 1])
    BY <1>1, <2>1 DEF Trail, n
  <2> QED BY <1>2, <1>3, <2>1, <2>2
<1>7. Trail(rest, oid, trail[1], to, later)
  BY <1>2, <1>3, <1>5, <1>6 DEF Trail
<1> QED BY <1>4, <1>7 DEF Lead, rest

\* An engine that starts finds nothing, as nothing died before; a replace is never asked for.
PhasesPlain ==
    /\ replace_seen = <<>>
    /\ pc # "apply" => batch = <<>>
    /\ pc = "down" => ~state_exists /\ ledger_state = FreshState /\ DOMAIN orders = {}

\* A ticket without an order id has counted nothing, and a pending one has none.
Plain(t) ==
    /\ t.want_replace = NoQty /\ t.state # "REPLACE_REQUESTED"
    /\ t.state = "TERMINAL" <=> t.terminal # "None"
    /\ t.state \in {"ABSENT", "PENDING_PLACE"} => t.oid = NoOid
    /\ t.oid = NoOid => t.filled = 0

TicketsPlain == \A i \in Intents : Plain(st.tickets[i])

\* Orders and tickets with an order id stand for each other.
OrdersPaired ==
    /\ \A oid \in DOMAIN orders :
          /\ oid < st.next_order_id /\ orders[oid].coid \in Intents
          /\ st.tickets[orders[oid].coid].oid = oid
    /\ \A i \in Intents : st.tickets[i].oid # NoOid =>
          /\ st.tickets[i].oid \in DOMAIN orders
          /\ orders[st.tickets[i].oid].coid = i

EventsOfOrders ==
    \A k \in 1..Len(Pending) : /\ Pending[k].oid \in DOMAIN orders
                               /\ Pending[k].coid = orders[Pending[k].oid].coid

\* The fills to come are newer than those remembered, and each is newer than those before it.
StampsRise ==
    /\ \A k \in 1..Len(Pending) : Pending[k].type = "FILL" => Pending[k].stamp < execs
    /\ \A j, k \in 1..Len(Pending) :
          j < k /\ Pending[j].type = "FILL" /\ Pending[k].type = "FILL" =>
              Pending[j].stamp < Pending[k].stamp
    /\ \A k \in 1..Len(st.fill_dedup_keys) :
          /\ st.fill_dedup_keys[k].stamp < execs
          /\ \A j \in 1..Len(Pending) : Pending[j].type = "FILL" =>
                 st.fill_dedup_keys[k].stamp < Pending[j].stamp

\* What is pending leads from what the ticket was told to what the broker holds.
OrderTold(oid) ==
    LET o == orders[oid]
        t == st.tickets[o.coid]
    IN  /\ o.qty = t.qty /\ o.filled + o.remaining = o.qty
        /\ Lead(Pending, oid, Told(t), Held(o))

Accounts ==
    /\ OrdersPaired /\ EventsOfOrders /\ StampsRise
    /\ \A oid \in DOMAIN orders : OrderTold(oid)

InStep == PhasesPlain /\ TicketsPlain /\ Accounts
AccountInv == Smooth => InStep

LEMMA PendingTyped == ASSUME TInv PROVE Pending \in Seq(BrokerEvent)
  BY ConcatProperties DEF Pending, TInv, MemoryOK, BrokerOK

\* Steps that tell nothing and hear of nothing.
LEMMA AccountsKept ==
    ASSUME TInv, OrderIdsPositive, Accounts, UNCHANGED <<orders, execs>>, Pending' = Pending,
           st'.fill_dedup_keys = st.fill_dedup_keys, st'.next_order_id = st.next_order_id,
           \A i \in Intents :
              /\ st'.tickets[i].oid = st.tickets[i].oid
              /\ st.tickets[i].oid # NoOid =>
                    /\ st'.tickets[i].qty = st.tickets[i].qty
                    /\ st'.tickets[i].filled = st.tickets[i].filled
                    /\ st'.tickets[i].terminal = st.tickets[i].terminal
    PROVE  Accounts'
<1>1. OrdersPaired' /\ EventsOfOrders' /\ StampsRise'
  BY DEF Accounts, OrdersPaired, EventsOfOrders, StampsRise
<1>2. ASSUME NEW oid \in DOMAIN orders PROVE OrderTold(oid)'
  <2> DEFINE i == orders[oid].coid
  <2>1. i \in Intents /\ st.tickets[i].oid = oid /\ oid # NoOid
    BY <1>2 DEF Accounts, OrdersPaired, OrderIdsPositive, NoOid
  <2>2. Told(st'.tickets[i]) = Told(st.tickets[i])
    BY <2>1 DEF Told, EndOf
  <2> QED BY <1>2, <2>1, <2>2 DEF Accounts, OrderTold
<1> QED BY <1>1, <1>2 DEF Accounts

\* An event goes out, and the order is where the event takes it.
LEMMA AccountsMoved ==
    ASSUME TInv, Accounts, UNCHANGED <<st, batch>>,
           NEW oid \in DOMAIN orders, NEW o \in Order, NEW e \in BrokerEvent,
           e.oid = oid, e.coid = orders[oid].coid, queue' = Append(queue, e),
           orders' = [orders EXCEPT ![oid] = o],
           o.coid = orders[oid].coid, o.qty = orders[oid].qty, o.filled + o.remaining = o.qty,
           Moves(e, oid, Held(orders[oid]), Held(o)),
           IF e.type = "FILL" THEN e.stamp = execs /\ execs' = execs + 1 ELSE execs' = execs
    PROVE  Accounts'
<1> DEFINE n == Len(Pending)
<1>1. /\ Pending \in Seq(BrokerEvent) /\ Pending' = Append(Pending, e)
  <2>1. batch \in Seq(BrokerEvent) /\ queue \in Seq(BrokerEvent)
    BY DEF TInv, MemoryOK, BrokerOK
  <2>2. batch \o Append(queue, e) = Append(batch \o queue, e)
    BY <2>1
  <2> QED BY <2>2, PendingTyped DEF Pending
<1>2. /\ n \in Nat /\ Len(Pending') = n + 1 /\ Pending'[n + 1] = e
      /\ \A k \in 1..n : Pending'[k] = Pending[k]
  BY <1>1, AppendProperties
<1>3. \A k \in 1..n + 1 : k = n + 1 \/ k \in 1..n
  BY <1>2
<1>4. /\ DOMAIN orders' = DOMAIN orders /\ orders'[oid] = o
      /\ \A x \in DOMAIN orders \ {oid} : orders'[x] = orders[x]
  OBVIOUS
<1> HIDE DEF n
<1>5. OrdersPaired'
  BY <1>4 DEF Accounts, OrdersPaired
<1>6. EventsOfOrders'
  <2> SUFFICES ASSUME NEW k \in 1..Len(Pending')
               PROVE  /\ Pending'[k].oid \in DOMAIN orders'
                      /\ Pending'[k].coid = orders'[Pending'[k].oid].coid
    BY DEF EventsOfOrders
  <2>1. CASE k = n + 1
    BY <1>2, <1>4, <2>1
  <2>2. CASE k \in 1..n
    BY <1>2, <1>4, <2>2 DEF Accounts, EventsOfOrders, n
  <2> QED BY <1>2, <1>3, <2>1, <2>2
<1>7. StampsRise'
  <2>1. execs \in Nat /\ (execs' = execs \/ execs' = execs + 1)
        /\ (e.type = "FILL" => e.stamp = execs /\ execs' = execs + 1)
    BY DEF TInv, BrokerOK
  <2>2. \A k \in 1..n : Pending[k].stamp \in Nat
    <3>1. \A k \in 1..n : Pending[k] \in BrokerEvent
      BY <1>1 DEF n
    <3> QED BY <3>1 DEF BrokerEvent
  <2>3. \A k \in 1..Len(st.fill_dedup_keys) : st.fill_dedup_keys[k].stamp \in Nat
    <3>1. st.fill_dedup_keys \in Seq(FillKey)
      BY StateParts DEF TInv, StateOK
    <3>2. \A k \in 1..Len(st.fill_dedup_keys) : st.fill_dedup_keys[k] \in FillKey
      BY <3>1
    <3> QED BY <3>2 DEF FillKey
  <2>4. \A k \in 1..n : Pending[k].type = "FILL" => Pending[k].stamp < execs
    BY DEF Accounts, StampsRise, n
  <2>5. \A k \in 1..n + 1 : Pending'[k].type = "FILL" => Pending'[k].stamp < execs'
    BY <1>2, <1>3, <2>1, <2>2, <2>4
  <2>6. ASSUME NEW j \in 1..n + 1, NEW k \in 1..n + 1,
               j < k, Pending'[j].type = "FILL", Pending'[k].type = "FILL"
        PROVE  Pending'[j].stamp < Pending'[k].stamp
    <3>1. j \in 1..n
      BY <1>2, <2>6
    <3>2. CASE k = n + 1
      BY <1>2, <2>1, <2>4, <2>6, <3>1, <3>2
    <3>3. CASE k \in 1..n
      BY <1>2, <2>6, <3>1, <3>3 DEF Accounts, StampsRise, n
    <3> QED BY <1>3, <3>2, <3>3
  <2>7. ASSUME NEW k \in 1..Len(st.fill_dedup_keys)
        PROVE  /\ st.fill_dedup_keys[k].stamp < execs'
               /\ \A j \in 1..n + 1 : Pending'[j].type = "FILL" =>
                      st.fill_dedup_keys[k].stamp < Pending'[j].stamp
    <3>1. st.fill_dedup_keys[k].stamp < execs /\ st.fill_dedup_keys[k].stamp \in Nat
      BY <2>3 DEF Accounts, StampsRise
    <3>2. \A j \in 1..n : Pending[j].type = "FILL" =>
             st.fill_dedup_keys[k].stamp < Pending[j].stamp
      BY DEF Accounts, StampsRise, n
    <3>3. st.fill_dedup_keys[k].stamp < execs'
      BY <2>1, <3>1
    <3>4. ASSUME NEW j \in 1..n + 1, Pending'[j].type = "FILL"
          PROVE  st.fill_dedup_keys[k].stamp < Pending'[j].stamp
      <4>1. CASE j = n + 1
        BY <1>2, <2>1, <3>1, <3>4, <4>1
      <4>2. CASE j \in 1..n
        BY <1>2, <3>2, <3>4, <4>2
      <4> QED BY <1>3, <4>1, <4>2
    <3> QED BY <3>3, <3>4
  <2> QED BY <1>2, <2>5, <2>6, <2>7 DEF StampsRise
<1>8. ASSUME NEW x \in DOMAIN orders' PROVE OrderTold(x)'
  <2> DEFINE t == st.tickets[orders[x].coid]
  <2>1. /\ orders[x].qty = t.qty /\ orders[x].filled + orders[x].remaining = orders[x].qty
        /\ Lead(Pending, x, Told(t), Held(orders[x]))
    BY <1>4, <1>8 DEF Accounts, OrderTold
  <2>2. orders'[x].coid = orders[x].coid /\ orders'[x].qty = t.qty
        /\ orders'[x].filled + orders'[x].remaining = orders'[x].qty
    BY <1>4, <1>8, <2>1
  <2>3. Held(orders'[x]) \in Standing
    <3>1. orders'[x] \in Order
      BY <1>4, <1>8 DEF TInv, BrokerOK
    <3> QED BY <3>1, OrderParts DEF Held, Standing
  <2>4. Moves(e, x, Held(orders[x]), Held(orders'[x]))
    <3>1. CASE x = oid
      BY <1>4, <3>1
    <3>2. CASE x # oid
      BY <1>4, <1>8, <3>2 DEF Moves
    <3> QED BY <3>1, <3>2
  <2>5. Lead(Append(Pending, e), x, Told(t), Held(orders'[x]))
    BY <1>1, <2>1, <2>3, <2>4, LeadOneMore
  <2> QED BY <1>1, <2>2, <2>5 DEF OrderTold
<1> QED BY <1>5, <1>6, <1>7, <1>8 DEF Accounts

LEMMA PlainSet ==
    ASSUME NEW t \in Ticket, Plain(t)
    PROVE  /\ \A x \in BOOLEAN : Plain([t EXCEPT !.want_cancel = x])
           /\ t.state # "TERMINAL" => \A how \in TerminalStates : Plain(Terminate(t, how))
           /\ t.state # "TERMINAL" /\ t.oid # NoOid =>
                 \A x \in {"SENT", "ACKED", "PARTIAL", "CANCEL_REQUESTED"} : Plain([t EXCEPT !.state = x])
           /\ t.oid # NoOid => \A x, y \in Int : Plain([t EXCEPT !.filled = x, !.remaining = y])
  BY DEF Plain, Ticket, Terminate, TerminalStates

\* The event that is applied next.
LEMMA HeadParts ==
    ASSUME TInv, pc = "apply", batch # <<>>
    PROVE  /\ Pending # <<>> /\ Head(Pending) = Head(batch) /\ Head(batch) \in BrokerEvent
           /\ Tail(Pending) = Tail(batch) \o queue
           /\ Len(Pending) \in Nat /\ 1 \in 1..Len(Pending) /\ Pending[1] = Head(batch)
           /\ Len(Tail(Pending)) = Len(Pending) - 1
           /\ \A k \in 1..Len(Tail(Pending)) : k + 1 \in 1..Len(Pending) /\ Tail(Pending)[k] = Pending[k + 1]
<1>1. batch \in Seq(BrokerEvent) /\ queue \in Seq(BrokerEvent)
  BY DEF TInv, MemoryOK, BrokerOK
<1>2. /\ Len(batch) \in Nat /\ Len(batch) > 0 /\ Len(queue) \in Nat
      /\ Len(Pending) = Len(batch) + Len(queue) /\ Pending[1] = batch[1]
  BY <1>1 DEF Pending
<1>3. Pending \in Seq(BrokerEvent) /\ Pending # <<>>
  BY <1>2, PendingTyped
<1>4. /\ Head(Pending) = Pending[1] /\ Head(batch) = batch[1] /\ Head(batch) \in BrokerEvent
      /\ Len(Tail(Pending)) = Len(Pending) - 1
      /\ \A k \in 1..Len(Tail(Pending)) : Tail(Pending)[k] = Pending[k + 1]
  BY <1>1, <1>3, HeadTailProperties
<1>5. Tail(batch \o queue) = Tail(batch) \o queue
  BY <1>1
<1> QED BY <1>2, <1>3, <1>4, <1>5 DEF Pending

\* An event is about an order, whose ticket it finds, and it was not seen.
LEMMA NextEvent ==
    ASSUME NothingElse, TInv, PInv, TracedInv, Accounts, pc = "apply", batch # <<>>
    PROVE  LET e == Head(batch)
           IN  /\ e.oid \in DOMAIN orders /\ e.coid = orders[e.oid].coid /\ e.coid \in Intents
               /\ st.tickets[e.coid].oid = e.oid /\ e.oid # NoOid
               /\ MatchedTickets(e) = {e.coid} /\ ~SeenFill(e)
<1> DEFINE e == Head(batch)
<1>1. Pending[1] = e /\ 1 \in 1..Len(Pending) /\ e \in BrokerEvent
  BY HeadParts
<1>2. /\ e.oid \in DOMAIN orders /\ e.coid = orders[e.oid].coid
  BY <1>1 DEF Accounts, EventsOfOrders
<1>3. e.coid \in Intents /\ st.tickets[e.coid].oid = e.oid /\ e.oid # NoOid
  BY <1>2 DEF Accounts, OrdersPaired, PInv, OrderIdsPositive, NoOid
<1>4. IsPresent(st.tickets[e.coid])
  BY <1>3 DEF PInv, AllWellFormed, WellFormed, IsPresent
<1>5. \A j \in Intents : IsPresent(st.tickets[j]) => st.tickets[j].coid = j
  BY DEF NothingElse, TracedInv, AllNamed, Named
<1>6. {i \in {j \in Intents : IsPresent(st.tickets[j])} : st.tickets[i].coid = e.coid} = {e.coid}
  BY <1>3, <1>4, <1>5
<1>7. MatchedTickets(e) = {e.coid}
  BY <1>6 DEF MatchedTickets
<1>8. ~SeenFill(e)
  <2> SUFFICES ASSUME e.type = "FILL", NEW k \in 1..Len(st.fill_dedup_keys),
                      st.fill_dedup_keys[k] = Key(e)
               PROVE  FALSE
    BY DEF SeenFill, Contains
  <2>1. st.fill_dedup_keys[k].stamp < e.stamp
    BY <1>1 DEF Accounts, StampsRise
  <2>2. Key(e).stamp = e.stamp /\ e.stamp \in Nat
    BY <1>1 DEF Key, BrokerEvent
  <2> QED BY <2>1, <2>2
<1> QED BY <1>2, <1>3, <1>7, <1>8

\* The ticket follows the event.
LEMMA AppliedMoves ==
    ASSUME StateOK, NEW i \in Intents, NEW e \in BrokerEvent, Plain(st.tickets[i]),
           st.tickets[i].oid # NoOid, e.oid = st.tickets[i].oid,
           NEW mid \in Standing, Moves(e, e.oid, Told(st.tickets[i]), mid)
    PROVE  LET u == Applied(i, e)
           IN  /\ Plain(u) /\ Told(u) = mid
               /\ u.oid = st.tickets[i].oid /\ u.qty = st.tickets[i].qty
<1> DEFINE t == st.tickets[i]
           c == Counted(i, e)
           u == Applied(i, e)
<1>1. t \in Ticket /\ c \in Ticket
  BY StateParts, CountedTyped DEF StateOK
<1>2. e.type \in {"ACK", "REJECT", "CANCELLED", "FILL"} /\ e.remaining \in Int /\ e.qty \in Int
  BY EventParts
<1>3. /\ t.qty \in Int /\ t.filled \in Int /\ t.state \in TicketStates
      /\ t.terminal \in TerminalStates \cup {"None"} /\ Plain(t) /\ t.oid # NoOid
  BY <1>1, TicketParts
<1>c. /\ c.oid = t.oid /\ c.qty = t.qty /\ c.filled = t.filled + e.qty /\ c.terminal = t.terminal
      /\ c.state = t.state /\ Plain(c)
  BY <1>1, <1>2, <1>3 DEF Counted, Ticket, Plain
<1>4. t.state # "TERMINAL" <=> t.terminal = "None"
  BY <1>3 DEF Plain
<1>5. Told(t).how = "Submitted" <=> t.terminal = "None"
  BY <1>3 DEF Told, EndOf, TerminalStates
<1>6. IsTerminal(t) <=> t.terminal # "None"
  BY <1>4 DEF IsTerminal
<1> HIDE DEF t, c
<1>7. \A v \in Ticket : \A how \in TerminalStates :
         /\ Terminate(v, how).oid = v.oid /\ Terminate(v, how).qty = v.qty
         /\ Terminate(v, how).filled = v.filled /\ Terminate(v, how).terminal = how
  BY DEF Terminate, Ticket
<1>8. \A v \in Ticket : \A x : LET w == [v EXCEPT !.state = x]
         IN w.oid = v.oid /\ w.qty = v.qty /\ w.filled = v.filled /\ w.terminal = v.terminal
  BY DEF Ticket
<1>9. Moves(e, e.oid, Told(t), mid)
  BY DEF t
<1>k. {"DONE", "FILLED", "CANCELLED", "FAILED"} = TerminalStates /\ "None" \notin TerminalStates
  BY DEF TerminalStates
<1>10. CASE e.type = "ACK"
  <2>1. mid = Told(t)
    BY <1>9, <1>10 DEF Moves
  <2>2. u = t \/ (t.state # "TERMINAL" /\ u = [t EXCEPT !.state = "ACKED"])
    BY <1>4, <1>6, <1>10 DEF Applied, t
  <2>3. Plain(u) /\ u.oid = t.oid /\ u.qty = t.qty /\ u.filled = t.filled /\ u.terminal = t.terminal
    <3>1. t.state # "TERMINAL" => Plain([t EXCEPT !.state = "ACKED"])
      BY <1>1, <1>3, PlainSet
    <3>2. LET w == [t EXCEPT !.state = "ACKED"]
          IN w.oid = t.oid /\ w.qty = t.qty /\ w.filled = t.filled /\ w.terminal = t.terminal
      BY <1>1, <1>8
    <3> QED BY <1>3, <2>2, <3>1, <3>2
  <2> HIDE DEF u
  <2> QED BY <2>1, <2>3 DEF Told, EndOf, t, u
<1>11. CASE e.type \in {"REJECT", "CANCELLED"}
  <2> DEFINE how == IF e.type = "REJECT" THEN "FAILED" ELSE "CANCELLED"
  <2>1. Told(t).how = "Submitted"
    BY <1>9, <1>11 DEF Moves
  <2>2. u = Terminate(t, how)
    BY <1>5, <1>6, <1>11, <2>1 DEF Applied, t
  <2>3. how \in TerminalStates /\ t.state # "TERMINAL"
    BY <1>4, <1>5, <1>k, <2>1
  <2>4. Plain(u) /\ u.oid = t.oid /\ u.qty = t.qty /\ u.filled = t.filled /\ u.terminal = how
    <3> HIDE DEF how
    <3>1. Plain(Terminate(t, how))
      BY <1>1, <1>3, <2>3, PlainSet
    <3> QED BY <1>1, <1>7, <2>2, <2>3, <3>1
  <2>5. mid = [left |-> Told(t).left, how |-> IF e.type = "REJECT" THEN "Rejected" ELSE "Cancelled"]
    BY <1>9, <1>11 DEF Moves
  <2> HIDE DEF u
  <2>6. Told(u) = mid
    BY <1>11, <2>4, <2>5 DEF Told, EndOf
  <2> QED BY <2>4, <2>6 DEF u, t
<1>12. CASE e.type = "FILL"
  <2>1. /\ Told(t).how = "Submitted" /\ e.remaining = Told(t).left - e.qty
        /\ mid = [left |-> e.remaining, how |-> IF e.remaining <= 0 THEN "Filled" ELSE "Submitted"]
    BY <1>9, <1>12 DEF Moves
  <2>2. ~IsTerminal(t) /\ t.state # "TERMINAL" /\ t.terminal = "None"
    BY <1>4, <1>5, <1>6, <2>1
  <2>3. c.qty - c.filled = e.remaining
    BY <1>2, <1>3, <1>c, <2>1 DEF Told
  <2>4. CASE e.remaining > 0
    <3>1. u = [c EXCEPT !.state = "PARTIAL"]
      BY <1>2, <1>12, <2>2, <2>4 DEF Applied, t, c
    <3>2. Plain(u) /\ u.oid = c.oid /\ u.qty = c.qty /\ u.filled = c.filled /\ u.terminal = c.terminal
      <4>1. Plain([c EXCEPT !.state = "PARTIAL"])
        BY <1>1, <1>3, <1>c, <2>2, PlainSet
      <4> QED BY <1>1, <1>8, <3>1, <4>1
    <3> HIDE DEF u
    <3>3. Told(u) = mid
      BY <1>2, <1>c, <2>1, <2>2, <2>3, <2>4, <3>2 DEF Told, EndOf
    <3> QED BY <1>c, <3>2, <3>3 DEF u, t
  <2>5. CASE e.remaining <= 0
    <3>1. PICK how \in {"DONE", "FILLED"} : u = Terminate(c, how)
      BY <1>2, <1>12, <2>2, <2>5 DEF Applied, t, c
    <3>2. Plain(u) /\ u.oid = c.oid /\ u.qty = c.qty /\ u.filled = c.filled /\ u.terminal = how
      <4>1. how \in TerminalStates /\ Plain(Terminate(c, how))
        BY <1>1, <1>c, <1>k, <2>2, PlainSet
      <4> QED BY <1>1, <1>7, <3>1, <4>1
    <3> HIDE DEF u
    <3>3. Told(u) = mid
      BY <1>2, <2>1, <2>3, <2>5, <3>2 DEF Told, EndOf
    <3> QED BY <1>c, <3>2, <3>3 DEF u, t
  <2> QED BY <1>2, <2>4, <2>5
<1> QED BY <1>2, <1>10, <1>11, <1>12

\* What is remembered afterwards was remembered, or is the key of the event.
LEMMA RememberedKeys ==
    ASSUME StateOK, NEW e \in BrokerEvent
    PROVE  LET old == st.fill_dedup_keys
               new == Remembered(e).fill_dedup_keys
           IN  \A k \in 1..Len(new) :
                  \/ \E l \in 1..Len(old) : new[k] = old[l]
                  \/ e.type = "FILL" /\ new[k] = Key(e)
<1> DEFINE old == st.fill_dedup_keys
           added == Append(old, Key(e))
           kept == IF Len(added) > MaxKeys
                   THEN SubSeq(added, Len(added) - MaxKeys + 1, Len(added)) ELSE added
<1>1. st \in EngineState /\ old \in Seq(FillKey) /\ Key(e) \in FillKey /\ MaxKeys \in Nat
  BY StateParts, EventParts, BoundsAssumption DEF StateOK
<1>2. CASE e.type # "FILL"
  <2>1. Remembered(e) = st
    BY <1>2 DEF Remembered
  <2> QED BY <1>1, <2>1
<1>3. CASE e.type = "FILL"
  <2>1. Remembered(e) = [st EXCEPT !.fill_dedup_keys = kept]
    BY <1>3 DEF Remembered
  <2>2. Remembered(e).fill_dedup_keys = kept
    <3> HIDE DEF kept
    <3> QED BY <1>1, <2>1 DEF EngineState
  <2>3. /\ added \in Seq(FillKey) /\ Len(added) = Len(old) + 1 /\ Len(old) \in Nat
        /\ added[Len(old) + 1] = Key(e) /\ \A l \in 1..Len(old) : added[l] = old[l]
    BY <1>1, AppendProperties
  <2> HIDE DEF added
  <2>4. \A l \in 1..Len(added) : \/ \E m \in 1..Len(old) : added[l] = old[m]
                                 \/ added[l] = Key(e)
    <3>1. \A l \in 1..Len(added) : l = Len(old) + 1 \/ l \in 1..Len(old)
      BY <2>3
    <3> QED BY <2>3, <3>1
  <2>5. \A k \in 1..Len(kept) : \E l \in 1..Len(added) : kept[k] = added[l]
    <3>1. CASE Len(added) > MaxKeys
      <4> DEFINE from == Len(added) - MaxKeys + 1
      <4>1. from \in 1..Len(added) + 1 /\ Len(added) \in Nat /\ kept = SubSeq(added, from, Len(added))
        <5>1. Len(added) \in Nat
          BY <2>3
        <5>2. kept = SubSeq(added, from, Len(added))
          BY <3>1
        <5> QED BY <1>1, <3>1, <5>1, <5>2
      <4> HIDE DEF from, kept
      <4>2. Len(kept) = Len(added) - from + 1 /\ \A k \in 1..Len(kept) : kept[k] = added[from + k - 1]
        BY <2>3, <4>1, SubSeqProperties
      <4>3. \A k \in 1..Len(kept) : from + k - 1 \in 1..Len(added)
        BY <4>1, <4>2
      <4> QED BY <4>2, <4>3
    <3>2. CASE ~(Len(added) > MaxKeys)
      BY <3>2
    <3> QED BY <3>1, <3>2
  <2> HIDE DEF kept
  <2> QED BY <1>3, <2>2, <2>4, <2>5
<1> QED BY <1>2, <1>3

LEMMA AccountsApplied ==
    ASSUME NothingElse, TInv, PInv, TracedInv, TicketsPlain, Accounts,
           NEW i \in Intents, ApplyEvent(i)
    PROVE  TicketsPlain' /\ Accounts'
<1> DEFINE e == Head(batch)
           rest == Tail(Pending)
           t == st.tickets[i]
           u == Applied(i, e)
           keys == st.fill_dedup_keys
<1>1. pc = "apply" /\ batch # <<>> /\ StateOK /\ i \in MatchedTickets(e)
  BY DEF ApplyEvent, TInv
<1>2. /\ Pending # <<>> /\ Head(Pending) = e /\ e \in BrokerEvent
      /\ rest = Tail(batch) \o queue
      /\ Len(Pending) \in Nat /\ 1 \in 1..Len(Pending) /\ Pending[1] = e
      /\ Len(rest) = Len(Pending) - 1
      /\ \A k \in 1..Len(rest) : k + 1 \in 1..Len(Pending) /\ rest[k] = Pending[k + 1]
  BY <1>1, HeadParts
<1>3. /\ e.oid \in DOMAIN orders /\ e.coid = orders[e.oid].coid /\ i = e.coid
      /\ t.oid = e.oid /\ e.oid # NoOid
  BY <1>1, NextEvent
<1>4. /\ UNCHANGED <<orders, execs>> /\ Pending' = rest
      /\ st'.fill_dedup_keys = Remembered(e).fill_dedup_keys
      /\ st'.next_order_id = st.next_order_id /\ st'.tickets[i] = u
      /\ \A j \in Intents \ {i} : st'.tickets[j] = st.tickets[j]
  <2>1. batch' = Tail(batch) /\ UNCHANGED <<queue, orders, execs>>
    BY DEF ApplyEvent, broker_vars
  <2>2. Pending' = rest
    BY <1>2, <2>1 DEF Pending
  <2>3. /\ Remembered(e) \in EngineState /\ Remembered(e).tickets = st.tickets
        /\ Remembered(e).next_order_id = st.next_order_id /\ u \in Ticket
        /\ st.tickets \in [Intents -> Ticket]
    BY <1>1, <1>2, RememberedTyped, AppliedTyped, StateParts DEF StateOK
  <2>4. PICK s, cooled : s = WithTicket(Remembered(e), i, u) /\ st' = [s EXCEPT !.cooldown = cooled]
    BY DEF ApplyEvent
  <2> HIDE DEF u, e
  <2>5. /\ s \in EngineState /\ s.tickets = [st.tickets EXCEPT ![i] = u]
        /\ s.fill_dedup_keys = Remembered(e).fill_dedup_keys
        /\ s.next_order_id = st.next_order_id
    BY <2>3, <2>4, TicketReplaced
  <2>6. /\ st'.tickets = s.tickets /\ st'.fill_dedup_keys = s.fill_dedup_keys
        /\ st'.next_order_id = s.next_order_id
    BY <2>4, <2>5 DEF EngineState
  <2> QED BY <2>1, <2>2, <2>3, <2>5, <2>6
<1> HIDE DEF rest
<1>5. PICK mid \in Standing : Moves(e, e.oid, Told(t), mid) /\ Lead(rest, e.oid, mid, Held(orders[e.oid]))
  <2>1. Lead(Pending, e.oid, Told(t), Held(orders[e.oid]))
    BY <1>3 DEF Accounts, OrderTold
  <2>2. \E mid \in Standing : /\ Moves(Head(Pending), e.oid, Told(t), mid)
                               /\ Lead(Tail(Pending), e.oid, mid, Held(orders[e.oid]))
    <3> HIDE DEF t, e
    <3> QED BY <1>2, <2>1, PendingTyped, LeadOneLess
  <2> QED BY <1>2, <2>2 DEF rest
<1>6. Plain(u) /\ Told(u) = mid /\ u.oid = t.oid /\ u.qty = t.qty
  <2>1. Plain(t)
    BY DEF TicketsPlain
  <2> QED BY <1>1, <1>2, <1>3, <1>5, <2>1, AppliedMoves
<1>k. \A k \in 1..Len(Remembered(e).fill_dedup_keys) :
         \/ \E l \in 1..Len(keys) : Remembered(e).fill_dedup_keys[k] = keys[l]
         \/ e.type = "FILL" /\ Remembered(e).fill_dedup_keys[k] = Key(e)
  BY <1>1, <1>2, RememberedKeys
<1> HIDE DEF u, e
<1>7. TicketsPlain'
  BY <1>4, <1>6 DEF TicketsPlain
<1>8. OrdersPaired'
  <2>1. \A j \in Intents : st'.tickets[j].oid = st.tickets[j].oid
    BY <1>4, <1>6
  <2> QED BY <1>4, <2>1 DEF Accounts, OrdersPaired
<1>9. EventsOfOrders'
  <2>1. \A k \in 1..Len(rest) : /\ rest[k].oid \in DOMAIN orders
                                /\ rest[k].coid = orders[rest[k].oid].coid
    BY <1>2 DEF Accounts, EventsOfOrders
  <2> QED BY <1>4, <2>1 DEF EventsOfOrders
<1>10. StampsRise'
  <2>1. \A k \in 1..Len(rest) : rest[k].type = "FILL" => rest[k].stamp < execs
    BY <1>2 DEF Accounts, StampsRise
  <2>2. ASSUME NEW j \in 1..Len(rest), NEW k \in 1..Len(rest), j < k,
               rest[j].type = "FILL", rest[k].type = "FILL"
        PROVE  rest[j].stamp < rest[k].stamp
    <3>1. j + 1 \in 1..Len(Pending) /\ k + 1 \in 1..Len(Pending)
      BY <1>2
    <3>2. j + 1 < k + 1
      BY <2>2
    <3>3. Pending[j + 1] = rest[j] /\ Pending[k + 1] = rest[k]
      BY <1>2
    <3>4. \A x, y \in 1..Len(Pending) :
             x < y /\ Pending[x].type = "FILL" /\ Pending[y].type = "FILL" =>
                 Pending[x].stamp < Pending[y].stamp
      BY DEF Accounts, StampsRise
    <3> QED BY <2>2, <3>1, <3>2, <3>3, <3>4
  <2>3. ASSUME NEW k \in 1..Len(st'.fill_dedup_keys)
        PROVE  /\ st'.fill_dedup_keys[k].stamp < execs
               /\ \A j \in 1..Len(rest) : rest[j].type = "FILL" =>
                      st'.fill_dedup_keys[k].stamp < rest[j].stamp
    <3>1. CASE \E l \in 1..Len(keys) : st'.fill_dedup_keys[k] = keys[l]
      BY <1>2, <3>1 DEF Accounts, StampsRise
    <3>2. CASE e.type = "FILL" /\ st'.fill_dedup_keys[k] = Key(e)
      <4>1. st'.fill_dedup_keys[k].stamp = e.stamp
        BY <3>2 DEF Key
      <4>2. e.stamp < execs
        BY <1>2, <3>2 DEF Accounts, StampsRise
      <4>3. ASSUME NEW j \in 1..Len(rest), rest[j].type = "FILL" PROVE e.stamp < rest[j].stamp
        <5>1. j + 1 \in 1..Len(Pending) /\ 1 < j + 1 /\ rest[j] = Pending[j + 1]
          <6>1. j + 1 \in 1..Len(Pending) /\ rest[j] = Pending[j + 1]
            BY <1>2, <4>3
          <6>2. 1 < j + 1
            BY <4>3
          <6> QED BY <6>1, <6>2
        <5>2. Pending[1].type = "FILL" /\ Pending[j + 1].type = "FILL"
          BY <1>2, <3>2, <4>3, <5>1
        <5>3. Pending[1].stamp < Pending[j + 1].stamp
          BY <1>2, <5>1, <5>2 DEF Accounts, StampsRise
        <5> QED BY <1>2, <5>1, <5>3
      <4> QED BY <4>1, <4>2, <4>3
    <3>3. \/ \E l \in 1..Len(keys) : st'.fill_dedup_keys[k] = keys[l]
          \/ e.type = "FILL" /\ st'.fill_dedup_keys[k] = Key(e)
      <4> HIDE DEF keys
      <4> QED BY <1>4, <1>k
    <3> QED BY <3>1, <3>2, <3>3
  <2> QED BY <1>4, <2>1, <2>2, <2>3 DEF StampsRise
<1>11. ASSUME NEW oid \in DOMAIN orders PROVE OrderTold(oid)'
  <2> DEFINE j == orders[oid].coid
  <2>1. /\ j \in Intents /\ st.tickets[j].oid = oid
        /\ orders[oid].qty = st.tickets[j].qty
        /\ orders[oid].filled + orders[oid].remaining = orders[oid].qty
        /\ Lead(Pending, oid, Told(st.tickets[j]), Held(orders[oid]))
    BY DEF Accounts, OrdersPaired, OrderTold
  <2>2. CASE oid = e.oid
    <3>1. j = i /\ st'.tickets[j] = u
      BY <1>3, <1>4, <2>2
    <3> QED BY <1>4, <1>5, <1>6, <2>1, <2>2, <3>1 DEF OrderTold
  <2>3. CASE oid # e.oid
    <3>1. j # i /\ st'.tickets[j] = st.tickets[j]
      BY <1>3, <1>4, <2>1, <2>3
    <3>2. \E to \in Standing : /\ Moves(e, oid, Told(st.tickets[j]), to)
                                /\ Lead(rest, oid, to, Held(orders[oid]))
      <4> HIDE DEF j
      <4> QED BY <1>2, <2>1, PendingTyped, LeadOneLess DEF rest
    <3>3. Lead(rest, oid, Told(st.tickets[j]), Held(orders[oid]))
      BY <2>3, <3>2 DEF Moves
    <3> QED BY <1>4, <2>1, <3>1, <3>3 DEF OrderTold
  <2> QED BY <2>2, <2>3
<1> QED BY <1>4, <1>7, <1>8, <1>9, <1>10, <1>11 DEF Accounts

\* A new order: nothing of it was told, and nothing is pending.
LEMMA AccountsPlaced ==
    ASSUME TInv, PInv, TicketsPlain, Accounts, NEW i \in Intents, Place(i)
    PROVE  TicketsPlain' /\ Accounts'
<1> DEFINE n == st.next_order_id
           t == st.tickets[i]
           u == st'.tickets[i]
<1>1. /\ t.state = "PENDING_PLACE" /\ t.oid = NoOid
      /\ \A j \in Intents \ {i} : st'.tickets[j] = st.tickets[j]
      /\ u.oid = n /\ st'.next_order_id = n + 1
  BY PlaceParts
<1>2. /\ st \in EngineState /\ t \in Ticket /\ n \in Nat /\ n # NoOid /\ t.coid = i
      /\ DOMAIN orders \subseteq Nat
  BY <1>1, StateParts DEF TInv, StateOK, BrokerOK, PInv, AllWellFormed, WellFormed, NoOid
<1>3. Plain(t) /\ t.filled = 0 /\ t.terminal = "None"
  BY <1>1, <1>2 DEF TicketsPlain, Plain
<1>4. /\ u = [t EXCEPT !.oid = n, !.state = "SENT"]
      /\ st'.fill_dedup_keys = st.fill_dedup_keys
  <2>1. /\ WithOrderId(i) \in EngineState /\ WithOrderId(i).tickets[i] = [t EXCEPT !.oid = n]
        /\ WithOrderId(i).tickets[i] \in Ticket
    BY <1>1, OrderIdTyped, OrderIdParts, StateParts DEF TInv
  <2>2. WithOrderId(i).fill_dedup_keys = st.fill_dedup_keys
    BY <1>2 DEF WithOrderId, WithTicket, EngineState
  <2>3. st' = WithSent(WithOrderId(i), i)
    BY DEF Place, NextTicket
  <2> HIDE DEF WithOrderId
  <2>4. /\ u = [WithOrderId(i).tickets[i] EXCEPT !.state = "SENT"]
        /\ st'.fill_dedup_keys = WithOrderId(i).fill_dedup_keys
    BY <2>1, <2>3, StateParts DEF WithSent, WithTicket, EngineState
  <2> QED BY <2>1, <2>2, <2>4
<1>5. /\ u.state = "SENT" /\ u.qty = t.qty /\ u.filled = 0 /\ u.terminal = "None" /\ Plain(u)
  <2>1. u.state = "SENT" /\ u.qty = t.qty /\ u.filled = t.filled /\ u.terminal = t.terminal
        /\ u.want_replace = t.want_replace
    BY <1>2, <1>4 DEF Ticket
  <2> QED BY <1>1, <1>2, <1>3, <2>1 DEF Plain
<1>6. /\ UNCHANGED <<execs, batch, queue>> /\ Pending' = Pending
      /\ DOMAIN orders' = DOMAIN orders \cup {n}
      /\ \A oid \in DOMAIN orders \ {n} : orders'[oid] = orders[oid]
      /\ LET o == orders'[n] IN /\ o.coid = i /\ o.qty = t.qty /\ o.filled = 0
                                /\ o.remaining = t.qty /\ o.status = "Submitted"
  <2>1. BrokerPlaces(i, n) /\ UNCHANGED batch
    BY DEF Place, NextTicket
  <2>2. UNCHANGED <<execs, batch, queue>> /\ Pending' = Pending
    BY <2>1 DEF BrokerPlaces, Pending
  <2> HIDE DEF n, t
  <2> QED BY <1>2, <2>1, <2>2 DEF BrokerPlaces, t
<1>7. n \notin DOMAIN orders
  BY <1>2 DEF Accounts, OrdersPaired
<1> HIDE DEF n, t, u
<1>8. TicketsPlain'
  BY <1>1, <1>5 DEF TicketsPlain, u
<1>9. OrdersPaired'
  <2>1. ASSUME NEW oid \in DOMAIN orders'
        PROVE  /\ oid < st'.next_order_id /\ orders'[oid].coid \in Intents
               /\ st'.tickets[orders'[oid].coid].oid = oid
    <3>1. CASE oid = n
      BY <1>1, <1>2, <1>6, <3>1 DEF u
    <3>2. CASE oid # n
      <4>1. /\ oid \in DOMAIN orders /\ orders'[oid] = orders[oid] /\ oid < n /\ oid \in Nat
            /\ orders[oid].coid \in Intents /\ st.tickets[orders[oid].coid].oid = oid
        BY <1>2, <1>6, <3>2 DEF Accounts, OrdersPaired, n
      <4>2. orders[oid].coid # i
        BY <1>1, <4>1 DEF PInv, OrderIdsPositive, NoOid, t
      <4> QED BY <1>1, <1>2, <4>1, <4>2
    <3> QED BY <3>1, <3>2
  <2>2. ASSUME NEW j \in Intents, st'.tickets[j].oid # NoOid
        PROVE  /\ st'.tickets[j].oid \in DOMAIN orders'
               /\ orders'[st'.tickets[j].oid].coid = j
    <3>1. CASE j = i
      BY <1>1, <1>6, <3>1 DEF u
    <3>2. CASE j # i
      BY <1>1, <1>6, <1>7, <2>2, <3>2 DEF Accounts, OrdersPaired
    <3> QED BY <3>1, <3>2
  <2> QED BY <2>1, <2>2 DEF OrdersPaired
<1>10. EventsOfOrders'
  BY <1>6, <1>7 DEF Accounts, EventsOfOrders
<1>11. StampsRise'
  BY <1>4, <1>6 DEF Accounts, StampsRise
<1>12. ASSUME NEW oid \in DOMAIN orders' PROVE OrderTold(oid)'
  <2>1. CASE oid = n
    <3>1. \A k \in 1..Len(Pending) : Pending[k].oid # n
      BY <1>7 DEF Accounts, EventsOfOrders
    <3>2. Told(u) = [left |-> t.qty, how |-> "Submitted"] /\ t.qty \in Int
      BY <1>2, <1>5, TicketParts DEF Told, EndOf
    <3>3. Told(u) \in Standing /\ Held(orders'[n]) = Told(u)
      BY <1>6, <3>2 DEF Standing, Held
    <3>4. Lead(Pending, n, Told(u), Held(orders'[n]))
      BY <3>1, <3>3, PendingTyped, LeadElsewhere
    <3>5. orders'[n].qty = u.qty /\ orders'[n].filled + orders'[n].remaining = orders'[n].qty
      BY <1>5, <1>6, <3>2
    <3> QED BY <1>6, <2>1, <3>4, <3>5 DEF OrderTold, u
  <2>2. CASE oid # n
    <3>1. oid \in DOMAIN orders /\ orders'[oid] = orders[oid]
      BY <1>6, <2>2
    <3>2. orders[oid].coid \in Intents /\ st.tickets[orders[oid].coid].oid = oid
          /\ oid # NoOid
      BY <3>1 DEF Accounts, OrdersPaired, PInv, OrderIdsPositive, NoOid
    <3>3. st'.tickets[orders[oid].coid] = st.tickets[orders[oid].coid]
      BY <1>1, <3>2 DEF t
    <3> QED BY <1>6, <3>1, <3>3 DEF Accounts, OrderTold
  <2> QED BY <2>1, <2>2
<1> QED BY <1>8, <1>9, <1>10, <1>11, <1>12 DEF Accounts

\* Without a crash and a raising call there was none before.
LEMMA SmoothSteps ==
    ASSUME TInv, [Next]_vars, Smooth'
    PROVE  Smooth /\ ~Crash /\ ~CrashInPersist /\ ~Raises
<1>1. crashes \in Nat /\ faults \in Nat /\ crashes' = 0 /\ faults' = 0
  BY DEF TInv, EnvOK, Smooth
<1>2. ~Crash /\ ~CrashInPersist
  BY <1>1 DEF Crash, CrashInPersist, MemoryLost
<1>3. ~Raises
  BY <1>1 DEF Raises, SnapshotOrPollRaises, LastFillRaises, PlaceRaises, CancelRaises,
              ReplaceRaises, StepRaises
<1>4. UNCHANGED <<crashes, faults>>
  <2>1. CASE \/ Start \/ RunnerCalls \/ BeginStep \/ LoseStateFile \/ CooldownExpires \/ MoveFlag
             \/ UNCHANGED vars
    BY <2>1 DEF Start, RunnerCalls, submit_intent, adopt_order, request_cancel,
                request_replace_qty, CallUpdates, BeginStep, LoseStateFile, CooldownExpires,
                MoveFlag, vars, env_vars
  <2>2. CASE StepWork
    BY <2>2 DEF StepWork, PollEvents, DropSeenFill, OrphanEvent, ApplyRequests, ApplyEvent,
                DrainNothing, ForbidPlace, SkipPlaced, Place, Cancel, LookBeforeReplace,
                ForbidReplace, Replace, NextTicket, EndDrain, Reconcile, PersistState, env_vars
  <2>3. CASE Broker
    <3>1. ASSUME NEW oid \in DOMAIN orders, BrokerAck(oid) \/ BrokerReject(oid)
          PROVE  UNCHANGED <<crashes, faults>>
      BY <3>1 DEF BrokerAck, BrokerReject, env_vars
    <3>2. ASSUME NEW oid \in DOMAIN orders, NEW qty, BrokerFill(oid, qty)
          PROVE  UNCHANGED <<crashes, faults>>
      BY <3>2 DEF BrokerFill, env_vars
    <3>3. ASSUME NEW e, Resend(e) PROVE UNCHANGED <<crashes, faults>>
      BY <3>3 DEF Resend
    <3> QED BY <2>3, <3>1, <3>2, <3>3 DEF Broker
  <2> QED BY <1>2, <1>3, <2>1, <2>2, <2>3 DEF Next
<1> QED BY <1>1, <1>2, <1>3, <1>4 DEF Smooth

\* Steps that change no ticket and no order.
LEMMA SameTicketsInStep ==
    ASSUME TInv, PInv, InStep, UNCHANGED <<orders, execs>>, Pending' = Pending,
           st'.tickets = st.tickets, st'.fill_dedup_keys = st.fill_dedup_keys,
           st'.next_order_id = st.next_order_id
    PROVE  TicketsPlain' /\ Accounts'
<1>1. TicketsPlain'
  BY DEF InStep, TicketsPlain
<1>2. Accounts'
  BY AccountsKept DEF InStep, PInv
<1> QED BY <1>1, <1>2

LEMMA PhasesInStep ==
    ASSUME TInv, PInv, InStep,
           \/ BeginStep \/ PollEvents \/ EndDrain \/ Reconcile \/ PersistState \/ CooldownExpires
           \/ MoveFlag \/ UNCHANGED vars
    PROVE  InStep'
<1>1. PhasesPlain'
  BY DEF InStep, PhasesPlain, BeginStep, PollEvents, EndDrain, Reconcile, PersistState,
         CooldownExpires, MoveFlag, vars, engine_vars, disk_vars, broker_vars
<1>2. UNCHANGED <<orders, execs>>
  BY DEF BeginStep, PollEvents, EndDrain, Reconcile, PersistState, CooldownExpires, MoveFlag,
         vars, broker_vars
<1>3. Pending' = Pending
  <2>1. CASE PollEvents
    <3>1. batch = <<>> /\ batch' = queue /\ queue' = <<>> /\ queue \in Seq(BrokerEvent)
      BY <2>1 DEF PollEvents, InStep, PhasesPlain, TInv, BrokerOK
    <3> QED BY <3>1 DEF Pending
  <2>2. CASE ~PollEvents
    <3>1. UNCHANGED <<batch, queue>>
      BY <2>2 DEF BeginStep, EndDrain, Reconcile, PersistState, CooldownExpires, MoveFlag, vars,
                  engine_vars, broker_vars
    <3> QED BY <3>1 DEF Pending
  <2> QED BY <2>1, <2>2
<1>4. /\ st'.tickets = st.tickets /\ st'.fill_dedup_keys = st.fill_dedup_keys
      /\ st'.next_order_id = st.next_order_id
  <2>1. st \in EngineState
    BY DEF TInv, StateOK
  <2> QED BY <2>1 DEF BeginStep, PollEvents, EndDrain, Reconcile, PersistState, CooldownExpires,
                      MoveFlag, vars, engine_vars, EngineState
<1> QED BY <1>1, <1>2, <1>3, <1>4, SameTicketsInStep DEF InStep

\* The first start finds nothing.
LEMMA StartInStep == ASSUME TInv, PInv, InStep, Start PROVE InStep'
<1>1. /\ LoadedState = FreshState /\ pc' = "persist" /\ DOMAIN orders = {}
      /\ UNCHANGED <<batch, queue, orders, execs>> /\ replace_seen' = <<>> /\ batch' = <<>>
  BY DEF InStep, PhasesPlain, Start, LoadedState, broker_vars
<1>2. \A i \in Intents : st'.tickets[i] = AbsentTicket
  <2>1. \A i \in Intents : FreshState.tickets[i] = AbsentTicket /\ ~IsLive(FreshState.tickets[i])
    BY DEF FreshState, AbsentTicket, NewTicket, IsLive, IsPresent
  <2> QED BY <1>1, <2>1, StartTicket DEF PInv
<1>3. st'.fill_dedup_keys = <<>>
  BY <1>1, StartCounts, FreshIsState DEF CountsKept, SameCounts
<1>4. PhasesPlain'
  BY <1>1 DEF PhasesPlain
<1>5. TicketsPlain'
  BY <1>2 DEF TicketsPlain, Plain, AbsentTicket, NewTicket, NoQty, NoOid
<1>6. Accounts'
  <2>1. Pending' = Pending
    BY <1>1 DEF Pending
  <2>2. OrdersPaired'
    BY <1>1, <1>2 DEF OrdersPaired, AbsentTicket, NewTicket
  <2>3. EventsOfOrders' /\ StampsRise'
    BY <1>1, <1>3, <2>1 DEF InStep, Accounts, EventsOfOrders, StampsRise
  <2> QED BY <1>1, <2>2, <2>3 DEF Accounts
<1> QED BY <1>4, <1>5, <1>6 DEF InStep

LEMMA CallsInStep ==
    ASSUME NothingElse, ReplaceQtys = {}, TInv, PInv, InStep, RunnerCalls
    PROVE  InStep'
<1>1. PICK i \in Intents : submit_intent(i) \/ request_cancel(i)
  BY DEF RunnerCalls, adopt_order, NothingElse
<1> DEFINE t == st.tickets[i]
<1>2. PICK u \in Ticket :
         /\ CallUpdates(WithTicket(st, i, u)) /\ pc = "idle" /\ Plain(u) /\ u.oid = t.oid
         /\ t.oid # NoOid => u.qty = t.qty /\ u.filled = t.filled /\ u.terminal = t.terminal
  <2>1. t \in Ticket /\ Plain(t)
    BY StateParts DEF TInv, StateOK, InStep, TicketsPlain
  <2>2. CASE submit_intent(i)
    <3> DEFINE u == NewTicket(i, NoOid, OrderOf[i].qty, "PENDING_PLACE")
    <3>1. u \in Ticket
      BY IntentsAssumption, NewIsTicket DEF TicketStates, NoOid
    <3>2. Plain(u) /\ u.oid = NoOid
      BY DEF Plain, NewTicket, NoOid, NoQty
    <3>3. CallUpdates(WithTicket(st, i, u)) /\ pc = "idle" /\ ~IsPresent(t)
      BY <2>2 DEF submit_intent
    <3>4. t.oid = NoOid
      BY <2>1, <3>3 DEF Plain, IsPresent
    <3> HIDE DEF u
    <3> QED BY <3>1, <3>2, <3>3, <3>4
  <2>3. CASE request_cancel(i)
    <3> DEFINE u == [t EXCEPT !.want_cancel = TRUE]
    <3>1. u \in Ticket /\ Plain(u)
      BY <2>1, TicketSet, PlainSet
    <3>2. u.oid = t.oid /\ u.qty = t.qty /\ u.filled = t.filled /\ u.terminal = t.terminal
      BY <2>1 DEF Ticket
    <3>3. CallUpdates(WithTicket(st, i, u)) /\ pc = "idle"
      BY <2>3 DEF request_cancel, WithTicket
    <3> HIDE DEF u
    <3> QED BY <3>1, <3>2, <3>3
  <2> QED BY <1>1, <2>2, <2>3
<1>3. /\ st' = WithTicket(st, i, u) /\ pc' = "persist"
      /\ UNCHANGED <<batch, replace_seen, queue, orders, execs>>
  BY <1>2 DEF CallUpdates, broker_vars
<1>4. /\ st'.tickets[i] = u /\ \A j \in Intents \ {i} : st'.tickets[j] = st.tickets[j]
      /\ st'.fill_dedup_keys = st.fill_dedup_keys /\ st'.next_order_id = st.next_order_id
  <2>1. st \in EngineState /\ st.tickets \in [Intents -> Ticket]
    BY StateParts DEF TInv, StateOK
  <2>2. /\ st'.tickets = [st.tickets EXCEPT ![i] = u]
        /\ st'.fill_dedup_keys = st.fill_dedup_keys /\ st'.next_order_id = st.next_order_id
    BY <1>3, <2>1, TicketReplaced
  <2> QED BY <2>1, <2>2
<1>5. Pending' = Pending
  BY <1>3 DEF Pending
<1>6. PhasesPlain'
  BY <1>2, <1>3 DEF InStep, PhasesPlain
<1>7. TicketsPlain'
  BY <1>2, <1>4 DEF InStep, TicketsPlain
<1>8. Accounts'
  <2>1. \A j \in Intents :
           /\ st'.tickets[j].oid = st.tickets[j].oid
           /\ st.tickets[j].oid # NoOid =>
                 /\ st'.tickets[j].qty = st.tickets[j].qty
                 /\ st'.tickets[j].filled = st.tickets[j].filled
                 /\ st'.tickets[j].terminal = st.tickets[j].terminal
    BY <1>2, <1>4
  <2> QED BY <1>3, <1>4, <1>5, <2>1, AccountsKept DEF InStep, PInv
<1> QED BY <1>6, <1>7, <1>8 DEF InStep

LEMMA RequestsInStep == ASSUME TInv, PInv, InStep, ApplyRequests PROVE InStep'
<1>1. /\ batch = <<>> /\ UNCHANGED <<batch, queue, replace_seen, orders, execs>>
      /\ pc = "apply" /\ pc' \in {"reconcile", "drain"}
  BY DEF ApplyRequests, broker_vars
<1>2. /\ st'.fill_dedup_keys = st.fill_dedup_keys /\ st'.next_order_id = st.next_order_id
      /\ \A i \in Intents : st'.tickets[i] = Requested(st.tickets[i])
  <2>1. st \in EngineState
    BY DEF TInv, StateOK
  <2> QED BY <2>1 DEF ApplyRequests, EngineState
<1>3. ASSUME NEW i \in Intents
      PROVE  LET t == st.tickets[i]
                 u == Requested(t)
             IN  /\ Plain(u) /\ u.oid = t.oid /\ u.qty = t.qty /\ u.filled = t.filled
                 /\ u.terminal = t.terminal
  <2> DEFINE t == st.tickets[i]
  <2>1. t \in Ticket /\ Plain(t)
    BY StateParts DEF TInv, StateOK, InStep, TicketsPlain
  <2>2. \/ Requested(t) = t
        \/ t.state # "TERMINAL" /\ t.oid # NoOid /\ Requested(t) = [t EXCEPT !.state = "CANCEL_REQUESTED"]
    BY <2>1 DEF Requested, Plain, IsLive, IsTerminal
  <2> HIDE DEF t
  <2>3. t.state # "TERMINAL" /\ t.oid # NoOid => Plain([t EXCEPT !.state = "CANCEL_REQUESTED"])
    BY <2>1, PlainSet
  <2>4. LET u == [t EXCEPT !.state = "CANCEL_REQUESTED"]
        IN u.oid = t.oid /\ u.qty = t.qty /\ u.filled = t.filled /\ u.terminal = t.terminal
    BY <2>1 DEF Ticket
  <2>5. LET u == Requested(t)
        IN  /\ Plain(u) /\ u.oid = t.oid /\ u.qty = t.qty /\ u.filled = t.filled
            /\ u.terminal = t.terminal
    BY <2>1, <2>2, <2>3, <2>4
  <2> QED BY <2>5 DEF t
<1>4. Pending' = Pending
  BY <1>1 DEF Pending
<1>5. PhasesPlain'
  BY <1>1 DEF InStep, PhasesPlain
<1>6. TicketsPlain'
  BY <1>2, <1>3 DEF TicketsPlain
<1>7. Accounts'
  BY <1>1, <1>2, <1>3, <1>4, AccountsKept DEF InStep, PInv
<1> QED BY <1>5, <1>6, <1>7 DEF InStep

LEMMA EventsInStep ==
    ASSUME NothingElse, TInv, PInv, TracedInv, InStep,
           DropSeenFill \/ OrphanEvent \/ \E i \in Intents : ApplyEvent(i)
    PROVE  InStep'
<1>1. ~DropSeenFill /\ ~OrphanEvent
  BY NextEvent DEF DropSeenFill, OrphanEvent, InStep
<1>2. PICK i \in Intents : ApplyEvent(i)
  BY <1>1
<1>3. TicketsPlain' /\ Accounts'
  BY <1>2, AccountsApplied DEF InStep
<1>4. PhasesPlain'
  BY <1>2 DEF ApplyEvent, InStep, PhasesPlain
<1> QED BY <1>3, <1>4 DEF InStep

\* The broker says how an order goes on.
LEMMA OrderMoves ==
    ASSUME TInv, InStep, UNCHANGED <<st, batch, replace_seen>>, pc # "down", UNCHANGED pc,
           NEW oid \in DOMAIN orders, NEW o \in Order, NEW type \in {"ACK", "REJECT", "CANCELLED", "FILL"},
           NEW qty \in Nat, NEW remaining \in Int, NEW stamp \in Nat,
           Emit(Event(type, oid, qty, remaining, stamp)),
           orders' = [orders EXCEPT ![oid] = o],
           o.coid = orders[oid].coid, o.qty = orders[oid].qty, o.filled + o.remaining = o.qty,
           Moves(Event(type, oid, qty, remaining, stamp), oid, Held(orders[oid]), Held(o)),
           IF type = "FILL" THEN stamp = execs /\ execs' = execs + 1 ELSE execs' = execs
    PROVE  InStep'
<1>1. PICK e : e = Event(type, oid, qty, remaining, stamp)
  OBVIOUS
<1>2. e \in BrokerEvent
  BY <1>1, EventTyped DEF TInv
<1>3. e.oid = oid /\ e.coid = orders[oid].coid /\ e.type = type /\ e.stamp = stamp
  BY <1>1 DEF Event
<1>4. queue' = Append(queue, e)
  BY <1>1 DEF Emit
<1>5. Accounts'
  BY <1>1, <1>2, <1>3, <1>4, AccountsMoved DEF InStep
<1>6. TicketsPlain' /\ PhasesPlain'
  BY DEF InStep, TicketsPlain, PhasesPlain
<1> QED BY <1>5, <1>6 DEF InStep

\* The broker says how an order goes on, with something other than a fill.
LEMMA OrderTurns ==
    ASSUME TInv, InStep, UNCHANGED <<st, batch, replace_seen>>, pc # "down", UNCHANGED pc,
           NEW oid \in DOMAIN orders, NEW o \in Order, NEW type \in {"ACK", "REJECT", "CANCELLED"},
           Emit(Event(type, oid, 0, 0, 0)), orders' = [orders EXCEPT ![oid] = o], UNCHANGED execs,
           o.coid = orders[oid].coid, o.qty = orders[oid].qty, o.filled + o.remaining = o.qty,
           Moves(Event(type, oid, 0, 0, 0), oid, Held(orders[oid]), Held(o))
    PROVE  InStep'
<1>1. PICK z \in Nat : z = 0
  OBVIOUS
<1>2. Emit(Event(type, oid, z, z, z)) /\ Moves(Event(type, oid, z, z, z), oid, Held(orders[oid]), Held(o))
  BY <1>1
<1>3. z \in Int /\ type \in {"ACK", "REJECT", "CANCELLED", "FILL"} /\ type # "FILL"
  BY <1>1
<1> QED BY <1>1, <1>2, <1>3, OrderMoves

LEMMA BrokerInStep ==
    ASSUME UniqueStamps, MaxResends = 0, TInv, InStep, Broker
    PROVE  InStep'
<1>1. \A e : ~Resend(e)
  BY DEF Resend, TInv, EnvOK
<1>2. PICK oid \in DOMAIN orders :
         \/ BrokerAck(oid) \/ BrokerReject(oid)
         \/ \E qty \in 1..orders[oid].remaining : BrokerFill(oid, qty)
  BY <1>1 DEF Broker
<1> DEFINE o == orders[oid]
<1>3. /\ UNCHANGED <<st, batch, replace_seen, pc>> /\ pc # "down"
      /\ o \in Order /\ o.filled + o.remaining = o.qty /\ o.filled \in Nat /\ o.remaining \in Int
      /\ o.qty \in Int /\ execs \in Nat
  <2>1. UNCHANGED <<st, batch, replace_seen, pc>>
    BY <1>2 DEF BrokerAck, BrokerReject, BrokerFill, engine_vars
  <2> QED BY <2>1, OrderParts DEF InStep, PhasesPlain, Accounts, OrderTold, TInv, BrokerOK
<1>4. CASE BrokerAck(oid)
  <2> DEFINE new == [o EXCEPT !.acked = TRUE]
  <2>1. /\ new \in Order /\ new.coid = o.coid /\ new.qty = o.qty /\ new.filled = o.filled
        /\ new.remaining = o.remaining /\ new.status = o.status
    <3> HIDE DEF o
    <3> QED BY <1>3 DEF Order
  <2>2. /\ orders' = [orders EXCEPT ![oid] = new] /\ UNCHANGED execs
        /\ Emit(Event("ACK", oid, 0, 0, 0))
    BY <1>4 DEF BrokerAck
  <2>3. Moves(Event("ACK", oid, 0, 0, 0), oid, Held(o), Held(new))
    <3> HIDE DEF o, new
    <3> QED BY <2>1 DEF Moves, Event, Held
  <2> HIDE DEF new
  <2> QED BY <1>3, <2>1, <2>2, <2>3, OrderTurns
<1>5. CASE BrokerReject(oid)
  <2> DEFINE new == [o EXCEPT !.status = "Rejected"]
  <2>1. /\ new \in Order /\ new.coid = o.coid /\ new.qty = o.qty /\ new.filled = o.filled
        /\ new.remaining = o.remaining /\ new.status = "Rejected"
    <3> HIDE DEF o
    <3> QED BY <1>3 DEF Order, ClosedStatuses
  <2>2. /\ orders' = [orders EXCEPT ![oid] = new] /\ UNCHANGED execs
        /\ Emit(Event("REJECT", oid, 0, 0, 0)) /\ o.status = "Submitted"
    BY <1>3, <1>5, OrderParts DEF BrokerReject, IsOpen
  <2>3. Moves(Event("REJECT", oid, 0, 0, 0), oid, Held(o), Held(new))
    <3> HIDE DEF o, new
    <3> QED BY <2>1, <2>2 DEF Moves, Event, Held
  <2> HIDE DEF new
  <2> QED BY <1>3, <2>1, <2>2, <2>3, OrderTurns
<1>6. ASSUME NEW qty \in 1..orders[oid].remaining, BrokerFill(oid, qty) PROVE InStep'
  <2> DEFINE left == o.remaining - qty
             how == IF left <= 0 THEN "Filled" ELSE o.status
             filled == o.filled + qty
             new == [o EXCEPT !.filled = filled, !.remaining = left, !.status = how]
             e == Event("FILL", oid, qty, left, execs)
  <2>1. qty \in Nat /\ left \in Int /\ filled \in Nat /\ filled + left = o.qty /\ o.status = "Submitted"
    <3>1. o.status = "Submitted"
      BY <1>3, <1>6, OrderParts DEF BrokerFill, IsOpen
    <3> HIDE DEF o
    <3> QED BY <1>3, <1>6, <3>1 DEF o
  <2>2. how = IF left <= 0 THEN "Filled" ELSE "Submitted"
    BY <2>1
  <2>3. orders' = [orders EXCEPT ![oid] = new] /\ Emit(e) /\ execs' = execs + 1
    BY <1>6 DEF BrokerFill
  <2> HIDE DEF left, how, filled, o
  <2>4. /\ new \in Order /\ new.coid = o.coid /\ new.qty = o.qty /\ new.filled = filled
        /\ new.remaining = left /\ new.status = how
    BY <1>3, <2>1, <2>2 DEF Order, ClosedStatuses
  <2> HIDE DEF new
  <2>5. Moves(e, oid, Held(o), Held(new))
    <3>1. e.oid = oid /\ e.type = "FILL" /\ e.remaining = left /\ e.qty = qty
      BY DEF Event
    <3>2. Held(o).left - qty = left
      BY DEF Held, left
    <3> HIDE DEF e
    <3> QED BY <2>1, <2>2, <2>4, <3>1, <3>2 DEF Moves, Held
  <2> QED BY <1>3, <2>1, <2>3, <2>4, <2>5, OrderMoves DEF o
<1> QED BY <1>2, <1>4, <1>5, <1>6

LEMMA DrainInStep ==
    ASSUME TInv, PInv, InStep, NEW i \in Intents,
           \/ DrainNothing(i) \/ ForbidPlace(i) \/ SkipPlaced(i) \/ Place(i) \/ Cancel(i)
           \/ LookBeforeReplace(i) \/ ForbidReplace(i) \/ Replace(i)
    PROVE  InStep'
<1> DEFINE t == st.tickets[i]
           oid == t.oid
<1>1. t \in Ticket /\ Plain(t) /\ st \in EngineState /\ st.tickets \in [Intents -> Ticket]
  BY StateParts DEF TInv, StateOK, InStep, TicketsPlain
<1>2. ~SkipPlaced(i) /\ ~LookBeforeReplace(i) /\ ~ForbidReplace(i) /\ ~Replace(i)
  BY <1>1 DEF SkipPlaced, LookBeforeReplace, ForbidReplace, Replace, Replacing, Draining,
              Plain, InStep, PhasesPlain
<1>3. PhasesPlain' /\ UNCHANGED batch /\ pc = "drain" /\ UNCHANGED <<pc, replace_seen>>
  BY <1>2 DEF DrainNothing, ForbidPlace, Place, Cancel, NextTicket, Draining, InStep, PhasesPlain
<1>4. CASE DrainNothing(i)
  <2>1. UNCHANGED <<st, orders, execs, batch, queue>>
    BY <1>4 DEF DrainNothing, NextTicket, broker_vars
  <2> QED BY <1>3, <2>1, SameTicketsInStep DEF InStep, Pending
<1>5. CASE ForbidPlace(i)
  <2> DEFINE u == Terminate(t, "FAILED")
  <2>1. /\ t.state = "PENDING_PLACE" /\ st' = WithTicket(st, i, u)
        /\ UNCHANGED <<orders, execs, batch, queue>>
    BY <1>5 DEF ForbidPlace, Draining, NextTicket, broker_vars
  <2>2. u \in Ticket /\ Plain(u) /\ t.oid = NoOid /\ u.oid = NoOid
    <3>1. t.oid = NoOid
      BY <1>1, <2>1 DEF Plain
    <3>2. u \in Ticket /\ u.oid = t.oid
      <4> HIDE DEF t
      <4>1. t \in Ticket
        BY <1>1
      <4>2. u \in Ticket
        BY <4>1, TicketSet DEF TerminalStates
      <4> QED BY <4>1, <4>2 DEF Terminate, Ticket
    <3>3. Plain(u)
      BY <1>1, <2>1, PlainSet DEF TerminalStates
    <3> QED BY <3>1, <3>2, <3>3
  <2> HIDE DEF u
  <2>3. /\ st'.tickets = [st.tickets EXCEPT ![i] = u]
        /\ st'.fill_dedup_keys = st.fill_dedup_keys /\ st'.next_order_id = st.next_order_id
    BY <1>1, <2>1, <2>2, TicketReplaced
  <2>4. st'.tickets[i] = u /\ \A j \in Intents \ {i} : st'.tickets[j] = st.tickets[j]
    BY <1>1, <2>3
  <2>5. TicketsPlain'
    BY <2>2, <2>4 DEF InStep, TicketsPlain
  <2>6. Accounts'
    <3>1. \A j \in Intents :
             /\ st'.tickets[j].oid = st.tickets[j].oid
             /\ st.tickets[j].oid # NoOid => st'.tickets[j] = st.tickets[j]
      BY <2>2, <2>4
    <3>2. Pending' = Pending
      BY <2>1 DEF Pending
    <3> QED BY <2>1, <2>3, <3>1, <3>2, AccountsKept DEF InStep, PInv
  <2> QED BY <1>3, <2>5, <2>6 DEF InStep
<1>6. CASE Place(i)
  BY <1>3, <1>6, AccountsPlaced DEF InStep
<1>7. CASE Cancel(i)
  <2>1. BrokerCancels(oid) /\ UNCHANGED <<st, batch>>
    BY <1>7 DEF Cancel, NextTicket
  <2> HIDE DEF oid
  <2>2. CASE oid \in DOMAIN orders /\ IsOpen(orders[oid])
    <3> DEFINE o == orders[oid]
               new == [o EXCEPT !.status = "Cancelled"]
    <3>1. /\ o \in Order /\ o.filled + o.remaining = o.qty
      BY <2>2 DEF InStep, Accounts, OrderTold, TInv, BrokerOK
    <3>2. o.status = "Submitted"
      BY <2>2, <3>1, OrderParts DEF IsOpen
    <3>3. /\ orders' = [orders EXCEPT ![oid] = new] /\ UNCHANGED execs
          /\ Emit(Event("CANCELLED", oid, 0, 0, 0))
      BY <2>1, <2>2 DEF BrokerCancels
    <3>4. /\ new \in Order /\ new.coid = o.coid /\ new.qty = o.qty /\ new.filled = o.filled
          /\ new.remaining = o.remaining /\ new.status = "Cancelled"
      <4> HIDE DEF o
      <4> QED BY <3>1 DEF Order, ClosedStatuses
    <3>5. Moves(Event("CANCELLED", oid, 0, 0, 0), oid, Held(o), Held(new))
      <4> HIDE DEF o, new
      <4> QED BY <3>2, <3>4 DEF Moves, Event, Held
    <3> HIDE DEF new
    <3> QED BY <1>3, <2>1, <2>2, <3>1, <3>3, <3>4, <3>5, OrderTurns
  <2>3. CASE ~(oid \in DOMAIN orders /\ IsOpen(orders[oid]))
    <3>1. UNCHANGED <<st, orders, execs, batch, queue>>
      BY <2>1, <2>3 DEF BrokerCancels, broker_vars
    <3> QED BY <1>3, <3>1, SameTicketsInStep DEF InStep, Pending
  <2> QED BY <2>2, <2>3
<1> QED BY <1>2, <1>4, <1>5, <1>6, <1>7

LEMMA AccountInit == ASSUME NothingElse, Init PROVE AccountInv
<1>1. /\ st = FreshState /\ pc = "down" /\ batch = <<>> /\ queue = <<>> /\ replace_seen = <<>>
      /\ ~state_exists /\ ledger_state = FreshState /\ DOMAIN orders = {}
  BY DEF Init, NothingElse
<1>2. \A i \in Intents : st.tickets[i] = AbsentTicket
  BY <1>1 DEF FreshState
<1>3. st.fill_dedup_keys = <<>> /\ Pending = <<>>
  BY <1>1, FreshIsState DEF Pending
<1>4. TicketsPlain
  BY <1>2 DEF TicketsPlain, Plain, AbsentTicket, NewTicket, NoQty, NoOid
<1>5. Accounts
  BY <1>1, <1>2, <1>3 DEF Accounts, OrdersPaired, EventsOfOrders, StampsRise, AbsentTicket, NewTicket
<1> QED BY <1>1, <1>4, <1>5 DEF AccountInv, InStep, PhasesPlain

LEMMA AccountStep ==
    ASSUME NothingElse, UniqueStamps, MaxResends = 0, ReplaceQtys = {},
           TInv, PInv, TracedInv, AccountInv, [Next]_vars
    PROVE  AccountInv'
<1> SUFFICES ASSUME Smooth' PROVE InStep'
  BY DEF AccountInv
<1>1. InStep /\ ~Crash /\ ~CrashInPersist /\ ~Raises
  BY SmoothSteps DEF AccountInv
<1>2. ~LoseStateFile
  BY <1>1 DEF LoseStateFile, InStep, PhasesPlain
<1>3. CASE Start \/ RunnerCalls \/ BeginStep \/ CooldownExpires \/ MoveFlag \/ UNCHANGED vars \/ Broker
  BY <1>1, <1>3, StartInStep, CallsInStep, PhasesInStep, BrokerInStep
<1>4. CASE StepWork
  BY <1>1, <1>4, PhasesInStep, EventsInStep, RequestsInStep, DrainInStep DEF StepWork
<1> QED BY <1>1, <1>2, <1>3, <1>4 DEF Next

\* When nothing was lost and every event has been applied, each ticket agrees with its
\* order on what was filled and on how it ended (_apply_event, _apply_requests,
\* _drain_actions), whatever the broker does and in whatever order its events arrive
\* between the steps, as long as fills can be told apart, none is told of twice, and no
\* order is replaced: a replace that the policy forbids ends the ticket and not the order.
THEOREM BooksDoAgree ==
    ASSUME NothingElse, UniqueStamps, MaxResends = 0, ReplaceQtys = {}
    PROVE  Spec => []BooksAgree
<1>1. ASSUME TInv, AccountInv PROVE BooksAgree
  <2> SUFFICES ASSUME pc = "idle", queue = <<>>, Smooth, NEW i \in Intents,
                      st.tickets[i].oid \in DOMAIN orders
               PROVE  AgreesWith(st.tickets[i], orders[st.tickets[i].oid])
    BY DEF BooksAgree, Smooth
  <2> DEFINE t == st.tickets[i]
             o == orders[t.oid]
  <2>1. Pending = <<>>
    BY <1>1 DEF AccountInv, InStep, PhasesPlain, Pending
  <2>2. t \in Ticket /\ o \in Order
    BY <1>1, StateParts DEF TInv, StateOK, BrokerOK
  <2>3. t.oid # NoOid
    BY <1>1 DEF AccountInv, InStep, NoOid
  <2>4. o.coid = i
    BY <1>1, <2>3 DEF AccountInv, InStep, Accounts, OrdersPaired
  <2>5. o.qty = t.qty /\ o.filled + o.remaining = o.qty /\ Lead(<<>>, t.oid, Told(t), Held(o))
    BY <1>1, <2>1, <2>4 DEF AccountInv, InStep, Accounts, OrderTold
  <2> HIDE DEF t, o
  <2>6. Told(t) = Held(o)
    BY <2>5, LeadNothing
  <2>7. t.qty - t.filled = o.remaining /\ EndOf(t) = o.status
    BY <2>6 DEF Told, Held
  <2>8. t.filled = o.filled
    BY <2>2, <2>5, <2>7, TicketParts, OrderParts
  <2>9. t.terminal \in {"None", "DONE", "FILLED", "CANCELLED", "FAILED"}
    BY <2>2, TicketParts DEF TerminalStates
  <2> QED BY <2>7, <2>8, <2>9 DEF AgreesWith, EndOf, t, o
<1>2. TInv /\ AccountInv => BooksAgree
  BY <1>1
<1>3. TInv /\ PInv /\ TracedInv /\ AccountInv /\ [Next]_vars => AccountInv'
  BY AccountStep
<1>4. Init => AccountInv
  BY AccountInit
<1> QED BY <1>2, <1>3, <1>4, TypesInvariant, PlacementInvariant, TracedInvariant, PTL DEF Spec

-----------------------------------------------------------------------------
=============================================================================
