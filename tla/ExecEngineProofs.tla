-------------------------- MODULE ExecEngineProofs --------------------------
(***************************************************************************)
(* What the policy's allowed orders do to a position (OrderPolicy.tla),    *)
(* and that the execution engine keeps the types of its state              *)
(* (ExecEngine.tla), for any intents, orders, positions and bounds.        *)
(*                                                                         *)
(* The type invariant is split by owner: the engine's memory, its files,   *)
(* the broker, the environment.  An action touches few of them, and the    *)
(* others are carried by the lemmas EngineKept, DiskKept and BrokerKept.   *)
(***************************************************************************)
EXTENDS ExecEngine, SequenceTheorems, WellFoundedInduction, TLAPS

-----------------------------------------------------------------------------
(* The policy (OrderPolicy.tla): what an allowed order does to the         *)
(* position it was checked against, for every position, quantity and       *)
(* control plane.  The engine's own promise is weaker, as it checks        *)
(* several orders against one position before any of them is executed.     *)

\* The position moves towards zero and does not pass it.
Shrinks(before, after) ==
    \/ 0 <= after /\ after <= before
    \/ before <= after /\ after <= 0

\* An exit order shrinks the position however much of it is executed: a part of
\* an allowed exit, as after a cancellation, never flips or grows the position
\* (is_exit_order).
THEOREM ExitShrinks ==
    ASSUME NEW position \in Int, NEW side \in Sides, NEW qty \in Int,
           is_exit_order(position, side, qty),
           NEW executed \in 0..qty
    PROVE  Shrinks(position, position + Delta(side, executed))
<1>1. CASE position > 0 /\ side = "SELL" /\ qty <= position
  BY <1>1 DEF Delta, Shrinks
<1>2. CASE position < 0 /\ side = "BUY" /\ qty <= Abs(position)
  BY <1>2 DEF Delta, Shrinks, Abs
<1> QED BY <1>1, <1>2 DEF is_exit_order

\* Under ONLY_EXITS every order that is placed or replaced shrinks the position
\* it was checked against, and so does, in any other mode, an order for a symbol
\* outside a nonempty allowlist (check_order_allowed).
THEOREM RestrictedShrinks ==
    ASSUME NEW cp, NEW symbol, NEW position \in Int, NEW side \in Sides, NEW qty \in Int,
           NEW action, action # "CANCEL",
           check_order_allowed(cp, symbol, side, qty, position, action),
           cp.global_mode = "ONLY_EXITS" \/ (cp.allowlist # {} /\ symbol \notin cp.allowlist),
           NEW executed \in 0..qty
    PROVE  Shrinks(position, position + Delta(side, executed))
<1>1. is_exit_order(position, side, qty)
  BY DEF check_order_allowed
<1> QED BY <1>1, ExitShrinks

\* In no mode does a replaced order of positive quantity leave the position
\* farther from zero than it was when the order was checked
\* (would_increase_exposure).
THEOREM ReplaceKeepsExposure ==
    ASSUME NEW cp, NEW symbol, NEW position \in Int, NEW side \in Sides,
           NEW qty \in Int, qty > 0,
           check_order_allowed(cp, symbol, side, qty, position, "REPLACE")
    PROVE  Abs(position + Delta(side, qty)) <= Abs(position)
<1>1. CASE is_exit_order(position, side, qty)
  <2>1. Shrinks(position, position + Delta(side, qty))
    BY <1>1, ExitShrinks
  <2>2. Delta(side, qty) \in Int
    BY DEF Delta
  <2> QED BY <2>1, <2>2 DEF Shrinks, Abs
<1>2. CASE ~would_increase_exposure(position, side, qty)
  <2>1. Delta(side, qty) \in Int
    BY DEF Delta
  <2> QED BY <1>2, <2>1 DEF would_increase_exposure, Abs
<1> QED BY <1>1, <1>2 DEF check_order_allowed

-----------------------------------------------------------------------------
(* The parts of the type invariant.                                        *)

MemoryOK ==
    /\ pc \in {"down", "idle", "poll", "apply", "drain", "reconcile", "persist"}
    /\ batch \in Seq(BrokerEvent)
    /\ todo \in SUBSET Intents
    /\ seen_positions \in [DOMAIN InitialPositions -> Int]
    /\ replace_seen \in {<<>>} \cup (Intents \X [DOMAIN InitialPositions -> Int])
    /\ blocked \in BOOLEAN

StateOK == st \in EngineState /\ Len(st.fill_dedup_keys) <= MaxKeys

DiskOK ==
    /\ state_file \in EngineState /\ state_exists \in BOOLEAN
    /\ ledger_state \in EngineState
    /\ Len(state_file.fill_dedup_keys) <= MaxKeys
    /\ Len(ledger_state.fill_dedup_keys) <= MaxKeys

BrokerOK ==
    /\ DOMAIN orders \in SUBSET Nat
    /\ \A oid \in DOMAIN orders : orders[oid] \in Order
    /\ positions \in [DOMAIN InitialPositions -> Int]
    /\ queue \in Seq(BrokerEvent)
    /\ placed \in [Intents -> Nat]
    /\ execs \in Nat
    /\ emitted \in SUBSET BrokerEvent

EnvOK == flag \in BOOLEAN /\ crashes \in Nat /\ faults \in Nat /\ resends \in Nat

TInv == StateOK /\ MemoryOK /\ DiskOK /\ BrokerOK /\ EnvOK

-----------------------------------------------------------------------------
(* What an action leaves alone keeps its type.                              *)

LEMMA MemoryKept == MemoryOK /\ UNCHANGED <<pc, batch, todo, seen_positions, replace_seen, blocked>>
                        => MemoryOK'
  BY DEF MemoryOK

LEMMA StateKept == StateOK /\ UNCHANGED st => StateOK'
  BY DEF StateOK

LEMMA DiskKept == DiskOK /\ UNCHANGED disk_vars => DiskOK'
  BY DEF DiskOK, disk_vars

LEMMA BrokerKept == BrokerOK /\ UNCHANGED broker_vars => BrokerOK'
  BY DEF BrokerOK, broker_vars

LEMMA EnvKept == EnvOK /\ UNCHANGED env_vars => EnvOK'
  BY DEF EnvOK, env_vars

-----------------------------------------------------------------------------
(* Values of the engine's state.                                            *)

LEMMA TicketParts ==
    ASSUME NEW t \in Ticket
    PROVE  /\ t.coid \in Int /\ t.oid \in Nat /\ t.qty \in Int
           /\ t.state \in TicketStates /\ t.terminal \in TerminalStates \cup {"None"}
           /\ t.filled \in Int /\ t.remaining \in Int
           /\ t.want_cancel \in BOOLEAN /\ t.want_replace \in Int
  BY DEF Ticket

LEMMA NewIsTicket ==
    ASSUME NEW coid \in Int, NEW oid \in Nat, NEW qty \in Int, NEW state \in TicketStates
    PROVE  NewTicket(coid, oid, qty, state) \in Ticket
  BY DEF NewTicket, Ticket, NoQty

LEMMA AbsentIsTicket == AbsentTicket \in Ticket
<1>1. "ABSENT" \in TicketStates
  BY DEF TicketStates
<1> QED BY <1>1, NewIsTicket DEF AbsentTicket, NoCoid, NoOid

LEMMA FreshIsState == FreshState \in EngineState /\ FreshState.fill_dedup_keys = <<>>
<1>1. <<>> \in Seq(FillKey)
  BY EmptySeq
<1> QED BY <1>1, AbsentIsTicket, BoundsAssumption DEF FreshState, EngineState

\* A ticket whose fields are set to values of their types is a ticket.
LEMMA TicketSet ==
    ASSUME NEW t \in Ticket
    PROVE  /\ \A x \in TicketStates : [t EXCEPT !.state = x] \in Ticket
           /\ \A how \in TerminalStates : Terminate(t, how) \in Ticket
           /\ \A x \in Nat : [t EXCEPT !.oid = x] \in Ticket
           /\ \A x \in Nat, y \in TicketStates : [t EXCEPT !.oid = x, !.state = y] \in Ticket
           /\ \A x \in Int : [t EXCEPT !.qty = x] \in Ticket
           /\ \A x \in BOOLEAN : [t EXCEPT !.want_cancel = x] \in Ticket
           /\ \A x \in Int : [t EXCEPT !.want_replace = x] \in Ticket
           /\ \A x, y \in Int : [t EXCEPT !.filled = x, !.remaining = y] \in Ticket
<1>1. "TERMINAL" \in TicketStates
  BY DEF TicketStates
<1> QED BY <1>1 DEF Ticket, Terminate

LEMMA StateParts ==
    ASSUME NEW s \in EngineState
    PROVE  /\ \A i \in Intents : s.tickets[i] \in Ticket
           /\ s.next_order_id \in Nat /\ s.cooldown \in BOOLEAN
           /\ s.fill_dedup_keys \in Seq(FillKey) /\ s.ratio \in {"none", "full", "partial"}
           /\ s.tickets \in [Intents -> Ticket]
  BY DEF EngineState

\* An engine state whose parts are set to values of their types is one.
LEMMA StateSet ==
    ASSUME NEW s \in EngineState
    PROVE  /\ \A f \in [Intents -> Ticket] :
                 /\ [s EXCEPT !.tickets = f] \in EngineState
                 /\ [s EXCEPT !.tickets = f].fill_dedup_keys = s.fill_dedup_keys
           /\ \A x \in BOOLEAN :
                 /\ [s EXCEPT !.cooldown = x] \in EngineState
                 /\ [s EXCEPT !.cooldown = x].fill_dedup_keys = s.fill_dedup_keys
           /\ \A x \in {"none", "full", "partial"} :
                 /\ [s EXCEPT !.ratio = x] \in EngineState
                 /\ [s EXCEPT !.ratio = x].fill_dedup_keys = s.fill_dedup_keys
           /\ \A x \in Seq(FillKey) : [s EXCEPT !.fill_dedup_keys = x] \in EngineState
  BY DEF EngineState

LEMMA TicketReplaced ==
    ASSUME NEW s \in EngineState, NEW i \in Intents, NEW t \in Ticket
    PROVE  /\ WithTicket(s, i, t) \in EngineState
           /\ WithTicket(s, i, t).fill_dedup_keys = s.fill_dedup_keys
           /\ WithTicket(s, i, t).tickets = [s.tickets EXCEPT ![i] = t]
           /\ WithTicket(s, i, t).cooldown = s.cooldown
           /\ WithTicket(s, i, t).next_order_id = s.next_order_id
  BY DEF EngineState, WithTicket

-----------------------------------------------------------------------------
(* The broker.                                                              *)

LEMMA OrderParts ==
    ASSUME NEW o \in Order
    PROVE  /\ o.coid \in Int /\ o.symbol \in DOMAIN InitialPositions /\ o.side \in Sides
           /\ o.qty \in Int /\ o.filled \in Nat /\ o.remaining \in Int
           /\ o.status \in {"Submitted"} \cup ClosedStatuses /\ o.acked \in BOOLEAN
  BY DEF Order

\* An event about an order the broker holds is an event.
LEMMA EventTyped ==
    ASSUME BrokerOK, NEW oid \in DOMAIN orders,
           NEW type \in {"ACK", "REJECT", "CANCELLED", "FILL"},
           NEW qty \in Nat, NEW remaining \in Int, NEW stamp \in Nat
    PROVE  Event(type, oid, qty, remaining, stamp) \in BrokerEvent
<1>1. oid \in Nat /\ orders[oid].coid \in Int
  BY OrderParts DEF BrokerOK
<1> QED BY <1>1 DEF Event, BrokerEvent

\* An event that goes out keeps the queue and the history of events.
LEMMA EmitTyped ==
    ASSUME BrokerOK, NEW e \in BrokerEvent, Emit(e)
    PROVE  queue' \in Seq(BrokerEvent) /\ emitted' \in SUBSET BrokerEvent
<1>1. Append(queue, e) \in Seq(BrokerEvent)
  BY AppendProperties DEF BrokerOK
<1> QED BY <1>1 DEF Emit, BrokerOK

\* One order of the broker replaced by another.
LEMMA OrdersTyped ==
    ASSUME BrokerOK, NEW oid \in DOMAIN orders, NEW o \in Order,
           orders' = [orders EXCEPT ![oid] = o]
    PROVE  DOMAIN orders' \in SUBSET Nat /\ \A x \in DOMAIN orders' : orders'[x] \in Order
  BY DEF BrokerOK

LEMMA PlacesTyped ==
    ASSUME StateOK, BrokerOK, NEW i \in Intents, NEW oid \in Nat, BrokerPlaces(i, oid)
    PROVE  BrokerOK'
<1> DEFINE o == [coid |-> st.tickets[i].coid, symbol |-> OrderOf[i].symbol,
                 side |-> OrderOf[i].side, qty |-> st.tickets[i].qty,
                 filled |-> 0, remaining |-> st.tickets[i].qty,
                 status |-> "Submitted", acked |-> FALSE]
<1>1. o \in Order
  <2>1. st.tickets[i].coid \in Int /\ st.tickets[i].qty \in Int
    BY StateParts, TicketParts DEF StateOK
  <2>2. OrderOf[i].symbol \in DOMAIN InitialPositions /\ OrderOf[i].side \in Sides
    BY IntentsAssumption
  <2> QED BY <2>1, <2>2 DEF Order
<1>2. orders' = [x \in DOMAIN orders \cup {oid} |-> IF x = oid THEN o ELSE orders[x]]
  BY DEF BrokerPlaces
<1> HIDE DEF o
<1>3. DOMAIN orders' \in SUBSET Nat /\ \A x \in DOMAIN orders' : orders'[x] \in Order
  BY <1>1, <1>2 DEF BrokerOK
<1>4. placed' \in [Intents -> Nat]
  BY DEF BrokerPlaces, BrokerOK
<1> QED BY <1>3, <1>4 DEF BrokerOK, BrokerPlaces

LEMMA CancelsTyped ==
    ASSUME BrokerOK, NEW oid \in Nat, BrokerCancels(oid)
    PROVE  BrokerOK'
<1>1. CASE oid \in DOMAIN orders /\ IsOpen(orders[oid])
  <2>1. [orders[oid] EXCEPT !.status = "Cancelled"] \in Order
    BY <1>1 DEF BrokerOK, Order, ClosedStatuses
  <2>2. orders' = [orders EXCEPT ![oid] = [orders[oid] EXCEPT !.status = "Cancelled"]]
    BY <1>1 DEF BrokerCancels
  <2>3. Event("CANCELLED", oid, 0, 0, 0) \in BrokerEvent
    BY <1>1, EventTyped
  <2>4. Emit(Event("CANCELLED", oid, 0, 0, 0)) /\ UNCHANGED <<positions, placed, execs>>
    BY <1>1 DEF BrokerCancels
  <2> QED BY <1>1, <2>1, <2>2, <2>3, <2>4, OrdersTyped, EmitTyped DEF BrokerOK
<1>2. CASE ~(oid \in DOMAIN orders /\ IsOpen(orders[oid]))
  BY <1>2, BrokerKept DEF BrokerCancels
<1> QED BY <1>1, <1>2

LEMMA ReplacesTyped ==
    ASSUME BrokerOK, NEW oid \in Nat, NEW qty \in Int, BrokerReplaces(oid, qty)
    PROVE  BrokerOK'
<1>1. CASE oid \in DOMAIN orders /\ IsOpen(orders[oid])
  <2> DEFINE left == IF qty > orders[oid].filled THEN qty - orders[oid].filled ELSE 0
             o == [orders[oid] EXCEPT !.qty = qty, !.remaining = left]
  <2>1. left \in Int
    BY <1>1, OrderParts DEF BrokerOK
  <2>2. orders' = [orders EXCEPT ![oid] = o]
    BY <1>1 DEF BrokerReplaces
  <2>3. o \in Order
    <3> HIDE DEF left
    <3> QED BY <1>1, <2>1 DEF BrokerOK, Order
  <2>4. Event("ACK", oid, 0, 0, 0) \in BrokerEvent
    BY <1>1, EventTyped
  <2>5. Emit(Event("ACK", oid, 0, 0, 0)) /\ UNCHANGED <<positions, placed, execs>>
    BY <1>1 DEF BrokerReplaces
  <2> HIDE DEF o, left
  <2> QED BY <1>1, <2>2, <2>3, <2>4, <2>5, OrdersTyped, EmitTyped DEF BrokerOK
<1>2. CASE ~(oid \in DOMAIN orders /\ IsOpen(orders[oid]))
  BY <1>2, BrokerKept DEF BrokerReplaces
<1> QED BY <1>1, <1>2

LEMMA BrokerStep ==
    ASSUME TInv, Broker
    PROVE  TInv'
<1>b. BrokerOK
  BY DEF TInv
<1>1. ASSUME NEW oid \in DOMAIN orders, BrokerAck(oid) PROVE BrokerOK'
  <2>1. [orders[oid] EXCEPT !.acked = TRUE] \in Order
    BY <1>b DEF BrokerOK, Order
  <2>2. orders' = [orders EXCEPT ![oid] = [orders[oid] EXCEPT !.acked = TRUE]]
    BY <1>1 DEF BrokerAck
  <2>3. Event("ACK", oid, 0, 0, 0) \in BrokerEvent
    BY <1>b, EventTyped
  <2> QED BY <1>b, <1>1, <2>1, <2>2, <2>3, OrdersTyped, EmitTyped DEF BrokerOK, BrokerAck
<1>2. ASSUME NEW oid \in DOMAIN orders, BrokerReject(oid) PROVE BrokerOK'
  <2>1. [orders[oid] EXCEPT !.status = "Rejected"] \in Order
    BY <1>b DEF BrokerOK, Order, ClosedStatuses
  <2>2. orders' = [orders EXCEPT ![oid] = [orders[oid] EXCEPT !.status = "Rejected"]]
    BY <1>2 DEF BrokerReject
  <2>3. Event("REJECT", oid, 0, 0, 0) \in BrokerEvent
    BY <1>b, EventTyped
  <2> QED BY <1>b, <1>2, <2>1, <2>2, <2>3, OrdersTyped, EmitTyped DEF BrokerOK, BrokerReject
<1>3. ASSUME NEW oid \in DOMAIN orders, NEW qty \in 1..orders[oid].remaining,
             BrokerFill(oid, qty)
      PROVE  BrokerOK'
  <2> DEFINE left == orders[oid].remaining - qty
             status == IF left <= 0 THEN "Filled" ELSE orders[oid].status
             filled == orders[oid].filled + qty
             o == [orders[oid] EXCEPT !.filled = filled, !.remaining = left,
                                      !.status = status]
             stamp == IF UniqueStamps THEN execs ELSE 0
  <2>o. orders[oid] \in Order
    BY <1>b DEF BrokerOK
  <2>1. qty \in Nat /\ left \in Int /\ filled \in Nat
    BY <2>o, OrderParts
  <2>2. status \in {"Submitted"} \cup ClosedStatuses
    BY <2>o, OrderParts DEF ClosedStatuses
  <2>3. orders' = [orders EXCEPT ![oid] = o]
    BY <1>3 DEF BrokerFill
  <2>4. stamp \in Nat
    BY <1>b DEF BrokerOK
  <2>5. Emit(Event("FILL", oid, qty, left, stamp)) /\ execs' = execs + 1 /\ UNCHANGED placed
    BY <1>3 DEF BrokerFill
  <2>6. positions' = [positions EXCEPT ![orders[oid].symbol] =
                        @ + Delta(orders[oid].side, qty)]
    BY <1>3 DEF BrokerFill
  <2> HIDE DEF left, status, filled, stamp
  <2>7. o \in Order
    BY <2>o, <2>1, <2>2 DEF Order
  <2>8. Event("FILL", oid, qty, left, stamp) \in BrokerEvent
    BY <1>b, <2>1, <2>4, EventTyped
  <2>9. positions' \in [DOMAIN InitialPositions -> Int]
    <3>1. Delta(orders[oid].side, qty) \in Int
      BY <2>1 DEF Delta
    <3>2. orders[oid].symbol \in DOMAIN InitialPositions
      BY <2>o, OrderParts
    <3> QED BY <1>b, <2>6, <3>1, <3>2 DEF BrokerOK
  <2> HIDE DEF o
  <2> QED BY <1>b, <2>3, <2>5, <2>7, <2>8, <2>9, OrdersTyped, EmitTyped DEF BrokerOK
<1>4. ASSUME NEW e \in emitted, Resend(e) PROVE BrokerOK' /\ EnvOK'
  <2>1. Append(queue, e) \in Seq(BrokerEvent)
    BY <1>b, AppendProperties DEF BrokerOK
  <2> QED BY <1>b, <1>4, <2>1 DEF BrokerOK, Resend, TInv, EnvOK
<1>5. UNCHANGED <<engine_vars, disk_vars>>
  BY DEF Broker, BrokerAck, BrokerReject, BrokerFill, Resend
<1>6. BrokerOK' /\ EnvOK'
  <2>1. CASE \E oid \in DOMAIN orders : BrokerAck(oid) \/ BrokerReject(oid)
                \/ \E qty \in 1..orders[oid].remaining : BrokerFill(oid, qty)
    <3>1. UNCHANGED env_vars
      BY <2>1 DEF BrokerAck, BrokerReject, BrokerFill
    <3> QED BY <1>1, <1>2, <1>3, <2>1, <3>1, EnvKept DEF TInv
  <2>2. CASE \E e \in emitted : Resend(e)
    BY <1>4, <2>2
  <2> QED BY <2>1, <2>2 DEF Broker
<1> QED BY <1>5, <1>6, StateKept, MemoryKept, DiskKept DEF TInv, engine_vars

-----------------------------------------------------------------------------
(* Start-up and persistence.                                                *)

\* The order the handshake chooses: a set of order ids has a least one.
LEMMA LeastOrder ==
    ASSUME NEW S \in SUBSET Nat, S # {}
    PROVE  /\ (CHOOSE x \in S : \A y \in S : x <= y) \in S
           /\ \A y \in S : (CHOOSE x \in S : \A z \in S : x <= z) <= y
<1> DEFINE R == {ss \in Nat \X Nat : ss[1] < ss[2]}
<1>1. IsWellFoundedOn(R, Nat)
  BY NatLessThanWellFounded DEF OpToRel
<1> HIDE DEF R
<1>2. PICK x \in S : \A y \in S : <<y, x>> \notin R
  BY <1>1, WFMin
<1>3. ASSUME NEW y \in S PROVE x <= y
  <2>1. x \in Nat /\ y \in Nat
    OBVIOUS
  <2>2. y < x => <<y, x>> \in R
    BY <2>1 DEF R
  <2> QED BY <1>2, <2>1, <2>2
<1> QED BY <1>3

LEMMA HandshakeTyped ==
    ASSUME BrokerOK, NEW s \in EngineState
    PROVE  /\ Handshake(s) \in EngineState
           /\ Handshake(s).fill_dedup_keys = s.fill_dedup_keys
<1> DEFINE T(i) ==
            LET t == s.tickets[i] IN
            IF IsLive(t) /\ t.oid = NoOid /\ OrdersOf(t) # {}
            THEN [t EXCEPT !.oid = CHOOSE oid \in OrdersOf(t) :
                                      \A other \in OrdersOf(t) : oid <= other,
                           !.state = "SENT"]
            ELSE t
<1>1. ASSUME NEW i \in Intents PROVE T(i) \in Ticket
  <2> DEFINE t == s.tickets[i]
  <2>1. t \in Ticket
    BY StateParts
  <2>2. OrdersOf(t) \in SUBSET Nat
    BY DEF OrdersOf, BrokerOK
  <2>3. "SENT" \in TicketStates
    BY DEF TicketStates
  <2> HIDE DEF t
  <2>4. CASE OrdersOf(t) # {}
    <3>1. (CHOOSE oid \in OrdersOf(t) : \A other \in OrdersOf(t) : oid <= other) \in Nat
      BY <2>2, <2>4, LeastOrder
    <3> QED BY <2>1, <2>3, <3>1, TicketSet DEF t
  <2> QED BY <2>1, <2>4 DEF t
<1>2. [i \in Intents |-> T(i)] \in [Intents -> Ticket]
  BY <1>1
<1> QED BY <1>2, StateSet DEF Handshake

LEMMA LoadedTyped ==
    ASSUME DiskOK
    PROVE  LoadedState \in EngineState /\ Len(LoadedState.fill_dedup_keys) <= MaxKeys
  BY DEF DiskOK, LoadedState

LEMMA StartStep == ASSUME TInv, Start PROVE TInv'
<1>1. PICK expired \in BOOLEAN :
          st' = [Handshake(LoadedState) EXCEPT !.cooldown = @ /\ ~expired]
  BY DEF Start
<1>2. Handshake(LoadedState) \in EngineState
      /\ Handshake(LoadedState).fill_dedup_keys = LoadedState.fill_dedup_keys
  BY LoadedTyped, HandshakeTyped DEF TInv
<1>3. (Handshake(LoadedState).cooldown /\ ~expired) \in BOOLEAN
  OBVIOUS
<1>4. StateOK'
  BY <1>1, <1>2, <1>3, LoadedTyped, StateSet DEF StateOK, TInv
<1>5. MemoryOK'
  BY DEF Start, TInv, MemoryOK
<1>6. UNCHANGED disk_vars /\ UNCHANGED broker_vars /\ UNCHANGED env_vars
  BY DEF Start
<1> QED BY <1>4, <1>5, <1>6, DiskKept, BrokerKept, EnvKept DEF TInv

LEMMA PersistStep == ASSUME TInv, PersistState PROVE TInv'
<1>1. StateOK' /\ DiskOK'
  BY DEF PersistState, TInv, StateOK, DiskOK
<1>2. MemoryOK'
  BY DEF PersistState, TInv, MemoryOK
<1>3. UNCHANGED broker_vars /\ UNCHANGED env_vars
  BY DEF PersistState
<1> QED BY <1>1, <1>2, <1>3, BrokerKept, EnvKept DEF TInv

LEMMA CrashStep ==
    ASSUME TInv, Crash \/ CrashInPersist \/ LoseStateFile
    PROVE  TInv'
<1>f. FreshState \in EngineState /\ Len(FreshState.fill_dedup_keys) <= MaxKeys
  BY FreshIsState, BoundsAssumption
<1>1. ASSUME MemoryLost PROVE StateOK' /\ MemoryOK' /\ BrokerOK' /\ EnvOK'
  <2>1. StateOK'
    BY <1>1, <1>f DEF MemoryLost, StateOK
  <2>2. MemoryOK'
    BY <1>1, PositionsAssumption, EmptySeq DEF MemoryLost, MemoryOK
  <2>3. EnvOK'
    BY <1>1 DEF MemoryLost, EnvOK, TInv
  <2> QED BY <1>1, <2>1, <2>2, <2>3, BrokerKept DEF MemoryLost, TInv
<1>2. CASE Crash
  BY <1>1, <1>2, DiskKept DEF Crash, TInv
<1>3. CASE CrashInPersist
  <2>1. DiskOK'
    BY <1>3 DEF CrashInPersist, TInv, DiskOK, StateOK
  <2> QED BY <1>1, <1>3, <2>1 DEF CrashInPersist, TInv
<1>4. CASE LoseStateFile
  <2>1. DiskOK'
    BY <1>4, <1>f DEF LoseStateFile, TInv, DiskOK
  <2>2. UNCHANGED engine_vars /\ UNCHANGED broker_vars /\ UNCHANGED env_vars
    BY <1>4 DEF LoseStateFile
  <2> QED BY <2>1, <2>2, StateKept, MemoryKept, BrokerKept, EnvKept DEF TInv, engine_vars
<1> QED BY <1>2, <1>3, <1>4

-----------------------------------------------------------------------------
(* The runner's calls, and what a step does before it drains.               *)

\* A call that leaves engine state s behind.
LEMMA CallTyped ==
    ASSUME TInv, NEW s \in EngineState, s.fill_dedup_keys = st.fill_dedup_keys, CallUpdates(s)
    PROVE  TInv'
<1>1. StateOK' /\ MemoryOK'
  BY DEF CallUpdates, TInv, StateOK, MemoryOK
<1>2. UNCHANGED disk_vars /\ UNCHANGED broker_vars /\ UNCHANGED env_vars
  BY DEF CallUpdates
<1> QED BY <1>1, <1>2, DiskKept, BrokerKept, EnvKept DEF TInv

LEMMA CallsStep ==
    ASSUME TInv, RunnerCalls
    PROVE  TInv'
<1>s. st \in EngineState
  BY DEF TInv, StateOK
<1>q. \A i \in Intents : OrderOf[i].qty \in Int
  BY IntentsAssumption
<1>n. "PENDING_PLACE" \in TicketStates /\ "SENT" \in TicketStates
  BY DEF TicketStates
<1>1. ASSUME NEW i \in Intents, submit_intent(i) PROVE TInv'
  <2> DEFINE t == NewTicket(i, NoOid, OrderOf[i].qty, "PENDING_PLACE")
  <2>1. i \in Int
    BY IntentsAssumption
  <2>2. t \in Ticket
    BY <1>n, <1>q, <2>1, NewIsTicket DEF NoOid
  <2>3. CallUpdates(WithTicket(st, i, t))
    BY <1>1 DEF submit_intent
  <2> HIDE DEF t
  <2> QED BY <1>s, <2>2, <2>3, TicketReplaced, CallTyped
<1>2. ASSUME NEW i \in Intents, adopt_order(i) PROVE TInv'
  <2> DEFINE t == NewTicket(OidCoid(AdoptedAs[i]), AdoptedAs[i], OrderOf[i].qty, "SENT")
  <2>1. AdoptedAs[i] \in Nat /\ OidCoid(AdoptedAs[i]) \in Int
    BY <1>2, AdoptionAssumption DEF adopt_order, OidCoid
  <2>2. t \in Ticket
    BY <1>n, <1>q, <2>1, NewIsTicket
  <2>3. CallUpdates(WithTicket(st, i, t))
    BY <1>2 DEF adopt_order
  <2> HIDE DEF t
  <2> QED BY <1>s, <2>2, <2>3, TicketReplaced, CallTyped
<1>3. ASSUME NEW i \in Intents, request_cancel(i) PROVE TInv'
  <2> DEFINE t == [st.tickets[i] EXCEPT !.want_cancel = TRUE]
  <2>1. t \in Ticket
    BY <1>s, StateParts, TicketSet
  <2>2. CallUpdates(WithTicket(st, i, t))
    BY <1>3 DEF request_cancel, WithTicket
  <2> HIDE DEF t
  <2> QED BY <1>s, <2>1, <2>2, TicketReplaced, CallTyped
<1>4. ASSUME NEW i \in Intents, NEW q \in ReplaceQtys, request_replace_qty(i, q) PROVE TInv'
  <2> DEFINE t == [st.tickets[i] EXCEPT !.want_replace = q]
  <2>1. t \in Ticket
    BY <1>s, StateParts, TicketSet, IntentsAssumption
  <2>2. CallUpdates(WithTicket(st, i, t))
    BY <1>4 DEF request_replace_qty, WithTicket
  <2> HIDE DEF t
  <2> QED BY <1>s, <2>1, <2>2, TicketReplaced, CallTyped
<1> QED BY <1>1, <1>2, <1>3, <1>4 DEF RunnerCalls

LEMMA BeginStepStep == ASSUME TInv, BeginStep PROVE TInv'
<1>1. MemoryOK'
  BY DEF BeginStep, TInv, MemoryOK, EnvOK
<1>2. UNCHANGED st /\ UNCHANGED disk_vars /\ UNCHANGED broker_vars /\ UNCHANGED env_vars
  BY DEF BeginStep
<1> QED BY <1>1, <1>2, StateKept, DiskKept, BrokerKept, EnvKept DEF TInv

LEMMA PollStep == ASSUME TInv, PollEvents PROVE TInv'
<1>1. MemoryOK' /\ BrokerOK'
  BY EmptySeq DEF PollEvents, TInv, MemoryOK, BrokerOK
<1>2. UNCHANGED st /\ UNCHANGED disk_vars /\ UNCHANGED env_vars
  BY DEF PollEvents
<1> QED BY <1>1, <1>2, StateKept, DiskKept, EnvKept DEF TInv

-----------------------------------------------------------------------------
(* A step that raises leaves engine state s behind.                         *)

LEMMA RaisesTyped ==
    ASSUME TInv, NEW s \in EngineState, Len(s.fill_dedup_keys) <= MaxKeys,
           StepRaises(s), BrokerOK'
    PROVE  TInv'
<1>1. StateOK'
  BY StateSet DEF StepRaises, StateOK
<1>2. MemoryOK'
  BY PositionsAssumption, EmptySeq DEF StepRaises, TInv, MemoryOK
<1>3. EnvOK'
  BY DEF StepRaises, TInv, EnvOK
<1>4. UNCHANGED disk_vars
  BY DEF StepRaises
<1> QED BY <1>1, <1>2, <1>3, <1>4, DiskKept DEF TInv

LEMMA SnapshotRaisesStep == ASSUME TInv, SnapshotOrPollRaises PROVE TInv'
<1>1. BrokerOK'
  BY BrokerKept DEF SnapshotOrPollRaises, TInv
<1> QED BY <1>1, RaisesTyped DEF SnapshotOrPollRaises, TInv, StateOK

-----------------------------------------------------------------------------
(* _apply_event                                                             *)

LEMMA EventParts ==
    ASSUME NEW e \in BrokerEvent
    PROVE  /\ e.type \in {"ACK", "REJECT", "CANCELLED", "FILL"} /\ e.oid \in Nat
           /\ e.coid \in Int /\ e.qty \in Nat /\ e.remaining \in Int /\ e.stamp \in Nat
           /\ Key(e) \in FillKey
  BY DEF BrokerEvent, Key, FillKey

LEMMA BatchParts ==
    ASSUME TInv, batch # <<>>
    PROVE  Head(batch) \in BrokerEvent /\ Tail(batch) \in Seq(BrokerEvent)
  BY HeadTailProperties DEF TInv, MemoryOK

\* The key list is cut at MaxKeys when a fill is remembered.
LEMMA RememberedTyped ==
    ASSUME StateOK, NEW e \in BrokerEvent
    PROVE  /\ Remembered(e) \in EngineState
           /\ Len(Remembered(e).fill_dedup_keys) <= MaxKeys
           /\ Remembered(e).tickets = st.tickets
           /\ Remembered(e).cooldown = st.cooldown
           /\ Remembered(e).next_order_id = st.next_order_id
<1>1. CASE e.type # "FILL"
  BY <1>1 DEF Remembered, StateOK
<1>2. CASE e.type = "FILL"
  <2> DEFINE added == Append(st.fill_dedup_keys, Key(e))
             kept == IF Len(added) > MaxKeys
                     THEN SubSeq(added, Len(added) - MaxKeys + 1, Len(added))
                     ELSE added
  <2>1. added \in Seq(FillKey)
    BY AppendProperties, EventParts, StateParts DEF StateOK
  <2>2. MaxKeys \in Nat /\ Len(added) \in Nat
    BY <2>1, BoundsAssumption
  <2> HIDE DEF added
  <2>3. kept \in Seq(FillKey) /\ Len(kept) <= MaxKeys
    <3>1. CASE Len(added) > MaxKeys
      <4> DEFINE m == Len(added) - MaxKeys + 1
      <4>1. m \in 1..Len(added) + 1 /\ m \in Int /\ Len(added) - m + 1 = MaxKeys
        BY <2>2, <3>1
      <4>2. \A k \in m..Len(added) : added[k] \in FillKey
        BY <2>1, <4>1
      <4>3. SubSeq(added, m, Len(added)) \in Seq(FillKey)
            /\ Len(SubSeq(added, m, Len(added))) <= MaxKeys
        BY <2>2, <4>1, <4>2, SubSeqProperties
      <4> QED BY <3>1, <4>3
    <3> QED BY <2>1, <2>2, <3>1
  <2>4. Remembered(e) = [st EXCEPT !.fill_dedup_keys = kept]
    BY <1>2 DEF Remembered, added
  <2> HIDE DEF kept
  <2>5. st \in EngineState
    BY DEF StateOK
  <2>6. Remembered(e) \in EngineState
    BY <2>3, <2>4, <2>5, StateSet
  <2> QED BY <2>3, <2>4, <2>5, <2>6 DEF EngineState
<1> QED BY <1>1, <1>2

LEMMA CountedTyped ==
    ASSUME StateOK, NEW i \in Intents, NEW e \in BrokerEvent
    PROVE  Counted(i, e) \in Ticket
<1>1. st.tickets[i] \in Ticket
  BY StateParts DEF StateOK
<1>2. st.tickets[i].filled + e.qty \in Int /\ e.remaining \in Int
  BY <1>1, TicketParts, EventParts
<1> QED BY <1>1, <1>2, TicketSet DEF Counted

LEMMA AppliedTyped ==
    ASSUME StateOK, NEW i \in Intents, NEW e \in BrokerEvent
    PROVE  Applied(i, e) \in Ticket
<1> DEFINE t == st.tickets[i]
<1>1. t \in Ticket
  BY StateParts DEF StateOK
<1>2. "ACKED" \in TicketStates /\ "PARTIAL" \in TicketStates
      /\ {"DONE", "FILLED", "FAILED", "CANCELLED"} \subseteq TerminalStates
  BY DEF TicketStates, TerminalStates
<1>3. Counted(i, e) \in Ticket
  BY CountedTyped
<1>4. [t EXCEPT !.state = "ACKED"] \in Ticket /\ Terminate(t, "FAILED") \in Ticket
      /\ Terminate(t, "CANCELLED") \in Ticket
  BY <1>1, <1>2, TicketSet
<1>5. [Counted(i, e) EXCEPT !.state = "PARTIAL"] \in Ticket
      /\ Terminate(Counted(i, e), "DONE") \in Ticket
      /\ Terminate(Counted(i, e), "FILLED") \in Ticket
  BY <1>2, <1>3, TicketSet
<1>6. e.type \in {"ACK", "REJECT", "CANCELLED", "FILL"} /\ e.remaining \in Int
  BY EventParts
<1>7. CASE IsTerminal(t)
  BY <1>1, <1>7 DEF Applied
<1>8. CASE ~IsTerminal(t) /\ e.type = "ACK"
  BY <1>1, <1>4, <1>8 DEF Applied
<1>9. CASE ~IsTerminal(t) /\ e.type \in {"REJECT", "CANCELLED"}
  BY <1>4, <1>9 DEF Applied
<1>10. CASE ~IsTerminal(t) /\ e.type = "FILL" /\ e.remaining > 0
  BY <1>5, <1>10 DEF Applied
<1>11. CASE ~IsTerminal(t) /\ e.type = "FILL" /\ e.remaining <= 0
  BY <1>5, <1>6, <1>11 DEF Applied
<1> QED BY <1>6, <1>7, <1>8, <1>9, <1>10, <1>11

LEMMA EventsStep ==
    ASSUME TInv, DropSeenFill \/ OrphanEvent \/ \E i \in Intents : ApplyEvent(i)
    PROVE  TInv'
<1>1. Head(batch) \in BrokerEvent /\ Tail(batch) \in Seq(BrokerEvent)
  BY BatchParts DEF DropSeenFill, OrphanEvent, ApplyEvent
<1>2. MemoryOK'
  BY <1>1 DEF DropSeenFill, OrphanEvent, ApplyEvent, TInv, MemoryOK
<1>3. UNCHANGED disk_vars /\ UNCHANGED broker_vars /\ UNCHANGED env_vars
  BY DEF DropSeenFill, OrphanEvent, ApplyEvent
<1>s. StateOK
  BY DEF TInv
<1>4. StateOK'
  <2>1. CASE DropSeenFill
    BY <1>s, <2>1, StateKept DEF DropSeenFill
  <2>2. CASE OrphanEvent
    BY <1>1, <1>s, <2>2, RememberedTyped DEF OrphanEvent, StateOK
  <2>3. ASSUME NEW i \in Intents, ApplyEvent(i) PROVE StateOK'
    <3> DEFINE e == Head(batch)
               s == WithTicket(Remembered(e), i, Applied(i, e))
               cooled == s.cooldown \/ (e.type = "REJECT" /\ ~IsTerminal(st.tickets[i]))
    <3>1. st' = [s EXCEPT !.cooldown = cooled]
      BY <2>3 DEF ApplyEvent
    <3>2. s \in EngineState /\ Len(s.fill_dedup_keys) <= MaxKeys
      <4>1. Remembered(e) \in EngineState /\ Len(Remembered(e).fill_dedup_keys) <= MaxKeys
        BY <1>1, <1>s, RememberedTyped
      <4>2. Applied(i, e) \in Ticket
        BY <1>1, <1>s, AppliedTyped
      <4> QED BY <4>1, <4>2, TicketReplaced
    <3>3. cooled \in BOOLEAN
      <4> HIDE DEF s
      <4> QED BY <3>2, StateParts
    <3> HIDE DEF s, cooled
    <3> QED BY <3>1, <3>2, <3>3, StateSet DEF StateOK
  <2> QED BY <2>1, <2>2, <2>3
<1> QED BY <1>2, <1>3, <1>4, DiskKept, BrokerKept, EnvKept DEF TInv

LEMMA LastFillRaisesStep ==
    ASSUME TInv, NEW i \in Intents, LastFillRaises(i)
    PROVE  TInv'
<1> DEFINE e == Head(batch)
           s == WithTicket(Remembered(e), i, Counted(i, e))
<1>1. e \in BrokerEvent /\ StateOK
  BY BatchParts DEF LastFillRaises, TInv
<1>2. s \in EngineState /\ Len(s.fill_dedup_keys) <= MaxKeys
  <2>1. Remembered(e) \in EngineState /\ Len(Remembered(e).fill_dedup_keys) <= MaxKeys
    BY <1>1, RememberedTyped
  <2>2. Counted(i, e) \in Ticket
    BY <1>1, CountedTyped
  <2> QED BY <2>1, <2>2, TicketReplaced
<1>3. StepRaises(s) /\ UNCHANGED broker_vars
  BY DEF LastFillRaises
<1> HIDE DEF s
<1> QED BY <1>2, <1>3, BrokerKept, RaisesTyped DEF TInv

-----------------------------------------------------------------------------
(* _apply_requests and _drain_actions                                       *)

LEMMA RequestsStep == ASSUME TInv, ApplyRequests PROVE TInv'
<1>1. ASSUME NEW i \in Intents PROVE Requested(st.tickets[i]) \in Ticket
  <2>1. st.tickets[i] \in Ticket
    BY StateParts DEF TInv, StateOK
  <2>2. "REPLACE_REQUESTED" \in TicketStates /\ "CANCEL_REQUESTED" \in TicketStates
    BY DEF TicketStates
  <2> QED BY <2>1, <2>2, TicketSet DEF Requested
<1>2. [i \in Intents |-> Requested(st.tickets[i])] \in [Intents -> Ticket]
  BY <1>1
<1>3. StateOK'
  BY <1>2, StateSet DEF ApplyRequests, TInv, StateOK
<1>4. MemoryOK'
  BY DEF ApplyRequests, TInv, MemoryOK, BrokerOK
<1>5. UNCHANGED disk_vars /\ UNCHANGED broker_vars /\ UNCHANGED env_vars
  BY DEF ApplyRequests
<1> QED BY <1>3, <1>4, <1>5, DiskKept, BrokerKept, EnvKept DEF TInv

\* The loop goes on with engine state s.
LEMMA NextTicketTyped ==
    ASSUME TInv, NEW i \in Intents, NEW s \in EngineState,
           s.fill_dedup_keys = st.fill_dedup_keys, NextTicket(i, s), BrokerOK'
    PROVE  TInv'
<1>1. StateOK'
  BY DEF NextTicket, TInv, StateOK
<1>2. MemoryOK'
  BY DEF NextTicket, TInv, MemoryOK
<1>3. UNCHANGED disk_vars /\ UNCHANGED env_vars
  BY DEF NextTicket
<1> QED BY <1>1, <1>2, <1>3, DiskKept, EnvKept DEF TInv

\* The state in which an order id was drawn.
LEMMA OrderIdTyped ==
    ASSUME StateOK, NEW i \in Intents
    PROVE  /\ WithOrderId(i) \in EngineState
           /\ WithOrderId(i).fill_dedup_keys = st.fill_dedup_keys
<1> DEFINE t == [st.tickets[i] EXCEPT !.oid = st.next_order_id]
           s == [st EXCEPT !.next_order_id = st.next_order_id + 1]
<1>1. st \in EngineState /\ st.tickets[i] \in Ticket /\ st.next_order_id \in Nat
  BY StateParts DEF StateOK
<1>2. t \in Ticket
  BY <1>1, TicketSet
<1>3. s \in EngineState /\ s.fill_dedup_keys = st.fill_dedup_keys
  BY <1>1 DEF EngineState
<1>4. WithOrderId(i) = WithTicket(s, i, t)
  BY DEF WithOrderId
<1> HIDE DEF t, s
<1>5. WithTicket(s, i, t) \in EngineState
      /\ WithTicket(s, i, t).fill_dedup_keys = s.fill_dedup_keys
  BY <1>2, <1>3, TicketReplaced
<1> QED BY <1>3, <1>4, <1>5

LEMMA SentTyped ==
    ASSUME NEW s \in EngineState, NEW i \in Intents
    PROVE  /\ WithSent(s, i) \in EngineState
           /\ WithSent(s, i).fill_dedup_keys = s.fill_dedup_keys
<1> DEFINE t == [s.tickets[i] EXCEPT !.state = "SENT"]
<1>1. "SENT" \in TicketStates
  BY DEF TicketStates
<1>2. t \in Ticket
  BY <1>1, StateParts, TicketSet
<1>3. WithSent(s, i) = WithTicket(s, i, t)
  BY DEF WithSent
<1> HIDE DEF t
<1>4. WithTicket(s, i, t) \in EngineState
      /\ WithTicket(s, i, t).fill_dedup_keys = s.fill_dedup_keys
  BY <1>2, TicketReplaced
<1> QED BY <1>3, <1>4

LEMMA FailedTyped ==
    ASSUME StateOK, NEW i \in Intents
    PROVE  /\ WithTicket(st, i, Terminate(st.tickets[i], "FAILED")) \in EngineState
           /\ WithTicket(st, i, Terminate(st.tickets[i], "FAILED")).fill_dedup_keys =
                st.fill_dedup_keys
<1>1. Terminate(st.tickets[i], "FAILED") \in Ticket
  BY StateParts, TicketSet DEF StateOK, TerminalStates
<1> QED BY <1>1, TicketReplaced DEF StateOK

LEMMA DrainStep ==
    ASSUME TInv, NEW i \in Intents,
           \/ DrainNothing(i) \/ ForbidPlace(i) \/ SkipPlaced(i) \/ Place(i)
           \/ Cancel(i) \/ LookBeforeReplace(i) \/ ForbidReplace(i) \/ Replace(i)
    PROVE  TInv'
<1>s. StateOK /\ BrokerOK /\ st \in EngineState
  BY DEF TInv, StateOK
<1>t. st.tickets[i] \in Ticket /\ st.tickets[i].oid \in Nat
      /\ st.tickets[i].want_replace \in Int /\ st.next_order_id \in Nat
  BY <1>s, StateParts, TicketParts
<1>1. CASE DrainNothing(i)
  BY <1>s, <1>1, BrokerKept, NextTicketTyped DEF DrainNothing
<1>2. CASE ForbidPlace(i)
  BY <1>s, <1>2, BrokerKept, FailedTyped, NextTicketTyped DEF ForbidPlace
<1>3. CASE SkipPlaced(i)
  BY <1>s, <1>3, BrokerKept, SentTyped, NextTicketTyped DEF SkipPlaced
<1>4. CASE Place(i)
  <2>1. BrokerOK'
    BY <1>s, <1>t, <1>4, PlacesTyped DEF Place
  <2> QED BY <1>s, <1>4, <2>1, OrderIdTyped, SentTyped, NextTicketTyped DEF Place
<1>5. CASE Cancel(i)
  BY <1>s, <1>t, <1>5, CancelsTyped, NextTicketTyped DEF Cancel
<1>6. CASE LookBeforeReplace(i)
  <2>1. MemoryOK'
    BY <1>s, <1>6 DEF LookBeforeReplace, TInv, MemoryOK, BrokerOK
  <2> QED BY <1>6, <2>1, StateKept, DiskKept, BrokerKept, EnvKept
          DEF LookBeforeReplace, TInv
<1>7. CASE ForbidReplace(i)
  BY <1>s, <1>7, BrokerKept, FailedTyped, NextTicketTyped DEF ForbidReplace
<1>8. CASE Replace(i)
  <2> DEFINE t == [st.tickets[i] EXCEPT !.qty = st.tickets[i].want_replace]
  <2>1. t \in Ticket
    BY <1>t, TicketSet
  <2>2. NextTicket(i, WithTicket(st, i, t))
    BY <1>8 DEF Replace, WithTicket
  <2>3. BrokerOK'
    BY <1>s, <1>t, <1>8, ReplacesTyped DEF Replace
  <2> HIDE DEF t
  <2> QED BY <1>s, <2>1, <2>2, <2>3, TicketReplaced, NextTicketTyped
<1> QED BY <1>1, <1>2, <1>3, <1>4, <1>5, <1>6, <1>7, <1>8

LEMMA DrainRaisesStep ==
    ASSUME TInv, NEW i \in Intents, PlaceRaises(i) \/ CancelRaises(i) \/ ReplaceRaises(i)
    PROVE  TInv'
<1>s. StateOK /\ BrokerOK /\ st \in EngineState
  BY DEF TInv, StateOK
<1>t. st.tickets[i].oid \in Nat /\ st.tickets[i].want_replace \in Int
      /\ st.next_order_id \in Nat
  BY <1>s, StateParts, TicketParts
<1>1. CASE PlaceRaises(i)
  <2>1. BrokerOK'
    BY <1>s, <1>t, <1>1, BrokerKept, PlacesTyped DEF PlaceRaises
  <2> QED BY <1>s, <1>1, <2>1, OrderIdTyped, RaisesTyped DEF PlaceRaises, StateOK
<1>2. CASE CancelRaises(i)
  <2>1. BrokerOK'
    BY <1>s, <1>t, <1>2, BrokerKept, CancelsTyped DEF CancelRaises
  <2> QED BY <1>s, <1>2, <2>1, RaisesTyped DEF CancelRaises, StateOK
<1>3. CASE ReplaceRaises(i)
  <2>1. BrokerOK'
    BY <1>s, <1>t, <1>3, BrokerKept, ReplacesTyped DEF ReplaceRaises
  <2> QED BY <1>s, <1>3, <2>1, RaisesTyped DEF ReplaceRaises, StateOK
<1> QED BY <1>1, <1>2, <1>3

LEMMA EndOfStepStep ==
    ASSUME TInv, EndDrain \/ Reconcile \/ CooldownExpires \/ MoveFlag
    PROVE  TInv'
<1>1. CASE EndDrain
  <2>1. MemoryOK'
    BY <1>1, PositionsAssumption DEF EndDrain, TInv, MemoryOK
  <2> QED BY <1>1, <2>1, StateKept, DiskKept, BrokerKept, EnvKept DEF EndDrain, TInv
<1>2. CASE Reconcile
  <2> DEFINE ratio == IF FullyReconciled THEN "full" ELSE "partial"
  <2>1. ratio \in {"none", "full", "partial"} /\ st' = [st EXCEPT !.ratio = ratio]
    BY <1>2 DEF Reconcile
  <2> HIDE DEF ratio
  <2>2. StateOK'
    BY <2>1, StateSet DEF TInv, StateOK
  <2>3. MemoryOK'
    BY <1>2 DEF Reconcile, TInv, MemoryOK
  <2> QED BY <1>2, <2>2, <2>3, DiskKept, BrokerKept, EnvKept DEF Reconcile, TInv
<1>3. CASE CooldownExpires
  <2>1. StateOK'
    BY <1>3, StateSet DEF CooldownExpires, TInv, StateOK
  <2> QED BY <1>3, <2>1, MemoryKept, DiskKept, BrokerKept, EnvKept DEF CooldownExpires, TInv
<1>4. CASE MoveFlag
  <2>1. EnvOK'
    BY <1>4 DEF MoveFlag, TInv, EnvOK
  <2> QED BY <1>4, <2>1, StateKept, MemoryKept, DiskKept, BrokerKept
          DEF MoveFlag, TInv, engine_vars
<1> QED BY <1>1, <1>2, <1>3, <1>4

-----------------------------------------------------------------------------

LEMMA TypeInit == Init => TInv
<1> SUFFICES ASSUME Init PROVE TInv
  OBVIOUS
<1>f. FreshState \in EngineState /\ Len(FreshState.fill_dedup_keys) <= MaxKeys
  BY FreshIsState, BoundsAssumption
<1>1. StateOK /\ DiskOK
  BY <1>f DEF Init, StateOK, DiskOK
<1>2. MemoryOK
  BY PositionsAssumption, EmptySeq DEF Init, MemoryOK
<1>3. BrokerOK
  BY PositionsAssumption, InitialOrdersAssumption, EmptySeq DEF Init, BrokerOK
<1>4. EnvOK
  BY DEF Init, EnvOK
<1> QED BY <1>1, <1>2, <1>3, <1>4 DEF TInv

LEMMA TypeStep == TInv /\ [Next]_vars => TInv'
<1> SUFFICES ASSUME TInv, [Next]_vars PROVE TInv'
  OBVIOUS
<1>1. CASE Start
  BY <1>1, StartStep
<1>2. CASE RunnerCalls
  BY <1>2, CallsStep
<1>3. CASE BeginStep
  BY <1>3, BeginStepStep
<1>4. CASE StepWork
  BY <1>4, PollStep, EventsStep, RequestsStep, DrainStep, EndOfStepStep, PersistStep
  DEF StepWork
<1>5. CASE Raises
  BY <1>5, SnapshotRaisesStep, LastFillRaisesStep, DrainRaisesStep DEF Raises
<1>6. CASE Crash \/ CrashInPersist \/ LoseStateFile
  BY <1>6, CrashStep
<1>7. CASE Broker
  BY <1>7, BrokerStep
<1>8. CASE CooldownExpires \/ MoveFlag
  BY <1>8, EndOfStepStep
<1>9. CASE UNCHANGED vars
  BY <1>9, StateKept, MemoryKept, DiskKept, BrokerKept, EnvKept DEF vars, engine_vars, TInv
<1> QED BY <1>1, <1>2, <1>3, <1>4, <1>5, <1>6, <1>7, <1>8, <1>9 DEF Next

LEMMA TypesInvariant == Spec => []TInv
  BY TypeInit, TypeStep, PTL DEF Spec

\* The engine's memory, its files, the broker and the environment keep their
\* types, and the key list its maximum (Engine.step, _persist_state, FakeBroker),
\* whatever the intents, orders and bounds.
THEOREM TypeCorrect == Spec => []TypeOK
<1>1. TInv => TypeOK
  BY DEF TInv, StateOK, MemoryOK, DiskOK, BrokerOK, EnvOK, TypeOK
<1> QED BY <1>1, TypesInvariant, PTL

=============================================================================
