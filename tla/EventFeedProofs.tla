-------------------------- MODULE EventFeedProofs --------------------------
(***************************************************************************)
(* The way of broker events to the ticket (EventFeed.tla), for every       *)
(* quantity of the order and every number of sessions and runs.            *)
(*                                                                         *)
(* Types.  Among others, the quantities that the adapter patches into a    *)
(* record, and the locals of a poll (FeedInv).                             *)
(*                                                                         *)
(* Counting.  The gateway tells of the details of an execution once, in    *)
(* a line or on their way to one (ToldOnce).  What the runner reads is a     *)
(* part of the file (ReadFrom), and the keys it remembers are of lines it  *)
(* has read (KeysRead); so the ticket has counted a set of executions, each*)
(* once, and what it has not counted adds up to the rest (Tally).  A run   *)
(* that starts from nothing has the same (second Tally).                   *)
(*                                                                         *)
(* Ends.  A status says filled, or nothing remaining, only of a filled     *)
(* order (StatusTrue), and every execution in the file comes after a       *)
(* status (StatusFirst).  A runner that reads from the start and remembers *)
(* no remaining quantity has met no status yet (Silent), so it has no      *)
(* execution to apply for which it would take the quantity to be zero.     *)
(***************************************************************************)
EXTENDS EventFeed, SequenceTheorems, WellFoundedInduction, NaturalsInduction, TLAPS

-----------------------------------------------------------------------------
(* Records and sequences of records.                                         *)

\* Every record the tap can be told of is a record.
LEMMA RecordsTyped ==
    /\ OpenOrderRecord \in Record /\ ErrorRecord \in Record
    /\ \A status \in Statuses, remaining \in 0..Qty : StatusRecord(status, remaining) \in Record
    /\ \A k \in Nat, shares \in 0..Qty : ExecRecord(k, shares) \in Record
<1>1. NoRecord \in Record /\ 0 \in 0..Qty
  BY QtyAssumption DEF Record, NoRecord, Statuses
<1>2. OpenOrderRecord \in Record /\ ErrorRecord \in Record
  BY <1>1 DEF Record, OpenOrderRecord, ErrorRecord
<1>3. ASSUME NEW status \in Statuses, NEW remaining \in 0..Qty
      PROVE  StatusRecord(status, remaining) \in Record
  BY <1>1 DEF Record, StatusRecord
<1>4. ASSUME NEW k \in Nat, NEW shares \in 0..Qty PROVE ExecRecord(k, shares) \in Record
  BY <1>1 DEF Record, ExecRecord
<1> QED BY <1>2, <1>3, <1>4

\* A record has its fields.
LEMMA RecordParts ==
    ASSUME NEW rec \in Record
    PROVE  /\ rec.type \in {"ORDER_STATUS", "OPEN_ORDER", "EXEC_DETAILS", "ERROR"}
           /\ rec.status \in Statuses \cup {"None"}
           /\ rec.remaining \in 0..Qty /\ rec.exec \in Nat
           /\ rec.shares \in 0..Qty /\ rec.stamp \in Nat
BY DEF Record

\* The tap stamps a record and leaves the rest of it alone.
LEMMA Stamped ==
    ASSUME NEW rec \in Record, NEW n \in Nat, NEW r, r = [rec EXCEPT !.stamp = n]
    PROVE  /\ r \in Record
           /\ r.type = rec.type /\ r.status = rec.status /\ r.remaining = rec.remaining
           /\ r.exec = rec.exec /\ r.shares = rec.shares /\ r.stamp = n
BY DEF Record

\* The greatest position of a set of positions.
LEMMA LastPosition ==
    ASSUME NEW n \in Nat, NEW S \in SUBSET (1..n), S # {}
    PROVE  /\ (CHOOSE k \in S : \A other \in S : other <= k) \in S
           /\ \A other \in S : other <= (CHOOSE k \in S : \A m \in S : m <= k)
<1> DEFINE R == {ss \in Nat \X Nat : ss[1] < ss[2]}
           T == {n - k : k \in S}
<1>1. IsWellFoundedOn(R, Nat)
  BY NatLessThanWellFounded DEF OpToRel
<1>2. T \subseteq Nat /\ T # {}
  <2>1. ASSUME NEW k \in S PROVE n - k \in Nat
    OBVIOUS
  <2>2. T # {}
    OBVIOUS
  <2> QED BY <2>1, <2>2
<1>3. PICK x \in T : \A y \in T : <<y, x>> \notin R
  <2> HIDE DEF R, T
  <2> QED BY <1>1, <1>2, WFMin
<1>4. PICK k \in S : x = n - k
  OBVIOUS
<1>5. ASSUME NEW m \in S PROVE m <= k
  <2>1. m \in Nat /\ k \in Nat /\ m <= n /\ k <= n
    OBVIOUS
  <2>2. n - m \in T /\ n - k \in T
    OBVIOUS
  <2>3. ~(n - m < n - k)
    BY <1>2, <1>3, <1>4, <2>2
  <2> HIDE DEF T, R
  <2> QED BY <2>1, <2>3
<1> QED BY <1>4, <1>5

\* What pass 1 of poll_events makes of the last remaining quantity.
LEMMA RemainingFacts ==
    ASSUME NEW batch \in Seq(Record)
    PROVE  \/ /\ \A k \in 1..Len(batch) : batch[k].type # "ORDER_STATUS"
              /\ Remaining(batch) = last_remaining
           \/ \E k \in 1..Len(batch) :
                 batch[k].type = "ORDER_STATUS" /\ Remaining(batch) = batch[k].remaining
<1> DEFINE reports == {k \in DOMAIN batch : batch[k].type = "ORDER_STATUS"}
<1>1. reports \in SUBSET (1..Len(batch)) /\ Len(batch) \in Nat /\ DOMAIN batch = 1..Len(batch)
  OBVIOUS
<1>2. CASE reports = {}
  BY <1>1, <1>2 DEF Remaining
<1>3. CASE reports # {}
  <2> DEFINE last == CHOOSE k \in reports : \A other \in reports : other <= k
  <2>1. last \in reports
    <3> HIDE DEF reports
    <3> QED BY <1>1, <1>3, LastPosition
  <2>2. Remaining(batch) = batch[last].remaining
    BY <1>3 DEF Remaining
  <2> HIDE DEF last
  <2> QED BY <1>1, <2>1, <2>2
<1> QED BY <1>2, <1>3

-----------------------------------------------------------------------------
(* Types.                                                                    *)

\* With what the other proofs need of the control state: there is a line to apply
\* while the runner applies, and nothing under way to a tap that is down.
FeedInv ==
    /\ TypeOK
    /\ runner = "applying" => recs # <<>>
    /\ ~tap_up => callbacks = <<>>

\* An event has the type the ticket and the keys need.
LEMMA NewEventsTyped ==
    ASSUME TypeOK, NEW rec \in Record, NEW e \in NewEvents(rec)
    PROVE  /\ e.type \in {"FILL", "ACK", "CANCELLED", "REJECT"}
           /\ e.qty \in 0..Qty /\ e.remaining \in 0..Qty /\ e.exec \in Nat
           /\ \/ /\ rec.type = "EXEC_DETAILS" /\ rec.shares > 0
                 /\ e.type = "FILL" /\ e.qty = rec.shares /\ e.exec = rec.exec
                 /\ e.remaining = IF last_remaining # Unknown THEN last_remaining ELSE 0
              \/ /\ rec.type = "ORDER_STATUS" /\ rec.status = "Filled"
                 /\ e.type = "FILL" /\ e.qty = 0 /\ e.exec = Marker
              \/ rec.type = "ORDER_STATUS" /\ e.type # "FILL"
           /\ e.type = "FILL" => Key(rec, e) \notin seen
<1>1. PICK n \in Normalized(rec) : e = Patched(rec, n)
  BY DEF NewEvents
<1>2. e.type = "FILL" => Key(rec, e) \notin seen
  BY DEF NewEvents
<1>3. last_remaining # Unknown => last_remaining \in 0..Qty
  BY DEF TypeOK
<1>4. CASE rec.type = "EXEC_DETAILS" /\ rec.shares > 0
  <2>1. n = [type |-> "FILL", qty |-> rec.shares, remaining |-> 0, exec |-> rec.exec]
    BY <1>1, <1>4 DEF Normalized, ExecEvents, Event
  <2>2. /\ e.type = "FILL" /\ e.qty = rec.shares /\ e.exec = rec.exec
        /\ e.remaining = IF last_remaining # Unknown THEN last_remaining ELSE 0
    BY <1>1, <1>4, <2>1 DEF Patched
  <2> QED BY <1>2, <1>3, <1>4, <2>2, RecordParts, QtyAssumption
<1>5. CASE rec.type = "ORDER_STATUS"
  <2>1. e = n
    BY <1>1, <1>5 DEF Patched
  <2>2. \/ rec.status = "Submitted"
           /\ n = [type |-> "ACK", qty |-> 0, remaining |-> rec.remaining, exec |-> Marker]
        \/ rec.status = "Filled"
           /\ n = [type |-> "FILL", qty |-> 0, remaining |-> 0, exec |-> Marker]
        \/ rec.status = "Cancelled"
           /\ n = [type |-> "CANCELLED", qty |-> 0, remaining |-> rec.remaining, exec |-> Marker]
        \/ rec.status = "Inactive"
           /\ n = [type |-> "REJECT", qty |-> 0, remaining |-> rec.remaining, exec |-> Marker]
    BY <1>1, <1>5 DEF Normalized, Event
  <2> QED BY <1>2, <1>5, <2>1, <2>2, RecordParts, QtyAssumption DEF Marker
<1>6. ~(rec.type = "EXEC_DETAILS" /\ rec.shares > 0) /\ rec.type # "ORDER_STATUS" => Normalized(rec) = {}
  BY DEF Normalized, ExecEvents
<1> QED BY <1>1, <1>4, <1>5, <1>6

\* What the gateway may say of a refusal: nothing of an execution, and no status
\* but the order's own.
LEMMA Refusals ==
    ASSUME order.filled \in 0..Qty, GatewayRefuse
    PROVE  \E more \in Seq(Record) :
              /\ Send(more)
              /\ \A i \in 1..Len(more) :
                    \/ more[i].type = "ERROR"
                    \/ /\ more[i].type = "ORDER_STATUS" /\ more[i].status = "Inactive"
                       /\ more[i].remaining = Qty - order.filled
<1>1. PICK report \in Record : report = StatusRecord("Inactive", Qty - order.filled)
  <2>1. Qty - order.filled \in 0..Qty /\ "Inactive" \in Statuses
    BY QtyAssumption DEF Statuses
  <2> QED BY <2>1, RecordsTyped
<1>2. PICK err \in Record : err = ErrorRecord
  BY RecordsTyped
<1>3. /\ report.type = "ORDER_STATUS" /\ report.status = "Inactive"
      /\ report.remaining = Qty - order.filled /\ err.type = "ERROR"
  BY <1>1, <1>2 DEF StatusRecord, ErrorRecord, NoRecord
<1>4. PICK more \in {<<err>>, <<report>>, <<err, report>>, <<report, err>>} : Send(more)
  BY <1>1, <1>2 DEF GatewayRefuse
<1>5. more \in Seq(Record) /\ \A i \in 1..Len(more) : more[i] = err \/ more[i] = report
  <2>1. CASE more = <<err>>
    BY <2>1
  <2>2. CASE more = <<report>>
    BY <2>2
  <2>3. CASE more = <<err, report>>
    BY <2>3
  <2>4. CASE more = <<report, err>>
    BY <2>4
  <2> QED BY ONLY <1>4, <2>1, <2>2, <2>3, <2>4
<1> QED BY <1>3, <1>4, <1>5

\* The gateway's steps.
LEMMA GatewayTyped ==
    ASSUME FeedInv, Gateway
    PROVE  FeedInv'
<1>a. TypeOK
  BY DEF FeedInv
<1>o. /\ order.filled \in 0..Qty /\ order.status \in Statuses
      /\ order \in [filled : 0..Qty, status : Statuses]
  BY <1>a DEF TypeOK
<1>1. ASSUME NEW records \in Seq(Record), Send(records),
             UNCHANGED <<tap_up, session, file, file_exists, cursor_file, run_vars>>,
             order' \in [filled : 0..Qty, status : Statuses], execs' \in Seq(1..Qty)
      PROVE  FeedInv'
  <2>1. callbacks' \in Seq(Record)
    BY <1>a, <1>1, ConcatProperties DEF Send, TypeOK
  <2>2. ~tap_up' => callbacks' = <<>>
    BY <1>1 DEF Send, FeedInv
  <2> QED BY <1>a, <1>1, <2>1, <2>2 DEF FeedInv, TypeOK, run_vars
<1>2. ASSUME NEW shares \in 1..Qty, GatewayFill(shares) PROVE FeedInv'
  <2> DEFINE filled == order.filled + shares
             status == IF filled = Qty THEN "Filled" ELSE "Submitted"
             details == ExecRecord(Len(execs) + 1, shares)
             report == StatusRecord(status, Qty - filled)
  <2>1. filled \in 0..Qty /\ Qty - filled \in 0..Qty /\ status \in Statuses
    BY <1>2, <1>o, QtyAssumption DEF GatewayFill, Statuses
  <2>2. Len(execs) + 1 \in Nat /\ shares \in 0..Qty
    BY <1>a DEF TypeOK
  <2>3. details \in Record /\ report \in Record
    <3> HIDE DEF filled, status
    <3> QED BY <2>1, <2>2, RecordsTyped
  <2>4. /\ order' = [filled |-> filled, status |-> status]
        /\ execs' = Append(execs, shares)
        /\ Send(<<details, report>>) \/ Send(<<report, details>>)
        /\ UNCHANGED <<tap_up, session, file, file_exists, cursor_file, run_vars>>
    BY <1>2 DEF GatewayFill
  <2> HIDE DEF filled, status, details, report
  <2>5. <<details, report>> \in Seq(Record) /\ <<report, details>> \in Seq(Record)
    BY <2>3
  <2>6. execs' \in Seq(1..Qty)
    BY <1>a, <2>4, AppendProperties DEF TypeOK
  <2> QED BY <1>1, <2>1, <2>4, <2>5, <2>6
<1>3. ASSUME GatewayCancel PROVE FeedInv'
  <2>1. Qty - order.filled \in 0..Qty /\ "Cancelled" \in Statuses
    BY <1>o, QtyAssumption DEF Statuses
  <2>2. <<StatusRecord("Cancelled", Qty - order.filled)>> \in Seq(Record)
    BY <2>1, RecordsTyped
  <2>3. order' \in [filled : 0..Qty, status : Statuses] /\ execs' \in Seq(1..Qty)
    BY <1>a, <1>3, <1>o, <2>1 DEF GatewayCancel, TypeOK
  <2> QED BY <1>1, <1>3, <2>2, <2>3 DEF GatewayCancel
<1>4. ASSUME GatewayRefuse PROVE FeedInv'
  <2>1. PICK more \in Seq(Record) : Send(more)
    BY <1>4, <1>o, Refusals
  <2>2. order' \in [filled : 0..Qty, status : Statuses] /\ execs' \in Seq(1..Qty)
    BY <1>a, <1>4, <1>o DEF GatewayRefuse, TypeOK, Statuses
  <2> QED BY <1>1, <1>4, <2>1, <2>2 DEF GatewayRefuse
<1> QED BY <1>2, <1>3, <1>4 DEF Gateway

\* What a tap that connects is told.
LEMMA GreetingTyped ==
    ASSUME TypeOK
    PROVE  <<OpenOrderRecord, StatusRecord("Submitted", Qty - order.filled)>> \in Seq(Record)
<1>1. Qty - order.filled \in 0..Qty /\ "Submitted" \in Statuses
  <2>1. order.filled \in 0..Qty
    BY DEF TypeOK
  <2> QED BY <2>1, QtyAssumption DEF Statuses
<1> QED BY <1>1, RecordsTyped

\* The tap's steps.
LEMMA TapTyped ==
    ASSUME FeedInv, Tap
    PROVE  FeedInv'
<1>a. TypeOK
  BY DEF FeedInv
<1>1. ASSUME TapConnects PROVE FeedInv'
  <2>1. callbacks' \in Seq(Record)
    <3>1. <<>> \in Seq(Record)
      OBVIOUS
    <3> QED BY <1>a, <1>1, <3>1, GreetingTyped DEF TapConnects
  <2>2. session' \in 0..MaxSessions
    BY <1>a, <1>1, BoundsAssumption DEF TapConnects, TypeOK
  <2> QED BY <1>1, <2>1, <2>2 DEF TapConnects, FeedInv, TypeOK, gateway_vars, run_vars
<1>2. ASSUME TapWrites PROVE FeedInv'
  <2>1. Head(callbacks) \in Record /\ Tail(callbacks) \in Seq(Record) /\ session \in Nat
    BY <1>a, <1>2, HeadTailProperties, BoundsAssumption DEF TapWrites, TypeOK
  <2>2. [Head(callbacks) EXCEPT !.stamp = session] \in Record
    BY <2>1, Stamped
  <2>3. file' \in Seq(Record) /\ Len(file') = Len(file) + 1
    BY <1>a, <1>2, <2>2, AppendProperties DEF TapWrites, TypeOK
  <2>4. cursor_file' \in 0..Len(file') /\ cursor' \in 0..Len(file')
    <3>1. cursor_file \in 0..Len(file) /\ cursor \in 0..Len(file) /\ Len(file) \in Nat
      BY <1>a DEF TypeOK
    <3>2. cursor_file' = cursor_file /\ cursor' = cursor
      BY <1>2 DEF TapWrites, run_vars
    <3> QED BY <2>3, <3>1, <3>2
  <2> QED BY <1>2, <2>1, <2>3, <2>4 DEF TapWrites, FeedInv, TypeOK, gateway_vars, run_vars
<1>3. ASSUME TapStops PROVE FeedInv'
  BY <1>3, EmptySeq DEF TapStops, FeedInv, TypeOK, gateway_vars, run_vars
<1> QED BY <1>1, <1>2, <1>3 DEF Tap

\* The lines that a poll returns.
LEMMA NewLines ==
    ASSUME TypeOK, NEW s, s = SubSeq(file, cursor + 1, Len(file))
    PROVE  /\ s \in Seq(Record) /\ Len(s) = Len(file) - cursor
           /\ \A i \in 1..Len(s) : s[i] = file[cursor + i] /\ cursor + i \in 1..Len(file)
<1>1. cursor \in Nat /\ Len(file) \in Nat /\ cursor <= Len(file)
  BY DEF TypeOK
<1>2. \A i \in (cursor + 1)..Len(file) : file[i] \in Record
  BY <1>1, ElementOfSeq DEF TypeOK
<1>3. /\ s \in Seq(Record)
      /\ Len(s) = IF cursor + 1 <= Len(file) THEN Len(file) - (cursor + 1) + 1 ELSE 0
      /\ \A i \in 1..(Len(file) - (cursor + 1) + 1) : s[i] = file[cursor + 1 + i - 1]
  <2>1. cursor + 1 \in Int /\ Len(file) \in Int
    BY <1>1
  <2> QED BY ONLY <1>2, <2>1, s = SubSeq(file, cursor + 1, Len(file)), SubSeqProperties
<1> QED BY <1>1, <1>3

\* The runner's steps.
LEMMA RunnerTyped ==
    ASSUME FeedInv, Runner
    PROVE  FeedInv'
<1>a. TypeOK
  BY DEF FeedInv
<1>f. FreshTicket \in [filled : Nat, remaining : 0..Qty,
                       end : {"None", "FILLED", "CANCELLED", "FAILED"}]
  BY QtyAssumption DEF FreshTicket
<1>l. Len(file) \in Nat /\ cursor_file \in 0..Len(file)
  BY <1>a DEF TypeOK
<1>1. ASSUME RunnerStarts PROVE FeedInv'
  <2>1. cursor_file' \in 0..Len(file) /\ cursor' \in 0..Len(file) /\ runs' \in 0..MaxRuns
    BY <1>a, <1>l, <1>1, BoundsAssumption DEF RunnerStarts, TypeOK
  <2>2. /\ seen' = {} /\ ticket' = FreshTicket /\ last_remaining' = Unknown
        /\ runner' = "idle" /\ tailing' = file_exists
        /\ UNCHANGED <<recs, gateway_vars, tap_vars>>
    BY <1>1 DEF RunnerStarts
  <2> QED BY <1>f, <2>1, <2>2 DEF FeedInv, TypeOK, gateway_vars, tap_vars
<1>2. ASSUME Poll PROVE FeedInv'
  <2>1. recs' \in Seq(Record)
    BY <1>a, <1>2, NewLines DEF Poll
  <2>2. cursor' \in 0..Len(file)
    BY <1>l, <1>2 DEF Poll
  <2> QED BY <1>2, <2>1, <2>2 DEF Poll, FeedInv, TypeOK, gateway_vars, tap_vars
<1>3. ASSUME PollNothing PROVE FeedInv'
  BY <1>3 DEF PollNothing, vars, FeedInv, TypeOK, gateway_vars, tap_vars, run_vars
<1>4. ASSUME PersistCursor PROVE FeedInv'
  BY <1>4 DEF PersistCursor, FeedInv, TypeOK, gateway_vars, tap_vars
<1>5. ASSUME CollectEvents PROVE FeedInv'
  <2>1. Remaining(recs) \in 0..Qty \cup {Unknown}
    <3>1. recs \in Seq(Record) /\ last_remaining \in 0..Qty \cup {Unknown}
      BY <1>a DEF TypeOK
    <3>2. \A k \in 1..Len(recs) : recs[k].remaining \in 0..Qty
      BY <3>1, ElementOfSeq, RecordParts
    <3> QED BY <3>1, <3>2, RemainingFacts
  <2>2. /\ last_remaining' = Remaining(recs)
        /\ runner' = IF recs = <<>> THEN "idle" ELSE "applying"
        /\ UNCHANGED <<runs, tailing, cursor, recs, ticket, seen, gateway_vars, tap_vars, cursor_file>>
    BY <1>5 DEF CollectEvents
  <2> QED BY <2>1, <2>2 DEF FeedInv, TypeOK, gateway_vars, tap_vars
<1>6. ASSUME ApplyRecord PROVE FeedInv'
  <2>1. Head(recs) \in Record /\ Tail(recs) \in Seq(Record)
    BY <1>a, <1>6, HeadTailProperties DEF ApplyRecord, FeedInv, TypeOK
  <2> DEFINE rec == Head(recs)
  <2>2. ASSUME NEW e \in NewEvents(rec)
        PROVE  /\ Applied(ticket, e) \in [filled : Nat, remaining : 0..Qty,
                                          end : {"None", "FILLED", "CANCELLED", "FAILED"}]
               /\ Key(rec, e) \in [exec : Nat, stamp : Nat, qty : 0..Qty]
    <3>1. /\ e.type \in {"FILL", "ACK", "CANCELLED", "REJECT"} /\ e.qty \in 0..Qty
          /\ e.remaining \in 0..Qty /\ e.exec \in Nat
      BY <1>a, <2>1, NewEventsTyped
    <3>2. Key(rec, e) \in [exec : Nat, stamp : Nat, qty : 0..Qty]
      BY <2>1, <3>1, RecordParts DEF Key
    <3>3. ticket.filled + e.qty \in Nat
      <4>1. ticket.filled \in Nat
        BY ONLY <1>a DEF TypeOK
      <4>2. e.qty \in Nat
        BY ONLY <3>1, QtyAssumption
      <4> QED BY ONLY <4>1, <4>2
    <3>4. Applied(ticket, e) \in [filled : Nat, remaining : 0..Qty,
                                  end : {"None", "FILLED", "CANCELLED", "FAILED"}]
      <4>1. ticket \in [filled : Nat, remaining : 0..Qty,
                        end : {"None", "FILLED", "CANCELLED", "FAILED"}]
        BY <1>a DEF TypeOK
      <4> QED BY <3>1, <3>3, <4>1 DEF Applied
    <3> QED BY <3>2, <3>4
  <2>3. /\ recs' = Tail(recs)
        /\ runner' = IF Tail(recs) = <<>> THEN "idle" ELSE "applying"
        /\ UNCHANGED <<runs, tailing, cursor, last_remaining, gateway_vars, tap_vars, cursor_file>>
        /\ \/ UNCHANGED <<ticket, seen>>
           \/ \E e \in NewEvents(rec) :
                 /\ ticket' = Applied(ticket, e)
                 /\ seen' = IF e.type = "FILL" THEN seen \cup {Key(rec, e)} ELSE seen
    BY <1>6 DEF ApplyRecord
  <2> HIDE DEF rec
  <2>4. /\ ticket' \in [filled : Nat, remaining : 0..Qty,
                        end : {"None", "FILLED", "CANCELLED", "FAILED"}]
        /\ seen' \in SUBSET [exec : Nat, stamp : Nat, qty : 0..Qty]
    BY <1>a, <2>2, <2>3 DEF TypeOK
  <2> QED BY <2>1, <2>3, <2>4 DEF FeedInv, TypeOK, gateway_vars, tap_vars
<1>7. ASSUME RunnerStops PROVE FeedInv'
  <2>1. cursor' \in 0..Len(file)
    BY <1>l, <1>7 DEF RunnerStops
  <2> QED BY <1>7, <1>f, <2>1, EmptySeq DEF RunnerStops, FeedInv, TypeOK, gateway_vars, tap_vars
<1> QED BY <1>1, <1>2, <1>3, <1>4, <1>5, <1>6, <1>7 DEF Runner, Step

\* The type invariant: no cursor is ahead of the file, and no count leaves its range.
THEOREM FeedTyped == Spec => []FeedInv
<1>1. ASSUME Init PROVE FeedInv
  <2>1. 0 \in 0..Qty /\ Qty \in 0..Qty /\ 0 \in 0..MaxSessions /\ 0 \in 0..MaxRuns /\ 0 \in 0..Len(<<>>)
    BY QtyAssumption, BoundsAssumption
  <2>2. FreshTicket \in [filled : Nat, remaining : 0..Qty,
                         end : {"None", "FILLED", "CANCELLED", "FAILED"}]
    BY <2>1 DEF FreshTicket
  <2>3. execs \in Seq(1..Qty) /\ callbacks \in Seq(Record) /\ file \in Seq(Record) /\ recs \in Seq(Record)
    BY <1>1 DEF Init
  <2>4. order \in [filled : 0..Qty, status : Statuses]
    BY <1>1, <2>1 DEF Init, Statuses
  <2> QED BY <1>1, <2>1, <2>2, <2>3, <2>4 DEF Init, FeedInv, TypeOK
<1>2. FeedInv /\ [Next]_vars => FeedInv'
  <2>1. ASSUME FeedInv, UNCHANGED vars PROVE FeedInv'
    BY <2>1 DEF vars, FeedInv, TypeOK, gateway_vars, tap_vars, run_vars
  <2> QED BY <2>1, GatewayTyped, TapTyped, RunnerTyped DEF Next
<1> QED BY <1>1, <1>2, PTL DEF Spec

\* TypeOK, for every instance.
THEOREM FeedTypeCorrect == Spec => []TypeOK
<1>1. FeedInv => TypeOK
  BY DEF FeedInv
<1> QED BY <1>1, FeedTyped, PTL

-----------------------------------------------------------------------------
(* Lines: those in the file and those on their way to it.                    *)

IsExec(rec) == rec.type = "EXEC_DETAILS"
IsStatus(rec) == rec.type = "ORDER_STATUS"

\* Details are details of executions that were made.
ExecsKnown(s, done) ==
    \A i \in 1..Len(s) : IsExec(s[i]) =>
        s[i].exec \in 1..Len(done) /\ s[i].shares = done[s[i].exec]

\* No two of the lines, of one sequence or of two, are details of one execution.
ExecsApart(s) ==
    \A i, j \in 1..Len(s) :
        IsExec(s[i]) /\ IsExec(s[j]) /\ s[i].exec = s[j].exec => i = j
NeverBoth(s, t) ==
    \A i \in 1..Len(s), j \in 1..Len(t) :
        IsExec(s[i]) /\ IsExec(t[j]) => s[i].exec # t[j].exec

ToldOnce(lines, calls, done) ==
    /\ ExecsKnown(lines, done) /\ ExecsKnown(calls, done)
    /\ ExecsApart(lines) /\ ExecsApart(calls) /\ NeverBoth(lines, calls)

\* What was read is in the file, and so is what the engine has seen.
ReadFrom(s, lines) == \A i \in 1..Len(s) : \E j \in 1..Len(lines) : s[i] = lines[j]
KeysRead(keys, lines) ==
    \A key \in keys : key.exec # Marker =>
        \E j \in 1..Len(lines) :
            /\ IsExec(lines[j]) /\ key.exec = lines[j].exec
            /\ key.stamp = lines[j].stamp /\ key.qty = lines[j].shares

\* New callbacks, with details of new executions only.
LEMMA MoreCallsAt ==
    ASSUME NEW lines, NEW calls, NEW more, NEW calls2, NEW done, NEW done2,
           NEW l \in Nat, NEW c \in Nat, NEW m \in Nat, NEW d \in Nat, NEW d2 \in Nat,
           l = Len(lines), c = Len(calls), m = Len(more), d = Len(done), d2 = Len(done2),
           ToldOnce(lines, calls, done),
           d <= d2, \A k \in 1..d : done2[k] = done[k],
           ExecsKnown(more, done2), ExecsApart(more),
           \A i \in 1..m : IsExec(more[i]) => more[i].exec > d,
           Len(calls2) = c + m,
           \A i \in 1..(c + m) : calls2[i] = IF i <= c THEN calls[i] ELSE more[i - c]
    PROVE  ToldOnce(lines, calls, done2) /\ ToldOnce(lines, calls2, done2)
<1>1. ExecsKnown(lines, done2) /\ ExecsKnown(calls, done2)
  BY DEF ExecsKnown, ToldOnce
<1>2. ToldOnce(lines, calls, done2)
  BY <1>1 DEF ToldOnce
<1>4. ASSUME NEW i \in 1..(c + m)
      PROVE  \/ i \in 1..c /\ calls2[i] = calls[i]
             \/ i - c \in 1..m /\ calls2[i] = more[i - c]
  OBVIOUS
<1>5. ExecsKnown(calls2, done2)
  <2> SUFFICES ASSUME NEW i \in 1..(c + m), IsExec(calls2[i])
               PROVE  /\ calls2[i].exec \in 1..d2
                      /\ calls2[i].shares = done2[calls2[i].exec]
    BY DEF ExecsKnown
  <2>1. CASE i \in 1..c /\ calls2[i] = calls[i]
    BY <1>1, <2>1 DEF ExecsKnown
  <2>2. CASE i - c \in 1..m /\ calls2[i] = more[i - c]
    BY <2>2 DEF ExecsKnown
  <2> QED BY <1>4, <2>1, <2>2
<1>6. \A i \in 1..c : IsExec(calls[i]) => calls[i].exec \in Nat /\ calls[i].exec <= d
  BY DEF ToldOnce, ExecsKnown
<1>7. \A i \in 1..l : IsExec(lines[i]) => lines[i].exec \in Nat /\ lines[i].exec <= d
  BY DEF ToldOnce, ExecsKnown
<1>8. ExecsApart(calls2)
  <2> SUFFICES ASSUME NEW i \in 1..(c + m), NEW j \in 1..(c + m),
                      IsExec(calls2[i]), IsExec(calls2[j]), calls2[i].exec = calls2[j].exec
               PROVE  i = j
    BY DEF ExecsApart
  <2>1. CASE i \in 1..c /\ calls2[i] = calls[i] /\ j \in 1..c /\ calls2[j] = calls[j]
    BY <2>1 DEF ToldOnce, ExecsApart
  <2>2. CASE /\ i - c \in 1..m /\ calls2[i] = more[i - c]
             /\ j - c \in 1..m /\ calls2[j] = more[j - c]
    <3>1. i - c = j - c
      BY <2>2 DEF ExecsApart
    <3> QED BY <3>1
  <2>3. CASE /\ i \in 1..c /\ calls2[i] = calls[i]
             /\ j - c \in 1..m /\ calls2[j] = more[j - c]
    <3>1. calls2[i].exec \in Nat /\ calls2[i].exec <= d /\ calls2[j].exec > d
      BY <1>6, <2>3
    <3> QED BY <3>1
  <2>4. CASE /\ j \in 1..c /\ calls2[j] = calls[j]
             /\ i - c \in 1..m /\ calls2[i] = more[i - c]
    <3>1. calls2[j].exec \in Nat /\ calls2[j].exec <= d /\ calls2[i].exec > d
      BY <1>6, <2>4
    <3> QED BY <3>1
  <2> QED BY <1>4, <2>1, <2>2, <2>3, <2>4
<1>9. NeverBoth(lines, calls2)
  <2> SUFFICES ASSUME NEW i \in 1..l, NEW j \in 1..(c + m),
                      IsExec(lines[i]), IsExec(calls2[j])
               PROVE  lines[i].exec # calls2[j].exec
    BY DEF NeverBoth
  <2>1. CASE j \in 1..c /\ calls2[j] = calls[j]
    BY <2>1 DEF ToldOnce, NeverBoth
  <2>2. CASE j - c \in 1..m /\ calls2[j] = more[j - c]
    <3>1. lines[i].exec <= d /\ calls2[j].exec > d /\ lines[i].exec \in Nat
      BY <1>7, <2>2
    <3> QED BY <3>1
  <2> QED BY <1>4, <2>1, <2>2
<1> QED BY <1>1, <1>2, <1>5, <1>8, <1>9 DEF ToldOnce

LEMMA MoreCalls ==
    ASSUME NEW lines \in Seq(Record), NEW calls \in Seq(Record), NEW more \in Seq(Record),
           NEW done \in Seq(1..Qty), NEW done2 \in Seq(1..Qty),
           ToldOnce(lines, calls, done),
           Len(done) <= Len(done2), \A k \in 1..Len(done) : done2[k] = done[k],
           ExecsKnown(more, done2), ExecsApart(more),
           \A i \in 1..Len(more) : IsExec(more[i]) => more[i].exec > Len(done)
    PROVE  ToldOnce(lines, calls, done2) /\ ToldOnce(lines, calls \o more, done2)
<1>1. /\ Len(calls \o more) = Len(calls) + Len(more)
      /\ \A i \in 1..(Len(calls) + Len(more)) :
            (calls \o more)[i] = IF i <= Len(calls) THEN calls[i] ELSE more[i - Len(calls)]
  BY ConcatProperties
<1>2. /\ Len(lines) \in Nat /\ Len(calls) \in Nat /\ Len(more) \in Nat
      /\ Len(done) \in Nat /\ Len(done2) \in Nat
  BY LenProperties
<1>3. PICK calls2 : calls2 = calls \o more
  OBVIOUS
<1>4. /\ Len(calls2) = Len(calls) + Len(more)
      /\ \A i \in 1..(Len(calls) + Len(more)) :
            calls2[i] = IF i <= Len(calls) THEN calls[i] ELSE more[i - Len(calls)]
  BY ONLY <1>1, <1>3
<1>5. ToldOnce(lines, calls, done2) /\ ToldOnce(lines, calls2, done2)
  BY ONLY <1>2, <1>4, MoreCallsAt,
          ToldOnce(lines, calls, done),
          Len(done) <= Len(done2), \A k \in 1..Len(done) : done2[k] = done[k],
          ExecsKnown(more, done2), ExecsApart(more),
          \A i \in 1..Len(more) : IsExec(more[i]) => more[i].exec > Len(done)
<1> QED BY ONLY <1>3, <1>5

\* The first of the calls, stamped, is the last of the lines; l and c are how many there were.
FirstWritten(lines, calls, rec, lines2, rest, l, c) ==
    /\ l \in Nat /\ c \in Nat /\ l = Len(lines) /\ c = Len(calls) /\ c > 0
    /\ rec.type = calls[1].type /\ rec.status = calls[1].status /\ rec.remaining = calls[1].remaining
    /\ rec.exec = calls[1].exec /\ rec.shares = calls[1].shares
    /\ Len(lines2) = l + 1 /\ lines2[l + 1] = rec /\ \A i \in 1..l : lines2[i] = lines[i]
    /\ Len(rest) = c - 1 /\ \A i \in 1..(c - 1) : rest[i] = calls[i + 1]

LEMMA TapAppends ==
    ASSUME NEW lines \in Seq(Record), NEW calls \in Seq(Record), calls # <<>>,
           NEW n \in Nat, NEW rec, rec = [Head(calls) EXCEPT !.stamp = n]
    PROVE  FirstWritten(lines, calls, rec, Append(lines, rec), Tail(calls), Len(lines), Len(calls))
<1>1. /\ Len(Tail(calls)) = Len(calls) - 1
      /\ \A i \in 1..(Len(calls) - 1) : Tail(calls)[i] = calls[i + 1]
  BY HeadTailProperties
<1>2. Head(calls) = calls[1] /\ Len(calls) \in Nat /\ Len(calls) > 0 /\ calls[1] \in Record
      /\ Len(lines) \in Nat
  BY EmptySeq, ElementOfSeq
<1>3. rec \in Record /\ rec.type = calls[1].type /\ rec.status = calls[1].status
      /\ rec.remaining = calls[1].remaining /\ rec.exec = calls[1].exec /\ rec.shares = calls[1].shares
  BY <1>2, Stamped
<1>4. /\ Len(Append(lines, rec)) = Len(lines) + 1
      /\ \A i \in 1..Len(lines) : Append(lines, rec)[i] = lines[i]
      /\ Append(lines, rec)[Len(lines) + 1] = rec
  BY <1>3, AppendProperties
<1> QED BY ONLY <1>1, <1>2, <1>3, <1>4 DEF FirstWritten

\* The first callback becomes the last line.
LEMMA CallWrittenAt ==
    ASSUME NEW lines, NEW calls, NEW done, NEW lines2, NEW rest, NEW rec, NEW l, NEW c,
           FirstWritten(lines, calls, rec, lines2, rest, l, c), ToldOnce(lines, calls, done)
    PROVE  ToldOnce(lines2, rest, done)
<1> USE DEF FirstWritten
<1>5. ASSUME NEW i \in 1..(l + 1)
      PROVE  \/ i \in 1..l /\ lines2[i] = lines[i]
             \/ i = l + 1 /\ lines2[i] = rec
  OBVIOUS
<1>6. ASSUME NEW i \in 1..(c - 1)
      PROVE  i + 1 \in 1..c /\ rest[i] = calls[i + 1] /\ 1 \in 1..c /\ i + 1 # 1
  OBVIOUS
<1>7. /\ IsExec(rec) <=> IsExec(calls[1])
      /\ 1 \in 1..c
  BY DEF IsExec
<1>8. ExecsKnown(lines2, done)
  BY <1>5, <1>7 DEF ExecsKnown, ToldOnce
<1>9. ExecsKnown(rest, done)
  BY <1>6 DEF ExecsKnown, ToldOnce
<1>10. ExecsApart(lines2)
  <2> SUFFICES ASSUME NEW i \in 1..(l + 1), NEW j \in 1..(l + 1),
                      IsExec(lines2[i]), IsExec(lines2[j]), lines2[i].exec = lines2[j].exec
               PROVE  i = j
    BY DEF ExecsApart
  <2>1. CASE i \in 1..l /\ j \in 1..l
    BY <2>1 DEF ToldOnce, ExecsApart
  <2>2. CASE i \in 1..l /\ j = l + 1
    BY <1>7, <2>2 DEF ToldOnce, NeverBoth
  <2>3. CASE i = l + 1 /\ j \in 1..l
    BY <1>7, <2>3 DEF ToldOnce, NeverBoth
  <2> QED BY <1>5, <2>1, <2>2, <2>3
<1>11. ExecsApart(rest)
  <2> SUFFICES ASSUME NEW i \in 1..(c - 1), NEW j \in 1..(c - 1),
                      IsExec(rest[i]), IsExec(rest[j]), rest[i].exec = rest[j].exec
               PROVE  i = j
    BY DEF ExecsApart
  <2>1. ExecsApart(calls) /\ Len(calls) = c
    BY DEF ToldOnce
  <2>2. /\ i + 1 \in 1..c /\ rest[i] = calls[i + 1]
        /\ j + 1 \in 1..c /\ rest[j] = calls[j + 1]
    BY ONLY <1>6
  <2>3. i + 1 = j + 1
    BY ONLY <2>1, <2>2, IsExec(rest[i]), IsExec(rest[j]), rest[i].exec = rest[j].exec DEF ExecsApart
  <2> QED BY <2>3
<1>12. NeverBoth(lines2, rest)
  <2> SUFFICES ASSUME NEW i \in 1..(l + 1), NEW j \in 1..(c - 1),
                      IsExec(lines2[i]), IsExec(rest[j]), lines2[i].exec = rest[j].exec
               PROVE  FALSE
    BY DEF NeverBoth
  <2>1. CASE i \in 1..l /\ lines2[i] = lines[i]
    BY <1>6, <2>1 DEF ToldOnce, NeverBoth
  <2>2. CASE lines2[i] = rec
    BY <1>6, <1>7, <2>2 DEF ToldOnce, ExecsApart
  <2> QED BY <1>5, <2>1, <2>2
<1> QED BY <1>8, <1>9, <1>10, <1>11, <1>12 DEF ToldOnce

LEMMA CallWritten ==
    ASSUME NEW lines \in Seq(Record), NEW calls \in Seq(Record), NEW done,
           ToldOnce(lines, calls, done), calls # <<>>,
           NEW n \in Nat, NEW rec, rec = [Head(calls) EXCEPT !.stamp = n]
    PROVE  ToldOnce(Append(lines, rec), Tail(calls), done)
<1>1. FirstWritten(lines, calls, rec, Append(lines, rec), Tail(calls), Len(lines), Len(calls))
  BY TapAppends
<1> QED BY ONLY <1>1, ToldOnce(lines, calls, done), CallWrittenAt

\* Callbacks that are lost.
LEMMA CallsLost ==
    ASSUME NEW lines, NEW calls, NEW done, ToldOnce(lines, calls, done)
    PROVE  ToldOnce(lines, <<>>, done)
<1>1. \A i \in 1..Len(<<>>) : FALSE
  OBVIOUS
<1> QED BY <1>1 DEF ToldOnce, ExecsKnown, ExecsApart, NeverBoth

\* The file grows.
LEMMA LineAdded ==
    ASSUME NEW lines \in Seq(Record), NEW rec \in Record, NEW s, NEW keys,
           ReadFrom(s, lines), KeysRead(keys, lines)
    PROVE  ReadFrom(s, Append(lines, rec)) /\ KeysRead(keys, Append(lines, rec))
<1>1. /\ Len(Append(lines, rec)) = Len(lines) + 1 /\ Len(lines) \in Nat
      /\ \A i \in 1..Len(lines) : Append(lines, rec)[i] = lines[i]
  BY AppendProperties
<1>2. PICK lines2 : lines2 = Append(lines, rec)
  OBVIOUS
<1>3. \A i \in 1..Len(lines) : lines2[i] = lines[i] /\ i \in 1..Len(lines2)
  BY ONLY <1>1, <1>2
<1>4. ReadFrom(s, lines2)
  BY ONLY <1>3, ReadFrom(s, lines) DEF ReadFrom
<1>5. KeysRead(keys, lines2)
  BY ONLY <1>3, KeysRead(keys, lines) DEF KeysRead
<1> QED BY ONLY <1>2, <1>4, <1>5

-----------------------------------------------------------------------------
(* An execution is counted once.                                             *)

\* left[n] is an amount that the executions may still add to what is counted: an
\* execution of which no key was seen adds no more than left rises at it.
MayAdd(left, keys, done) ==
    /\ left \in [Nat -> Nat]
    /\ \A k, l \in 0..Len(done) : k <= l => left[k] <= left[l]
    /\ \A k \in 1..Len(done) :
          (\A key \in keys : key.exec # k) => left[k - 1] + done[k] <= left[k]

\* What is counted, and all that the executions may still add to it, was filled.
Tally(counted, keys, done, filled) ==
    \E left : MayAdd(left, keys, done) /\ counted + left[Len(done)] <= filled

\* A new execution.
LEMMA ExecutionMade ==
    ASSUME NEW counted \in Nat, NEW keys, NEW done, done \in Seq(1..Qty), NEW filled \in Nat,
           NEW shares, shares \in 1..Qty, Tally(counted, keys, done, filled)
    PROVE  Tally(counted, keys, Append(done, shares), filled + shares)
<1>1. /\ Len(Append(done, shares)) = Len(done) + 1
      /\ \A k \in 1..Len(done) : Append(done, shares)[k] = done[k]
      /\ Append(done, shares)[Len(done) + 1] = shares
  BY AppendProperties
<1>2. PICK n \in Nat : n = Len(done)
  BY LenProperties
<1>3. PICK done2 : done2 = Append(done, shares)
  OBVIOUS
<1>4. /\ Len(done2) = n + 1 /\ done2[n + 1] = shares
      /\ \A k \in 1..n : done2[k] = done[k]
  BY ONLY <1>1, <1>2, <1>3
<1>5. PICK left : MayAdd(left, keys, done) /\ counted + left[n] <= filled
  BY <1>2 DEF Tally
<1>a. left \in [Nat -> Nat]
  BY ONLY <1>5 DEF MayAdd
<1>b. \A k, l \in 0..n : k <= l => left[k] <= left[l]
  BY ONLY <1>2, <1>5 DEF MayAdd
<1>c. \A k \in 1..n : (\A key \in keys : key.exec # k) => left[k - 1] + done[k] <= left[k]
  BY ONLY <1>2, <1>5 DEF MayAdd
<1>s. shares \in Nat
  BY QtyAssumption
<1>n. n + 1 \in Nat /\ left[n] \in Nat /\ left[n] + shares \in Nat
  BY ONLY <1>a, <1>s, n \in Nat
<1>7. PICK left2 : left2 = [left EXCEPT ![n + 1] = left[n] + shares]
  OBVIOUS
<1>d. left2 \in [Nat -> Nat]
  BY ONLY <1>a, <1>7, <1>n
<1>e. left2[n + 1] = left[n] + shares
  BY ONLY <1>a, <1>7, <1>n
<1>f. \A k \in Nat : k # n + 1 => left2[k] = left[k]
  BY ONLY <1>a, <1>7
<1>g. \A k \in 0..n : k \in Nat /\ k # n + 1
  BY ONLY n \in Nat
<1>h. \A k \in 0..n : left2[k] = left[k]
  BY ONLY <1>f, <1>g
<1>i. \A k \in 0..n : left[k] \in Nat
  BY ONLY <1>a, <1>g
<1>9. \A k, l \in 0..(n + 1) : k <= l => left2[k] <= left2[l]
  <2> SUFFICES ASSUME NEW k \in 0..(n + 1), NEW l \in 0..(n + 1), k <= l
               PROVE  left2[k] <= left2[l]
    OBVIOUS
  <2>1. CASE k \in 0..n /\ l \in 0..n
    BY ONLY <2>1, <1>b, <1>h, k <= l
  <2>2. CASE k \in 0..n /\ l = n + 1
    <3>1. n \in 0..n /\ k <= n
      BY ONLY <2>2, n \in Nat
    <3>2. left[k] <= left[n]
      BY ONLY <2>2, <3>1, <1>b
    <3>3. left2[k] = left[k] /\ left[k] \in Nat
      BY ONLY <2>2, <1>h, <1>i
    <3> QED BY ONLY <3>2, <3>3, <2>2, <1>e, <1>n, <1>s
  <2>3. CASE k = n + 1 /\ l = n + 1
    BY ONLY <2>3, <1>e, <1>n
  <2> QED BY ONLY <2>1, <2>2, <2>3, n \in Nat, k \in 0..(n + 1), l \in 0..(n + 1), k <= l
<1>10. ASSUME NEW k \in 1..(n + 1), \A key \in keys : key.exec # k
       PROVE  left2[k - 1] + done2[k] <= left2[k]
  <2>1. CASE k \in 1..n
    <3>1. left[k - 1] + done[k] <= left[k]
      BY ONLY <1>c, <1>10, <2>1
    <3>2. k - 1 \in 0..n /\ k \in 0..n
      BY ONLY <2>1, n \in Nat
    <3>3. left2[k - 1] = left[k - 1] /\ left2[k] = left[k] /\ done2[k] = done[k]
      BY ONLY <1>4, <1>h, <2>1, <3>2
    <3> QED BY ONLY <3>1, <3>3
  <2>2. CASE k = n + 1
    <3>1. k - 1 = n /\ n \in 0..n
      BY ONLY <2>2, n \in Nat
    <3>2. left2[k - 1] = left[n]
      BY ONLY <3>1, <1>h
    <3>3. left2[k] = left[n] + shares /\ done2[k] = shares
      BY ONLY <2>2, <1>4, <1>e
    <3> QED BY ONLY <3>2, <3>3, <1>n, <1>s
  <2> QED BY ONLY <2>1, <2>2, k \in 1..(n + 1), n \in Nat
<1>11. MayAdd(left2, keys, done2)
  <2>1. Len(done2) = n + 1
    BY ONLY <1>4
  <2> QED BY ONLY <2>1, <1>d, <1>9, <1>10 DEF MayAdd
<1>12. counted + left2[n + 1] <= filled + shares
  BY ONLY <1>5, <1>e, <1>n, <1>s, counted \in Nat, filled \in Nat
<1> QED BY ONLY <1>3, <1>4, <1>11, <1>12 DEF Tally

\* The first time its details are applied, an execution may be counted.
LEMMA ExecutionCounted ==
    ASSUME NEW counted \in Nat, NEW keys, NEW done, done \in Seq(1..Qty), NEW filled \in Nat,
           NEW key, key.exec \in 1..Len(done), Tally(counted, keys, done, filled),
           \A other \in keys : other.exec # key.exec
    PROVE  Tally(counted + done[key.exec], keys \cup {key}, done, filled)
<1>1. PICK n \in Nat : n = Len(done)
  BY LenProperties
<1>2. PICK at \in 1..n : at = key.exec
  BY <1>1
<1>3. PICK qty \in Nat : qty = done[at]
  <2>1. done[at] \in 1..Qty
    BY ONLY <1>1, done \in Seq(1..Qty), at \in 1..n, ElementOfSeq
  <2> QED BY <2>1, QtyAssumption
<1>4. PICK left : MayAdd(left, keys, done) /\ counted + left[n] <= filled
  BY <1>1 DEF Tally
<1>5. /\ left \in [Nat -> Nat]
      /\ \A k, l \in 0..n : k <= l => left[k] <= left[l]
      /\ \A k \in 1..n : (\A other \in keys : other.exec # k) => left[k - 1] + done[k] <= left[k]
  BY ONLY <1>1, <1>4 DEF MayAdd
<1>6. left[at - 1] + qty <= left[at] /\ left[at - 1] \in Nat /\ left[at] \in Nat
  <2>1. \A other \in keys : other.exec # at
    BY <1>2
  <2>2. at - 1 \in Nat /\ at \in Nat
    BY ONLY at \in 1..n, n \in Nat
  <2> QED BY ONLY <1>3, <1>5, <2>1, <2>2, at \in 1..n
<1>7. \A k \in 0..n : k >= at => left[k] >= left[at] /\ left[k] \in Nat
  BY ONLY <1>5, at \in 1..n, n \in Nat
<1>8. \A k \in 0..n : k < at => left[k] <= left[at - 1] /\ left[k] \in Nat
  <2>1. at - 1 \in 0..n
    BY ONLY at \in 1..n, n \in Nat
  <2>2. \A k \in 0..n : k < at => k <= at - 1 /\ k \in Nat
    BY ONLY at \in 1..n, n \in Nat
  <2> QED BY ONLY <1>5, <2>1, <2>2
<1>9. PICK left2 :
         left2 = [k \in Nat |-> IF k >= at /\ k <= n THEN left[k] - qty
                                ELSE IF k < at THEN left[k] ELSE 0]
  OBVIOUS
<1>10. /\ \A k \in 0..n : k >= at => left2[k] = left[k] - qty /\ left2[k] \in Nat
       /\ \A k \in 0..n : k < at => left2[k] = left[k] /\ left2[k] \in Nat
  <2>1. \A k \in 0..n : k >= at => left[k] - qty \in Nat
    BY ONLY <1>6, <1>7, qty \in Nat
  <2>2. \A k \in 0..n : k \in Nat /\ k <= n
    BY ONLY n \in Nat
  <2> QED BY ONLY <1>8, <1>9, <2>1, <2>2
<1>11. left2 \in [Nat -> Nat]
  <2>1. ASSUME NEW k \in Nat
        PROVE (IF k >= at /\ k <= n THEN left[k] - qty
               ELSE IF k < at THEN left[k] ELSE 0) \in Nat
    <3>1. CASE k >= at /\ k <= n
      <4>1. k \in 0..n
        BY ONLY <3>1, k \in Nat, n \in Nat
      <4>2. left[k] >= left[at] /\ left[k] \in Nat
        BY ONLY <1>7, <3>1, <4>1
      <4> QED BY ONLY <3>1, <4>2, <1>6, qty \in Nat
    <3>2. CASE ~(k >= at /\ k <= n)
      BY ONLY <3>2, <1>5, k \in Nat
    <3> QED BY <3>1, <3>2
  <2> QED BY ONLY <1>9, <2>1
<1>12. \A k, l \in 0..n : k <= l => left2[k] <= left2[l]
  <2> SUFFICES ASSUME NEW k \in 0..n, NEW l \in 0..n, k <= l PROVE left2[k] <= left2[l]
    OBVIOUS
  <2>1. left[k] <= left[l] /\ left[k] \in Nat /\ left[l] \in Nat
    BY ONLY <1>5, k \in 0..n, l \in 0..n, k <= l, n \in Nat
  <2>2. CASE k >= at
    BY ONLY <2>1, <2>2, <1>10, k \in 0..n, l \in 0..n, k <= l, n \in Nat, at \in 1..n, qty \in Nat
  <2>3. CASE l < at
    BY ONLY <2>1, <2>3, <1>10, k \in 0..n, l \in 0..n, k <= l, n \in Nat, at \in 1..n
  <2>4. CASE k < at /\ l >= at
    <3>1. left[k] <= left[at - 1] /\ left[l] >= left[at]
      BY ONLY <1>7, <1>8, <2>4, k \in 0..n, l \in 0..n
    <3>2. left2[k] = left[k] /\ left2[l] = left[l] - qty
      BY ONLY <1>10, <2>4, k \in 0..n, l \in 0..n
    <3> QED BY ONLY <1>6, <2>1, <3>1, <3>2, qty \in Nat
  <2> QED BY ONLY <2>2, <2>3, <2>4, k \in 0..n, l \in 0..n, n \in Nat, at \in 1..n
<1>13. ASSUME NEW k \in 1..n, \A other \in keys \cup {key} : other.exec # k
       PROVE  left2[k - 1] + done[k] <= left2[k]
  <2>1. k # at
    BY <1>2, <1>13
  <2>2. left[k - 1] + done[k] <= left[k]
    BY ONLY <1>5, <1>13
  <2>3. done[k] \in Nat
    <3>1. done[k] \in 1..Qty
      BY ONLY <1>1, done \in Seq(1..Qty), k \in 1..n, ElementOfSeq
    <3> QED BY <3>1, QtyAssumption
  <2>4. k - 1 \in 0..n /\ k \in 0..n /\ (k > at <=> k - 1 >= at)
    BY ONLY <2>1, k \in 1..n, n \in Nat, at \in 1..n
  <2>5. left[k - 1] \in Nat /\ left[k] \in Nat
    BY ONLY <1>5, <2>4, n \in Nat
  <2>6. CASE k > at
    <3>1. left2[k] = left[k] - qty /\ left2[k - 1] = left[k - 1] - qty
      BY ONLY <1>10, <2>4, <2>6, at \in 1..n, n \in Nat
    <3> QED BY ONLY <2>2, <2>3, <2>5, <3>1, qty \in Nat
  <2>7. CASE k < at
    <3>1. left2[k] = left[k] /\ left2[k - 1] = left[k - 1]
      BY ONLY <1>10, <2>4, <2>7, at \in 1..n, n \in Nat
    <3> QED BY ONLY <2>2, <2>3, <2>5, <3>1
  <2> QED BY ONLY <2>1, <2>6, <2>7, <2>4, at \in 1..n, n \in Nat
<1>14. MayAdd(left2, keys \cup {key}, done)
  BY ONLY <1>1, <1>11, <1>12, <1>13 DEF MayAdd
<1>15. (counted + qty) + left2[n] <= filled
  <2>1. left2[n] = left[n] - qty /\ left[n] \in Nat
    BY ONLY <1>10, <1>5, at \in 1..n, n \in Nat
  <2> QED BY ONLY <1>4, <2>1, counted \in Nat, qty \in Nat, filled \in Nat
<1> QED BY ONLY <1>1, <1>2, <1>3, <1>14, <1>15 DEF Tally

\* A key that was seen adds nothing.
LEMMA KeySeen ==
    ASSUME NEW counted, NEW keys, NEW done, NEW filled, NEW key,
           Tally(counted, keys, done, filled)
    PROVE  Tally(counted, keys \cup {key}, done, filled)
BY DEF Tally, MayAdd

\* Whatever was counted, was filled.
LEMMA CountedWasFilled ==
    ASSUME NEW counted \in Nat, NEW keys, NEW done, done \in Seq(1..Qty), NEW filled \in Nat,
           Tally(counted, keys, done, filled)
    PROVE  counted <= filled
<1>1. PICK left : MayAdd(left, keys, done) /\ counted + left[Len(done)] <= filled
  BY DEF Tally
<1>2. Len(done) \in Nat
  BY LenProperties
<1>3. left[Len(done)] \in Nat
  BY ONLY <1>1, <1>2 DEF MayAdd
<1> QED BY ONLY <1>1, <1>3, counted \in Nat, filled \in Nat

\* The lines, and what is counted of them.
CountInv ==
    /\ ToldOnce(file, callbacks, execs)
    /\ ReadFrom(recs, file) /\ KeysRead(seen, file)
    /\ Tally(ticket.filled, seen, execs, order.filled)
    /\ Tally(0, {}, execs, order.filled)

LEMMA GatewayCounts ==
    ASSUME FeedInv, CountInv, Gateway
    PROVE  CountInv'
<1>a. /\ order.filled \in Nat /\ ticket.filled \in Nat /\ Len(execs) \in Nat
      /\ execs \in Seq(1..Qty) /\ file \in Seq(Record) /\ callbacks \in Seq(Record)
  BY QtyAssumption DEF FeedInv, TypeOK
<1>1. ASSUME NEW more \in Seq(Record), Send(more), NEW done2 \in Seq(1..Qty), execs' = done2,
             Len(execs) <= Len(done2), \A k \in 1..Len(execs) : done2[k] = execs[k],
             ExecsKnown(more, done2), ExecsApart(more),
             \A i \in 1..Len(more) : IsExec(more[i]) => more[i].exec > Len(execs),
             UNCHANGED <<tap_up, session, file, file_exists, cursor_file, run_vars>>
      PROVE  /\ ToldOnce(file, callbacks, execs)'
             /\ ReadFrom(recs, file)' /\ KeysRead(seen, file)'
  <2>1. ToldOnce(file, callbacks, done2) /\ ToldOnce(file, callbacks \o more, done2)
    BY <1>a, <1>1, MoreCalls DEF CountInv
  <2>2. /\ callbacks' = callbacks \/ callbacks' = callbacks \o more
        /\ file' = file /\ recs' = recs /\ seen' = seen
    BY <1>1 DEF Send, run_vars
  <2> QED BY <1>1, <2>1, <2>2 DEF CountInv
<1>2. ASSUME NEW shares \in 1..Qty, GatewayFill(shares) PROVE CountInv'
  <2> DEFINE filled == order.filled + shares
             status == IF filled = Qty THEN "Filled" ELSE "Submitted"
             details == ExecRecord(Len(execs) + 1, shares)
             report == StatusRecord(status, Qty - filled)
  <2>1. filled \in 0..Qty /\ Qty - filled \in 0..Qty /\ status \in Statuses
    BY <1>2, <1>a, QtyAssumption DEF GatewayFill, Statuses
  <2>2. Len(execs) + 1 \in Nat /\ shares \in 0..Qty /\ shares \in Nat
    BY <1>a, QtyAssumption
  <2>3. /\ order' = [filled |-> filled, status |-> status]
        /\ execs' = Append(execs, shares)
        /\ Send(<<details, report>>) \/ Send(<<report, details>>)
        /\ UNCHANGED <<tap_up, session, file, file_exists, cursor_file, run_vars>>
    BY <1>2 DEF GatewayFill
  <2>4. PICK d \in Record : /\ d = details /\ IsExec(d)
                            /\ d.exec = Len(execs) + 1 /\ d.shares = shares
    <3> HIDE DEF filled, status
    <3>1. details \in Record
      BY <2>2, RecordsTyped
    <3> QED BY <3>1, <2>2 DEF IsExec, ExecRecord, NoRecord, Record
  <2>5. PICK r \in Record : r = report /\ ~IsExec(r)
    <3>1. report \in Record
      <4> HIDE DEF filled, status
      <4> QED BY <2>1, RecordsTyped
    <3>2. report.type = "ORDER_STATUS"
      <4> HIDE DEF filled, status
      <4> QED BY DEF StatusRecord, NoRecord
    <3> QED BY <3>1, <3>2 DEF IsExec
  <2>6. PICK done2 \in Seq(1..Qty) :
          /\ done2 = Append(execs, shares) /\ Len(done2) = Len(execs) + 1
          /\ \A k \in 1..Len(execs) : done2[k] = execs[k]
          /\ done2[Len(execs) + 1] = shares
    <3>1. execs \in Seq(1..Qty) /\ shares \in 1..Qty
      BY ONLY <1>a, shares \in 1..Qty
    <3> HIDE DEF filled, status, details, report
    <3> DEFINE done2 == Append(execs, shares)
    <3>2. /\ done2 \in Seq(1..Qty) /\ Len(done2) = Len(execs) + 1
          /\ \A k \in 1..Len(execs) : done2[k] = execs[k]
          /\ done2[Len(execs) + 1] = shares
      BY ONLY <3>1, AppendProperties
    <3> QED BY ONLY <3>2
  <2>7. PICK more \in Seq(Record) : /\ Send(more)
                                    /\ more = <<d, r>> \/ more = <<r, d>>
    <3> HIDE DEF filled, status, details, report
    <3>1. Send(<<d, r>>) \/ Send(<<r, d>>)
      BY ONLY <2>3, <2>4, <2>5
    <3>2. <<d, r>> \in Seq(Record) /\ <<r, d>> \in Seq(Record)
      OBVIOUS
    <3> QED BY ONLY <3>1, <3>2
  <2> HIDE DEF filled, status, details, report
  <2>8. /\ Len(more) = 2
        /\ \A i \in 1..2 : IsExec(more[i]) =>
              more[i].exec = Len(execs) + 1 /\ more[i].shares = shares
        /\ \A i, j \in 1..2 : IsExec(more[i]) /\ IsExec(more[j]) => i = j
    <3>1. CASE more = <<d, r>>
      BY <2>4, <2>5, <3>1
    <3>2. CASE more = <<r, d>>
      BY <2>4, <2>5, <3>2
    <3> QED BY <2>7, <3>1, <3>2
  <2>9. ExecsKnown(more, done2)
    BY <1>a, <2>6, <2>8 DEF ExecsKnown
  <2>10. ExecsApart(more) /\ \A i \in 1..Len(more) : IsExec(more[i]) => more[i].exec > Len(execs)
    BY <1>a, <2>8 DEF ExecsApart
  <2>11. /\ ToldOnce(file, callbacks, execs)'
         /\ ReadFrom(recs, file)' /\ KeysRead(seen, file)'
    <3>1. Len(execs) <= Len(done2)
      BY <1>a, <2>6
    <3> QED BY <1>1, <2>3, <2>6, <2>7, <2>9, <2>10, <3>1
  <2>12. /\ Tally(ticket.filled, seen, Append(execs, shares), order.filled + shares)
         /\ Tally(0, {}, Append(execs, shares), order.filled + shares)
    BY <1>a, ExecutionMade DEF CountInv
  <2>13. order'.filled = order.filled + shares /\ ticket' = ticket /\ seen' = seen
    BY <2>3 DEF run_vars, filled
  <2> QED BY <2>3, <2>11, <2>12, <2>13 DEF CountInv
<1>3. ASSUME NEW more \in Seq(Record), Send(more), \A i \in 1..Len(more) : ~IsExec(more[i]),
             order'.filled = order.filled, execs' = execs,
             UNCHANGED <<tap_up, session, file, file_exists, cursor_file, run_vars>>
      PROVE  CountInv'
  <2>2. ExecsKnown(more, execs) /\ ExecsApart(more)
    BY <1>3 DEF ExecsKnown, ExecsApart
  <2>3. /\ ToldOnce(file, callbacks, execs)'
        /\ ReadFrom(recs, file)' /\ KeysRead(seen, file)'
    <3>1. PICK done2 \in Seq(1..Qty) : done2 = execs
      BY <1>a
    <3>2. Len(execs) <= Len(done2) /\ \A k \in 1..Len(execs) : done2[k] = execs[k]
      BY <1>a, <3>1
    <3> QED BY <1>1, <1>3, <2>2, <3>1, <3>2
  <2> QED BY <1>3, <2>3 DEF CountInv, run_vars
<1>4. ASSUME GatewayCancel PROVE CountInv'
  <2>1. Qty - order.filled \in 0..Qty /\ "Cancelled" \in Statuses
    BY QtyAssumption DEF FeedInv, TypeOK, Statuses
  <2>2. PICK rec \in Record : rec = StatusRecord("Cancelled", Qty - order.filled) /\ ~IsExec(rec)
    BY <2>1, RecordsTyped DEF StatusRecord, NoRecord, IsExec
  <2>3. order'.filled = order.filled
    BY <1>4 DEF GatewayCancel, FeedInv, TypeOK
  <2>4. PICK more \in Seq(Record) : more = <<rec>> /\ \A i \in 1..Len(more) : ~IsExec(more[i])
    <3>1. <<rec>> \in Seq(Record) /\ Len(<<rec>>) = 1 /\ <<rec>>[1] = rec
      OBVIOUS
    <3>2. \A i \in 1..Len(<<rec>>) : ~IsExec(<<rec>>[i])
      BY ONLY <2>2, <3>1
    <3> QED BY ONLY <3>1, <3>2
  <2> QED BY <1>3, <1>4, <2>2, <2>3, <2>4 DEF GatewayCancel
<1>5. ASSUME GatewayRefuse PROVE CountInv'
  <2>0. order.filled \in 0..Qty
    BY DEF FeedInv, TypeOK
  <2>1. PICK more \in Seq(Record) : Send(more) /\ \A i \in 1..Len(more) : ~IsExec(more[i])
    BY <1>5, <2>0, Refusals DEF IsExec
  <2>2. order'.filled = order.filled
    BY <1>5 DEF GatewayRefuse, FeedInv, TypeOK
  <2> QED BY <1>3, <1>5, <2>1, <2>2 DEF GatewayRefuse
<1> QED BY <1>2, <1>4, <1>5 DEF Gateway

LEMMA TapCounts ==
    ASSUME FeedInv, CountInv, Tap
    PROVE  CountInv'
<1>a. /\ execs \in Seq(1..Qty) /\ file \in Seq(Record) /\ callbacks \in Seq(Record)
      /\ order.filled \in 0..Qty
  BY DEF FeedInv, TypeOK
<1>1. ASSUME TapConnects PROVE CountInv'
  <2>1. callbacks = <<>>
    BY <1>1 DEF TapConnects, FeedInv
  <2>2. PICK more \in Seq(Record) :
          more = callbacks' /\ \A i \in 1..Len(more) : ~IsExec(more[i])
    <3> DEFINE report == StatusRecord("Submitted", Qty - order.filled)
    <3>1. callbacks' \in Seq(Record)
      BY <1>1, TapTyped DEF Tap, FeedInv, TypeOK
    <3>3. ~IsExec(OpenOrderRecord) /\ ~IsExec(report)
      BY DEF IsExec, OpenOrderRecord, StatusRecord, NoRecord
    <3>4. callbacks' = <<OpenOrderRecord, report>> \/ callbacks' = <<>>
      BY <1>1 DEF TapConnects
    <3> HIDE DEF report
    <3> QED BY <3>1, <3>3, <3>4
  <2>3. ExecsKnown(more, execs) /\ ExecsApart(more)
    BY <2>2 DEF ExecsKnown, ExecsApart
  <2>4. NeverBoth(file, more)
    BY <2>2 DEF NeverBoth
  <2>5. ToldOnce(file, more, execs)
    BY <2>3, <2>4 DEF ToldOnce, CountInv
  <2> QED BY <1>1, <2>2, <2>5 DEF TapConnects, CountInv, gateway_vars, run_vars
<1>2. ASSUME TapWrites PROVE CountInv'
  <2>1. callbacks # <<>> /\ session \in Nat
    BY <1>2, BoundsAssumption DEF TapWrites, FeedInv, TypeOK
  <2>2. PICK rec \in Record : rec = [Head(callbacks) EXCEPT !.stamp = session]
    <3>1. Head(callbacks) \in Record
      BY <1>a, <2>1, HeadTailProperties
    <3> QED BY <2>1, <3>1, Stamped
  <2>3. ToldOnce(Append(file, rec), Tail(callbacks), execs)
    BY <1>a, <2>1, <2>2, CallWritten DEF CountInv
  <2>4. ReadFrom(recs, Append(file, rec)) /\ KeysRead(seen, Append(file, rec))
    BY <1>a, LineAdded DEF CountInv
  <2> QED BY <1>2, <2>2, <2>3, <2>4 DEF TapWrites, CountInv, gateway_vars, run_vars
<1>3. ASSUME TapStops PROVE CountInv'
  <2>1. ToldOnce(file, <<>>, execs)
    BY CallsLost DEF CountInv
  <2> QED BY <1>3, <2>1 DEF TapStops, CountInv, gateway_vars, run_vars
<1> QED BY <1>1, <1>2, <1>3 DEF Tap

LEMMA RunnerCounts ==
    ASSUME FeedInv, CountInv, Runner
    PROVE  CountInv'
<1>a. /\ execs \in Seq(1..Qty) /\ file \in Seq(Record) /\ recs \in Seq(Record)
      /\ order.filled \in Nat /\ ticket.filled \in Nat
  BY QtyAssumption DEF FeedInv, TypeOK
<1>s. KeysRead({}, file) /\ ReadFrom(<<>>, file)
  <2>1. \A i \in 1..Len(<<>>) : FALSE
    OBVIOUS
  <2> QED BY <2>1 DEF KeysRead, ReadFrom
<1>1. ASSUME RunnerStarts PROVE CountInv'
  BY <1>1, <1>s DEF RunnerStarts, CountInv, FreshTicket, gateway_vars, tap_vars
<1>2. ASSUME Poll PROVE CountInv'
  <2>1. PICK s : s = SubSeq(file, cursor + 1, Len(file))
    OBVIOUS
  <2>2. ReadFrom(s, file)
    BY <2>1, NewLines DEF ReadFrom, FeedInv
  <2>3. recs' = s /\ UNCHANGED <<ticket, seen, gateway_vars, tap_vars>>
    BY <1>2, <2>1 DEF Poll
  <2> QED BY <2>2, <2>3 DEF CountInv, gateway_vars, tap_vars
<1>3. ASSUME PollNothing \/ PersistCursor \/ CollectEvents PROVE CountInv'
  BY <1>3 DEF PollNothing, PersistCursor, CollectEvents, vars, run_vars, CountInv,
              gateway_vars, tap_vars
<1>4. ASSUME ApplyRecord PROVE CountInv'
  <2>1. recs # <<>>
    BY <1>4 DEF ApplyRecord, FeedInv
  <2>2. PICK rec \in Record : rec = Head(recs)
    BY <1>a, <2>1, HeadTailProperties
  <2>3. /\ recs' = Tail(recs)
        /\ UNCHANGED <<gateway_vars, tap_vars>>
        /\ \/ UNCHANGED <<ticket, seen>>
           \/ \E e \in NewEvents(rec) :
                 /\ ticket' = Applied(ticket, e)
                 /\ seen' = IF e.type = "FILL" THEN seen \cup {Key(rec, e)} ELSE seen
    BY <1>4, <2>2 DEF ApplyRecord
  <2>4. PICK at \in 1..Len(file) : rec = file[at]
    <3>1. Head(recs) = recs[1] /\ 1 \in 1..Len(recs)
      BY <1>a, <2>1, EmptySeq
    <3> QED BY <2>2, <3>1 DEF CountInv, ReadFrom
  <2>5. ReadFrom(Tail(recs), file)
    <3>1. Len(recs) \in Nat /\ Len(Tail(recs)) = Len(recs) - 1
          /\ \A i \in 1..Len(Tail(recs)) : Tail(recs)[i] = recs[i + 1]
      BY <1>a, <2>1, HeadTailProperties, LenProperties
    <3>2. PICK rest : rest = Tail(recs)
      OBVIOUS
    <3>3. \A i \in 1..Len(rest) : i + 1 \in 1..Len(recs) /\ rest[i] = recs[i + 1]
      BY ONLY <3>1, <3>2
    <3>4. ReadFrom(recs, file)
      BY DEF CountInv
    <3>5. ReadFrom(rest, file)
      BY ONLY <3>3, <3>4 DEF ReadFrom
    <3> QED BY ONLY <3>2, <3>5
  <2>6. CASE UNCHANGED <<ticket, seen>>
    BY <2>3, <2>5, <2>6 DEF CountInv, gateway_vars, tap_vars
  <2>7. ASSUME NEW e \in NewEvents(rec), ticket' = Applied(ticket, e),
               seen' = IF e.type = "FILL" THEN seen \cup {Key(rec, e)} ELSE seen
        PROVE  CountInv'
    <3> DEFINE key == Key(rec, e)
    <3>t. TypeOK
      BY DEF FeedInv
    <3>1. /\ e.type \in {"FILL", "ACK", "CANCELLED", "REJECT"}
          /\ \/ /\ rec.type = "EXEC_DETAILS"
                /\ e.type = "FILL" /\ e.qty = rec.shares /\ e.exec = rec.exec
             \/ /\ e.type = "FILL" /\ e.qty = 0 /\ e.exec = Marker
             \/ e.type # "FILL"
          /\ e.type = "FILL" => Key(rec, e) \notin seen
      BY <3>t, NewEventsTyped
    <3>2. key.exec = e.exec /\ key.stamp = rec.stamp /\ key.qty = e.qty
      BY DEF Key
    <3>3. \/ ticket'.filled = ticket.filled
          \/ e.type = "FILL" /\ ticket'.filled = ticket.filled + e.qty
      BY <2>7, <3>1, <3>t DEF Applied, TypeOK
    <3>4. CASE e.type # "FILL"
      <4>1. seen' = seen /\ ticket'.filled = ticket.filled
        BY <2>7, <3>3, <3>4
      <4> QED BY <2>3, <2>5, <4>1 DEF CountInv, gateway_vars, tap_vars
    <3>5. CASE e.type = "FILL" /\ e.qty = 0 /\ e.exec = Marker
      <4>1. seen' = seen \cup {key} /\ ticket'.filled = ticket.filled
        BY <1>a, <2>7, <3>3, <3>5
      <4>2. KeysRead(seen \cup {key}, file)
        BY <3>2, <3>5 DEF KeysRead, CountInv
      <4>3. Tally(ticket.filled, seen \cup {key}, execs, order.filled)
        BY KeySeen DEF CountInv
      <4> HIDE DEF key
      <4> QED BY <2>3, <2>5, <4>1, <4>2, <4>3 DEF CountInv, gateway_vars, tap_vars
    <3>6. CASE rec.type = "EXEC_DETAILS" /\ e.type = "FILL" /\ e.qty = rec.shares /\ e.exec = rec.exec
      <4>1. seen' = seen \cup {key} /\ key \notin seen
        BY <2>7, <3>1, <3>6
      <4>2. IsExec(file[at]) /\ rec.exec \in 1..Len(execs) /\ rec.shares = execs[rec.exec]
        BY <2>4, <3>6 DEF CountInv, ToldOnce, ExecsKnown, IsExec
      <4>3. KeysRead(seen \cup {key}, file)
        <5>1. KeysRead({key}, file)
          BY <2>4, <3>2, <3>6, <4>2 DEF KeysRead
        <5> QED BY <5>1 DEF KeysRead, CountInv
      <4>4. ASSUME NEW other \in seen, other.exec = key.exec PROVE FALSE
        <5>1. other.exec # Marker
          <6>1. rec.exec # 0
            BY <1>a, <4>2
          <6> QED BY <3>2, <3>6, <4>4, <6>1 DEF Marker
        <5>2. PICK j \in 1..Len(file) :
                 /\ IsExec(file[j]) /\ other.exec = file[j].exec
                 /\ other.stamp = file[j].stamp /\ other.qty = file[j].shares
          BY <4>4, <5>1 DEF CountInv, KeysRead
        <5>3. j = at
          BY <2>4, <3>2, <3>6, <4>2, <4>4, <5>2 DEF CountInv, ToldOnce, ExecsApart
        <5>4. other.exec = key.exec /\ other.stamp = key.stamp /\ other.qty = key.qty
          BY <2>4, <3>2, <3>6, <4>4, <5>2, <5>3
        <5>5. other = key
          <6>1. other \in [exec : Nat, stamp : Nat, qty : 0..Qty]
            BY <3>t, <4>4 DEF TypeOK
          <6>2. key = [exec |-> key.exec, stamp |-> key.stamp, qty |-> key.qty]
            BY DEF Key
          <6> HIDE DEF key
          <6> QED BY <5>4, <6>1, <6>2
        <5> QED BY <4>1, <4>4, <5>5
      <4>5. Tally(ticket.filled + execs[key.exec], seen \cup {key}, execs, order.filled)
        <5>1. key.exec \in 1..Len(execs)
          BY <3>2, <3>6, <4>2
        <5>2. Tally(ticket.filled, seen, execs, order.filled)
          BY DEF CountInv
        <5> HIDE DEF key
        <5> QED BY <1>a, <4>4, <5>1, <5>2, ExecutionCounted
      <4>6. Tally(ticket.filled, seen \cup {key}, execs, order.filled)
        BY KeySeen DEF CountInv
      <4>7. Tally(ticket'.filled, seen \cup {key}, execs, order.filled)
        BY <3>2, <3>3, <3>6, <4>2, <4>5, <4>6
      <4> HIDE DEF key
      <4> QED BY <2>3, <2>5, <4>1, <4>3, <4>7 DEF CountInv, gateway_vars, tap_vars
    <3> QED BY <3>1, <3>4, <3>5, <3>6
  <2> QED BY <2>3, <2>6, <2>7
<1>5. ASSUME RunnerStops PROVE CountInv'
  BY <1>5, <1>s DEF RunnerStops, CountInv, FreshTicket, gateway_vars, tap_vars
<1> QED BY <1>1, <1>2, <1>3, <1>4, <1>5 DEF Runner, Step

LEMMA CountsStart == Init => CountInv
<1> SUFFICES ASSUME Init PROVE CountInv
  OBVIOUS
<1>1. /\ file = <<>> /\ callbacks = <<>> /\ recs = <<>> /\ seen = {} /\ execs = <<>>
      /\ ticket.filled = 0 /\ order.filled = 0
  BY DEF Init, FreshTicket
<1>2. Len(<<>>) = 0 /\ \A i \in 1..Len(<<>>) : FALSE
  OBVIOUS
<1>3. ToldOnce(<<>>, <<>>, <<>>) /\ ReadFrom(<<>>, <<>>) /\ KeysRead({}, <<>>)
  BY <1>2 DEF ToldOnce, ExecsKnown, ExecsApart, NeverBoth, ReadFrom, KeysRead
<1>4. Tally(0, {}, <<>>, 0)
  <2>1. PICK left : left = [k \in Nat |-> 0]
    OBVIOUS
  <2>2. left \in [Nat -> Nat] /\ \A k \in Nat : left[k] = 0
    BY <2>1
  <2>3. MayAdd(left, {}, <<>>)
    BY <1>2, <2>2 DEF MayAdd
  <2>4. 0 + left[Len(<<>>)] <= 0
    BY <1>2, <2>2
  <2> QED BY <2>3, <2>4 DEF Tally
<1> QED BY <1>1, <1>3, <1>4 DEF CountInv

\* CountInv is invariant.
LEMMA CountsKept == FeedInv /\ CountInv /\ [Next]_vars => CountInv'
<1>1. ASSUME CountInv, UNCHANGED vars PROVE CountInv'
  BY <1>1 DEF vars, CountInv, gateway_vars, tap_vars, run_vars
<1> QED BY <1>1, GatewayCounts, TapCounts, RunnerCounts DEF Next

\* FillsNotOvercounted: "to avoid double-count" (ibkr_event_normalizer_v0.py:101).
\* However often runs read the file and sessions repeat statuses, whether a runner
\* resets its cursor or not, the ticket counts no more than was filled.
THEOREM FeedCountsOnce == Spec => []FillsNotOvercounted
<1>1. Init => CountInv
  BY CountsStart
<1>2. FeedInv /\ CountInv /\ [Next]_vars => CountInv'
  BY CountsKept
<1>3. FeedInv /\ CountInv => FillsNotOvercounted
  <2> SUFFICES ASSUME FeedInv, CountInv PROVE FillsNotOvercounted
    OBVIOUS
  <2>1. execs \in Seq(1..Qty) /\ order.filled \in Nat /\ ticket.filled \in Nat
    BY QtyAssumption DEF FeedInv, TypeOK
  <2> QED BY <2>1, CountedWasFilled DEF CountInv, FillsNotOvercounted
<1> QED BY <1>1, <1>2, <1>3, FeedTyped, PTL DEF Spec

-----------------------------------------------------------------------------
(* A ticket that ends as filled is of a filled order.                        *)

Reports(s) == \E j \in 1..Len(s) : IsStatus(s[j])

\* Before the details of an execution there is a status of the order.
StatusFirst(s) ==
    \A i \in 1..Len(s) : IsExec(s[i]) => \E j \in 1..(i - 1) : IsStatus(s[j])

\* No status says more than is true.
StatusTrue(s, status) ==
    \A i \in 1..Len(s) :
        IsStatus(s[i]) /\ (s[i].status = "Filled" \/ s[i].remaining = 0) => status = "Filled"

\* The first n lines have no status.
Silent(lines, n) == \A i \in 1..n : ~IsStatus(lines[i])

\* A tap that connects while the order is open is told its status first.
StatusLines(lines, calls, status, up) ==
    /\ StatusTrue(lines, status) /\ StatusTrue(calls, status)
    /\ StatusFirst(lines)
    /\ Reports(lines) \/ StatusFirst(calls)
    /\ up /\ status = "Submitted" => Reports(lines) \/ Reports(calls)

\* New callbacks about an order that was open.
LEMMA MoreStatusAt ==
    ASSUME NEW lines, NEW calls, NEW more, NEW calls2, NEW status,
           NEW c \in Nat, NEW m \in Nat, c = Len(calls), m = Len(more),
           StatusLines(lines, calls, "Submitted", TRUE), StatusTrue(more, status),
           Len(calls2) = c + m,
           \A i \in 1..(c + m) : calls2[i] = IF i <= c THEN calls[i] ELSE more[i - c]
    PROVE  StatusLines(lines, calls2, status, TRUE)
<1>1. ASSUME NEW i \in 1..(c + m)
      PROVE  \/ i \in 1..c /\ calls2[i] = calls[i]
             \/ i - c \in 1..m /\ calls2[i] = more[i - c]
  OBVIOUS
<1>2. ASSUME NEW i \in 1..c PROVE i \in 1..(c + m) /\ calls2[i] = calls[i]
  OBVIOUS
<1>3. StatusTrue(lines, status)
  BY DEF StatusLines, StatusTrue
<1>4. StatusTrue(calls2, status)
  <2> SUFFICES ASSUME NEW i \in 1..(c + m), IsStatus(calls2[i]),
                      calls2[i].status = "Filled" \/ calls2[i].remaining = 0
               PROVE  status = "Filled"
    BY DEF StatusTrue
  <2>1. CASE i \in 1..c /\ calls2[i] = calls[i]
    BY <2>1 DEF StatusLines, StatusTrue
  <2>2. CASE i - c \in 1..m /\ calls2[i] = more[i - c]
    BY <2>2 DEF StatusTrue
  <2> QED BY <1>1, <2>1, <2>2
<1>5. Reports(lines) \/ Reports(calls)
  BY DEF StatusLines
<1>6. Reports(lines) \/ Reports(calls2)
  BY <1>2, <1>5 DEF Reports
<1>7. Reports(lines) \/ StatusFirst(calls2)
  <2> SUFFICES ASSUME ~Reports(lines), NEW i \in 1..(c + m), IsExec(calls2[i])
               PROVE  \E j \in 1..(i - 1) : IsStatus(calls2[j])
    BY DEF StatusFirst
  <2>1. PICK j \in 1..c : IsStatus(calls[j])
    BY <1>5 DEF Reports
  <2>2. CASE i \in 1..c /\ calls2[i] = calls[i]
    <3>1. StatusFirst(calls)
      BY DEF StatusLines
    <3>2. PICK k \in 1..(i - 1) : IsStatus(calls[k])
      BY <2>2, <3>1 DEF StatusFirst
    <3>3. k \in 1..c
      BY <2>2
    <3> QED BY <1>2, <3>2, <3>3
  <2>3. CASE i - c \in 1..m /\ calls2[i] = more[i - c]
    <3>1. j \in 1..(i - 1)
      BY <2>3
    <3> QED BY <1>2, <2>1, <3>1
  <2> QED BY <1>1, <2>2, <2>3
<1> QED BY <1>3, <1>4, <1>6, <1>7 DEF StatusLines

LEMMA MoreStatus ==
    ASSUME NEW lines, NEW calls, calls \in Seq(Record), NEW more, more \in Seq(Record), NEW status,
           StatusLines(lines, calls, "Submitted", TRUE), StatusTrue(more, status)
    PROVE  StatusLines(lines, calls \o more, status, TRUE)
<1>1. /\ Len(calls \o more) = Len(calls) + Len(more)
      /\ \A i \in 1..(Len(calls) + Len(more)) :
            (calls \o more)[i] = IF i <= Len(calls) THEN calls[i] ELSE more[i - Len(calls)]
  BY ConcatProperties
<1>2. Len(calls) \in Nat /\ Len(more) \in Nat
  BY LenProperties
<1>3. PICK calls2 : calls2 = calls \o more
  OBVIOUS
<1>4. /\ Len(calls2) = Len(calls) + Len(more)
      /\ \A i \in 1..(Len(calls) + Len(more)) :
            calls2[i] = IF i <= Len(calls) THEN calls[i] ELSE more[i - Len(calls)]
  BY ONLY <1>1, <1>3
<1>5. StatusLines(lines, calls2, status, TRUE)
  BY ONLY <1>2, <1>4, MoreStatusAt,
          StatusLines(lines, calls, "Submitted", TRUE), StatusTrue(more, status)
<1> QED BY ONLY <1>3, <1>5

\* The first callback becomes the last line.
LEMMA StatusWrittenAt ==
    ASSUME NEW lines, NEW calls, NEW lines2, NEW rest, NEW rec, NEW l, NEW c, NEW status, NEW up,
           FirstWritten(lines, calls, rec, lines2, rest, l, c), StatusLines(lines, calls, status, up)
    PROVE  StatusLines(lines2, rest, status, up)
<1> USE DEF FirstWritten
<1>1. ASSUME NEW i \in 1..(l + 1)
      PROVE  \/ i \in 1..l /\ lines2[i] = lines[i]
             \/ i = l + 1 /\ lines2[i] = rec
  OBVIOUS
<1>2. ASSUME NEW i \in 1..(c - 1) PROVE i + 1 \in 1..c /\ rest[i] = calls[i + 1]
  OBVIOUS
<1>3. /\ IsExec(rec) <=> IsExec(calls[1])
      /\ IsStatus(rec) <=> IsStatus(calls[1])
      /\ 1 \in 1..c
  BY DEF IsExec, IsStatus
<1>4. StatusTrue(lines2, status)
  <2> SUFFICES ASSUME NEW i \in 1..(l + 1), IsStatus(lines2[i]),
                      lines2[i].status = "Filled" \/ lines2[i].remaining = 0
               PROVE  status = "Filled"
    BY DEF StatusTrue
  <2>1. CASE i \in 1..l /\ lines2[i] = lines[i]
    BY <2>1 DEF StatusLines, StatusTrue
  <2>2. CASE lines2[i] = rec
    BY <1>3, <2>2 DEF StatusLines, StatusTrue
  <2> QED BY <1>1, <2>1, <2>2
<1>5. StatusTrue(rest, status)
  BY <1>2 DEF StatusLines, StatusTrue
<1>6. Reports(lines) => Reports(lines2)
  <2>1. \A i \in 1..l : i \in 1..(l + 1)
    OBVIOUS
  <2> QED BY <2>1 DEF Reports
<1>7. IsStatus(calls[1]) => Reports(lines2)
  <2>1. l + 1 \in 1..(l + 1)
    OBVIOUS
  <2> QED BY <1>3, <2>1 DEF Reports
<1>8. IsExec(calls[1]) => Reports(lines)
  <2>1. ASSUME NEW j \in 1..(1 - 1) PROVE FALSE
    OBVIOUS
  <2> QED BY <1>3, <2>1 DEF StatusLines, StatusFirst
<1>9. StatusFirst(lines2)
  <2> SUFFICES ASSUME NEW i \in 1..(l + 1), IsExec(lines2[i])
               PROVE  \E j \in 1..(i - 1) : IsStatus(lines2[j])
    BY DEF StatusFirst
  <2>1. CASE i \in 1..l /\ lines2[i] = lines[i]
    <3>1. PICK j \in 1..(i - 1) : IsStatus(lines[j])
      BY <2>1 DEF StatusLines, StatusFirst
    <3>2. j \in 1..l
      BY <2>1
    <3> QED BY <3>1, <3>2
  <2>2. CASE i = l + 1 /\ lines2[i] = rec
    <3>1. PICK j \in 1..l : IsStatus(lines[j])
      BY <1>3, <1>8, <2>2 DEF Reports
    <3>2. j \in 1..(i - 1)
      BY <2>2
    <3> QED BY <3>1, <3>2
  <2> QED BY <1>1, <2>1, <2>2
<1>10. Reports(lines2) \/ StatusFirst(rest)
  <2> SUFFICES ASSUME ~Reports(lines2), NEW i \in 1..(c - 1), IsExec(rest[i])
               PROVE  \E j \in 1..(i - 1) : IsStatus(rest[j])
    BY DEF StatusFirst
  <2>1. StatusFirst(calls)
    BY <1>6 DEF StatusLines
  <2>2. PICK k \in 1..i : IsStatus(calls[k])
    <3>1. IsExec(calls[i + 1]) /\ i + 1 \in 1..c
      BY <1>2
    <3>2. PICK k \in 1..(i + 1 - 1) : IsStatus(calls[k])
      BY <2>1, <3>1 DEF StatusFirst
    <3> QED BY <3>2
  <2>3. k # 1
    BY <1>7, <2>2
  <2>4. k - 1 \in 1..(i - 1) /\ k - 1 \in 1..(c - 1) /\ k - 1 + 1 = k
    BY <2>3
  <2>5. rest[k - 1] = calls[k]
    BY <2>4
  <2> QED BY <2>2, <2>4, <2>5
<1>11. up /\ status = "Submitted" => Reports(lines2) \/ Reports(rest)
  <2> SUFFICES ASSUME ~Reports(lines2), Reports(calls) PROVE Reports(rest)
    BY <1>6 DEF StatusLines
  <2>1. PICK k \in 1..c : IsStatus(calls[k])
    BY DEF Reports
  <2>2. k # 1
    BY <1>7, <2>1
  <2>3. k - 1 \in 1..(c - 1) /\ k - 1 + 1 = k
    BY <2>2
  <2>4. rest[k - 1] = calls[k]
    BY <2>3
  <2> QED BY <2>1, <2>3, <2>4 DEF Reports
<1> QED BY <1>4, <1>5, <1>9, <1>10, <1>11 DEF StatusLines

LEMMA StatusWritten ==
    ASSUME NEW lines, lines \in Seq(Record), NEW calls, calls \in Seq(Record), calls # <<>>,
           NEW status, NEW up, StatusLines(lines, calls, status, up),
           NEW n \in Nat, NEW rec, rec = [Head(calls) EXCEPT !.stamp = n]
    PROVE  StatusLines(Append(lines, rec), Tail(calls), status, up)
<1>1. FirstWritten(lines, calls, rec, Append(lines, rec), Tail(calls), Len(lines), Len(calls))
  BY TapAppends
<1> QED BY ONLY <1>1, StatusLines(lines, calls, status, up), StatusWrittenAt

\* Lines that follow lines without a status.
LEMMA NewStatusFirst ==
    ASSUME NEW lines, NEW s, NEW n \in Nat, NEW l \in Nat, l = Len(lines), n <= l,
           StatusFirst(lines), Silent(lines, n), Len(s) = l - n,
           \A i \in 1..(l - n) : s[i] = lines[n + i]
    PROVE  /\ StatusFirst(s)
           /\ ~Reports(s) => Silent(lines, l)
<1>1. StatusFirst(s)
  <2> SUFFICES ASSUME NEW i \in 1..(l - n), IsExec(s[i])
               PROVE  \E j \in 1..(i - 1) : IsStatus(s[j])
    BY DEF StatusFirst
  <2>1. n + i \in 1..l /\ IsExec(lines[n + i])
    <3>1. s[i] = lines[n + i] /\ i \in 1..(l - n)
      OBVIOUS
    <3>2. n + i \in 1..l
      BY ONLY n \in Nat, l \in Nat, i \in 1..(l - n)
    <3> QED BY ONLY <3>1, <3>2, IsExec(s[i])
  <2>2. PICK k \in 1..(n + i - 1) : IsStatus(lines[k])
    BY <2>1 DEF StatusFirst
  <2>3. ~(k \in 1..n)
    BY <2>2 DEF Silent
  <2>4. k - n \in 1..(i - 1) /\ k - n \in 1..(l - n) /\ n + (k - n) = k
    BY <2>3
  <2>5. s[k - n] = lines[k]
    BY <2>4
  <2> QED BY <2>2, <2>4, <2>5
<1>2. ASSUME ~Reports(s), NEW k \in 1..l, IsStatus(lines[k]) PROVE FALSE
  <2>1. ~(k \in 1..n)
    BY <1>2 DEF Silent
  <2>2. k - n \in 1..(l - n) /\ n + (k - n) = k
    BY <2>1
  <2>3. s[k - n] = lines[k]
    BY <2>2
  <2> QED BY <1>2, <2>2, <2>3 DEF Reports
<1> QED BY <1>1, <1>2 DEF Silent

\* The lines, and what the runner and the ticket know of the order.  While the
\* remaining quantity is unknown, no line that was read is a status, and so none of
\* them tells of an execution.
EndInv ==
    /\ order.status = "Submitted" => order.filled < Qty
    /\ StatusLines(file, callbacks, order.status, tap_up)
    /\ last_remaining = 0 => order.status = "Filled"
    /\ ticket.end = "FILLED" => order.status = "Filled"
    /\ last_remaining = Unknown =>
          /\ runner \in {"down", "idle", "applying"} => Silent(file, cursor)
          /\ runner \in {"read", "cursored"} => StatusFirst(recs)
          /\ runner \in {"read", "cursored"} /\ ~Reports(recs) => Silent(file, cursor)
          /\ runner = "applying" => \A i \in 1..Len(recs) : ~IsExec(recs[i])

\* What one step of the gateway leaves as it was.
LEMMA GatewayEnds ==
    ASSUME FeedInv, EndInv, Gateway
    PROVE  EndInv'
<1>a. /\ order \in [filled : 0..Qty, status : Statuses] /\ order.filled \in 0..Qty
      /\ callbacks \in Seq(Record) /\ tap_up \in BOOLEAN
  BY DEF FeedInv, TypeOK
<1>1. ASSUME NEW more, more \in Seq(Record), Send(more), order.status = "Submitted",
             StatusTrue(more, order'.status),
             order'.status = "Submitted" => order'.filled < Qty,
             UNCHANGED <<tap_up, session, file, file_exists, cursor_file, run_vars>>
      PROVE  EndInv'
  <2>1. StatusLines(file, callbacks', order'.status, tap_up)
    <3>1. StatusLines(file, callbacks, "Submitted", tap_up)
      BY <1>1 DEF EndInv
    <3>2. CASE tap_up
      <4>1. callbacks' = callbacks \o more
        BY <1>1, <3>2 DEF Send
      <4>2. StatusLines(file, callbacks, "Submitted", TRUE)
        BY <3>1, <3>2 DEF StatusLines
      <4>3. StatusLines(file, callbacks \o more, order'.status, TRUE)
        BY <1>a, <1>1, <4>2, MoreStatus
      <4> QED BY <3>2, <4>1, <4>3 DEF StatusLines
    <3>3. CASE ~tap_up
      <4>1. callbacks' = callbacks
        BY <1>1, <3>3 DEF Send
      <4> QED BY <3>1, <3>3, <4>1 DEF StatusLines, StatusTrue
    <3> QED BY <1>a, <3>2, <3>3
  <2> QED BY <1>1, <2>1 DEF EndInv, run_vars
<1>2. ASSUME NEW shares \in 1..Qty, GatewayFill(shares) PROVE EndInv'
  <2> DEFINE filled == order.filled + shares
             status == IF filled = Qty THEN "Filled" ELSE "Submitted"
             details == ExecRecord(Len(execs) + 1, shares)
             report == StatusRecord(status, Qty - filled)
  <2>1. /\ filled \in 0..Qty /\ Qty - filled \in 0..Qty /\ status \in Statuses
        /\ status = "Submitted" => filled < Qty
        /\ Qty - filled = 0 => status = "Filled"
    BY <1>2, <1>a, QtyAssumption DEF GatewayFill, Statuses
  <2>2. Len(execs) + 1 \in Nat /\ shares \in 0..Qty
    BY QtyAssumption DEF FeedInv, TypeOK
  <2>3. /\ order.status = "Submitted"
        /\ order' = [filled |-> filled, status |-> status]
        /\ Send(<<details, report>>) \/ Send(<<report, details>>)
        /\ UNCHANGED <<tap_up, session, file, file_exists, cursor_file, run_vars>>
    BY <1>2 DEF GatewayFill
  <2>4. details \in Record /\ ~IsStatus(details)
    <3> HIDE DEF filled, status
    <3> QED BY <2>2, RecordsTyped DEF IsStatus, ExecRecord, NoRecord
  <2>5. report \in Record /\ report.status = status /\ report.remaining = Qty - filled
    <3> HIDE DEF filled, status
    <3> QED BY <2>1, RecordsTyped DEF StatusRecord, NoRecord
  <2>6. order'.status = status /\ order'.filled = filled
    BY <2>3
  <2> HIDE DEF filled, status, details, report
  <2>7. PICK d, r : d = details /\ r = report
    OBVIOUS
  <2>8. PICK more : more \in Seq(Record) /\ Send(more) /\ (more = <<d, r>> \/ more = <<r, d>>)
    <3>1. <<d, r>> \in Seq(Record) /\ <<r, d>> \in Seq(Record)
      BY <2>4, <2>5, <2>7
    <3> QED BY ONLY <2>3, <2>7, <3>1
  <2>9. StatusTrue(more, status)
    <3>1. ~IsStatus(d) /\ (r.status = "Filled" \/ r.remaining = 0 => status = "Filled")
      BY <2>1, <2>4, <2>5, <2>7
    <3>2. Len(more) = 2 /\ \A i \in 1..2 : more[i] = d \/ more[i] = r
      <4>1. CASE more = <<d, r>>
        BY <4>1
      <4>2. CASE more = <<r, d>>
        BY <4>2
      <4> QED BY <2>8, <4>1, <4>2
    <3> QED BY ONLY <3>1, <3>2 DEF StatusTrue
  <2> QED BY <1>1, <2>1, <2>3, <2>6, <2>8, <2>9
<1>3. ASSUME GatewayCancel PROVE EndInv'
  <2>1. Qty - order.filled \in 0..Qty /\ "Cancelled" \in Statuses
    BY <1>a, QtyAssumption DEF Statuses
  <2>2. PICK rec \in Record : rec = StatusRecord("Cancelled", Qty - order.filled)
    BY <2>1, RecordsTyped
  <2>3. rec.status # "Filled" /\ rec.remaining # 0
    <3>1. order.filled < Qty
      BY <1>3 DEF GatewayCancel, EndInv
    <3>2. rec.status = "Cancelled" /\ rec.remaining = Qty - order.filled
      BY <2>2 DEF StatusRecord, NoRecord
    <3> QED BY <1>a, <3>1, <3>2, QtyAssumption
  <2>4. PICK more : more = <<rec>>
    OBVIOUS
  <2>5. more \in Seq(Record) /\ Len(more) = 1 /\ more[1] = rec
    BY <2>4
  <2>6. StatusTrue(more, order'.status)
    BY <2>3, <2>5 DEF StatusTrue
  <2>7. /\ order.status = "Submitted" /\ Send(more) /\ order'.status = "Cancelled"
        /\ UNCHANGED <<tap_up, session, file, file_exists, cursor_file, run_vars>>
    BY <1>a, <1>3, <2>2, <2>4 DEF GatewayCancel
  <2> QED BY <1>1, <2>5, <2>6, <2>7
<1>4. ASSUME GatewayRefuse PROVE EndInv'
  <2>1. PICK more \in Seq(Record) :
          /\ Send(more)
          /\ \A i \in 1..Len(more) :
                IsStatus(more[i]) => more[i].status # "Filled" /\ more[i].remaining = Qty - order.filled
    BY <1>a, <1>4, Refusals DEF IsStatus
  <2>2. Qty - order.filled # 0
    <3>1. order.filled < Qty
      BY <1>4 DEF GatewayRefuse, EndInv
    <3> QED BY <1>a, <3>1, QtyAssumption
  <2>3. StatusTrue(more, order'.status)
    BY <2>1, <2>2 DEF StatusTrue
  <2>4. /\ order.status = "Submitted" /\ order'.status = "Inactive"
        /\ UNCHANGED <<tap_up, session, file, file_exists, cursor_file, run_vars>>
    BY <1>a, <1>4 DEF GatewayRefuse
  <2> QED BY <1>1, <2>1, <2>3, <2>4
<1> QED BY <1>2, <1>3, <1>4 DEF Gateway

LEMMA TapEnds ==
    ASSUME FeedInv, EndInv, Tap
    PROVE  EndInv'
<1>a. /\ file \in Seq(Record) /\ callbacks \in Seq(Record) /\ order.filled \in 0..Qty
      /\ cursor \in 0..Len(file) /\ Len(file) \in Nat
  BY LenProperties DEF FeedInv, TypeOK
<1>1. ASSUME TapConnects PROVE EndInv'
  <2> DEFINE report == StatusRecord("Submitted", Qty - order.filled)
  <2>2. callbacks' = (IF order.status = "Submitted" THEN <<OpenOrderRecord, report>> ELSE <<>>)
    BY <1>1 DEF TapConnects
  <2>3. /\ IsStatus(report) /\ report.status = "Submitted" /\ report.remaining = Qty - order.filled
        /\ ~IsExec(report)
        /\ ~IsStatus(OpenOrderRecord) /\ ~IsExec(OpenOrderRecord)
    BY DEF IsStatus, IsExec, StatusRecord, OpenOrderRecord, NoRecord
  <2> HIDE DEF report
  <2>4. PICK calls : calls = callbacks'
    OBVIOUS
  <2>5. CASE order.status = "Submitted"
    <3>1. Len(calls) = 2 /\ calls[1] = OpenOrderRecord /\ calls[2] = report
      BY <2>2, <2>4, <2>5
    <3>2. report.remaining # 0
      <4>1. order.filled < Qty
        BY <2>5 DEF EndInv
      <4> QED BY <1>a, <2>3, <4>1, QtyAssumption
    <3>3. \A i \in 1..Len(calls) : i = 1 \/ i = 2
      BY ONLY <3>1
    <3>4. StatusTrue(calls, order.status) /\ StatusFirst(calls)
      BY ONLY <2>3, <3>1, <3>2, <3>3 DEF StatusTrue, StatusFirst
    <3>5. Reports(calls)
      BY ONLY <2>3, <3>1 DEF Reports
    <3>6. StatusLines(file, calls, order.status, TRUE)
      BY <3>4, <3>5 DEF StatusLines, EndInv
    <3> QED BY <1>1, <2>4, <3>6 DEF TapConnects, EndInv, gateway_vars, run_vars
  <2>6. CASE order.status # "Submitted"
    <3>1. \A i \in 1..Len(calls) : FALSE
      BY <2>2, <2>4, <2>6
    <3>2. StatusTrue(calls, order.status) /\ StatusFirst(calls)
      BY <3>1 DEF StatusTrue, StatusFirst
    <3>3. StatusLines(file, calls, order.status, TRUE)
      BY <2>6, <3>2 DEF StatusLines, EndInv
    <3> QED BY <1>1, <2>4, <3>3 DEF TapConnects, EndInv, gateway_vars, run_vars
  <2> QED BY <2>5, <2>6
<1>2. ASSUME TapWrites PROVE EndInv'
  <2>1. callbacks # <<>> /\ session \in Nat
    BY <1>2, BoundsAssumption DEF TapWrites, FeedInv, TypeOK
  <2>2. PICK rec \in Record : rec = [Head(callbacks) EXCEPT !.stamp = session]
    <3>1. Head(callbacks) \in Record
      BY <1>a, <2>1, HeadTailProperties
    <3> QED BY <2>1, <3>1, Stamped
  <2>3. StatusLines(Append(file, rec), Tail(callbacks), order.status, tap_up)
    BY <1>a, <2>1, <2>2, StatusWritten DEF EndInv
  <2>4. Silent(file, cursor) => Silent(Append(file, rec), cursor)
    <3>1. \A i \in 1..Len(file) : Append(file, rec)[i] = file[i]
      BY <1>a, AppendProperties
    <3>2. \A i \in 1..cursor : i \in 1..Len(file)
      BY <1>a
    <3>3. PICK lines2 : lines2 = Append(file, rec)
      OBVIOUS
    <3>4. \A i \in 1..cursor : lines2[i] = file[i]
      BY ONLY <3>1, <3>2, <3>3
    <3>5. Silent(file, cursor) => Silent(lines2, cursor)
      BY ONLY <3>4 DEF Silent
    <3> QED BY ONLY <3>3, <3>5
  <2>5. /\ file' = Append(file, rec) /\ callbacks' = Tail(callbacks)
        /\ UNCHANGED <<order, tap_up, runner, cursor, recs, last_remaining, ticket>>
    BY <1>2, <2>2 DEF TapWrites, gateway_vars, run_vars
  <2> QED BY <2>3, <2>4, <2>5 DEF EndInv
<1>3. ASSUME TapStops PROVE EndInv'
  <2>1. \A i \in 1..Len(<<>>) : FALSE
    OBVIOUS
  <2>2. StatusLines(file, <<>>, order.status, FALSE)
    BY <2>1 DEF StatusLines, StatusTrue, StatusFirst, EndInv
  <2> QED BY <1>3, <2>2 DEF TapStops, EndInv, gateway_vars, run_vars
<1> QED BY <1>1, <1>2, <1>3 DEF Tap

LEMMA RunnerEnds ==
    ASSUME ResetsCursor, FeedInv, CountInv, EndInv, Runner
    PROVE  EndInv'
<1>a. /\ file \in Seq(Record) /\ recs \in Seq(Record) /\ Len(file) \in Nat
      /\ cursor \in 0..Len(file)
  BY LenProperties DEF FeedInv, TypeOK
<1>t. TypeOK
  BY DEF FeedInv
<1>s. Silent(file, 0)
  BY DEF Silent
<1>r. ASSUME NEW i \in 1..Len(recs), IsStatus(recs[i]),
             recs[i].status = "Filled" \/ recs[i].remaining = 0
      PROVE  order.status = "Filled"
  <2>1. PICK j \in 1..Len(file) : recs[i] = file[j]
    BY <1>r DEF CountInv, ReadFrom
  <2> QED BY <1>r, <2>1 DEF EndInv, StatusLines, StatusTrue
<1>1. ASSUME RunnerStarts PROVE EndInv'
  <2>1. cursor' = 0 /\ runner' = "idle" /\ ticket'.end = "None" /\ last_remaining' = Unknown
    BY <1>1 DEF RunnerStarts, FreshTicket
  <2>2. UNCHANGED <<order, file, callbacks, tap_up>>
    BY <1>1 DEF RunnerStarts, gateway_vars, tap_vars
  <2> QED BY <1>s, <2>1, <2>2 DEF EndInv, Unknown
<1>2. ASSUME Poll PROVE EndInv'
  <2>1. PICK s : s = SubSeq(file, cursor + 1, Len(file))
    OBVIOUS
  <2>2. /\ recs' = s /\ cursor' = Len(file) /\ runner' = "read"
        /\ UNCHANGED <<order, file, callbacks, tap_up, last_remaining, ticket>>
    BY <1>2, <2>1 DEF Poll, gateway_vars, tap_vars
  <2>3. last_remaining = Unknown =>
           StatusFirst(s) /\ (~Reports(s) => Silent(file, Len(file)))
    <3> SUFFICES ASSUME last_remaining = Unknown
                 PROVE StatusFirst(s) /\ (~Reports(s) => Silent(file, Len(file)))
      OBVIOUS
    <3>1. Silent(file, cursor) /\ StatusFirst(file)
      BY <1>2 DEF Poll, EndInv, StatusLines
    <3>2. /\ cursor \in Nat /\ Len(file) \in Nat /\ cursor <= Len(file)
          /\ Len(s) = Len(file) - cursor
          /\ \A i \in 1..(Len(file) - cursor) : s[i] = file[cursor + i]
      BY <1>a, <1>t, <2>1, NewLines
    <3> QED BY ONLY <3>1, <3>2, NewStatusFirst
  <2> QED BY <2>2, <2>3 DEF EndInv
<1>3. ASSUME PollNothing PROVE EndInv'
  BY <1>3 DEF PollNothing, vars, EndInv, gateway_vars, tap_vars, run_vars
<1>4. ASSUME PersistCursor PROVE EndInv'
  BY <1>4 DEF PersistCursor, EndInv, gateway_vars, tap_vars
<1>5. ASSUME CollectEvents PROVE EndInv'
  <2>1. /\ last_remaining' = Remaining(recs)
        /\ runner' = IF recs = <<>> THEN "idle" ELSE "applying"
        /\ UNCHANGED <<order, file, callbacks, tap_up, cursor, recs, ticket>>
        /\ runner = "cursored"
    BY <1>5 DEF CollectEvents, gateway_vars, tap_vars
  <2>2. CASE ~Reports(recs) /\ Remaining(recs) = last_remaining
    <3>1. last_remaining = Unknown =>
             Silent(file, cursor) /\ \A i \in 1..Len(recs) : ~IsExec(recs[i])
      BY <2>1, <2>2 DEF EndInv, StatusFirst, Reports
    <3> QED BY <2>1, <2>2, <3>1 DEF EndInv
  <2>3. ASSUME NEW k \in 1..Len(recs), IsStatus(recs[k]), Remaining(recs) = recs[k].remaining
        PROVE  EndInv'
    <3>1. recs[k].remaining \in 0..Qty
      BY <1>a, ElementOfSeq, RecordParts
    <3>2. Remaining(recs) # Unknown
      BY <2>3, <3>1, QtyAssumption DEF Unknown
    <3>3. Remaining(recs) = 0 => order.status = "Filled"
      BY <1>r, <2>3
    <3> QED BY <2>1, <3>2, <3>3 DEF EndInv
  <2> QED BY <1>a, <2>2, <2>3, RemainingFacts DEF Reports, IsStatus
<1>6. ASSUME ApplyRecord PROVE EndInv'
  <2>1. recs # <<>> /\ runner = "applying"
    BY <1>6 DEF ApplyRecord, FeedInv
  <2>2. PICK rec \in Record : rec = Head(recs) /\ rec = recs[1] /\ 1 \in 1..Len(recs)
    BY <1>a, <2>1, HeadTailProperties, EmptySeq
  <2>3. /\ recs' = Tail(recs)
        /\ runner' \in {"idle", "applying"}
        /\ UNCHANGED <<order, file, callbacks, tap_up, cursor, last_remaining>>
        /\ \/ UNCHANGED ticket
           \/ \E e \in NewEvents(rec) : ticket' = Applied(ticket, e)
    BY <1>6, <2>2 DEF ApplyRecord, gateway_vars, tap_vars
  <2>4. ticket'.end = "FILLED" => order.status = "Filled"
    <3>1. CASE UNCHANGED ticket
      BY <3>1 DEF EndInv
    <3>2. ASSUME NEW e \in NewEvents(rec), ticket' = Applied(ticket, e), ticket'.end = "FILLED"
          PROVE  order.status = "Filled"
      <4>1. /\ e.type \in {"FILL", "ACK", "CANCELLED", "REJECT"} /\ e.remaining \in 0..Qty
            /\ \/ /\ rec.type = "EXEC_DETAILS"
                  /\ e.remaining = IF last_remaining # Unknown THEN last_remaining ELSE 0
               \/ rec.type = "ORDER_STATUS" /\ rec.status = "Filled"
               \/ e.type # "FILL"
        BY <1>t, NewEventsTyped
      <4>2. ticket \in [filled : Nat, remaining : 0..Qty,
                        end : {"None", "FILLED", "CANCELLED", "FAILED"}]
        BY <1>t DEF TypeOK
      <4>3. ticket.end = "FILLED" \/ (e.type = "FILL" /\ ~(e.remaining > 0))
        BY <3>2, <4>1, <4>2 DEF Applied
      <4>4. CASE ticket.end = "FILLED"
        BY <4>4 DEF EndInv
      <4>5. CASE /\ rec.type = "EXEC_DETAILS" /\ ~(e.remaining > 0)
                 /\ e.remaining = IF last_remaining # Unknown THEN last_remaining ELSE 0
        <5>1. last_remaining # Unknown
          BY <2>1, <2>2, <4>5 DEF EndInv, IsExec
        <5>2. last_remaining = 0
          BY <4>1, <4>5, <5>1, QtyAssumption
        <5> QED BY <5>2 DEF EndInv
      <4>6. CASE rec.type = "ORDER_STATUS" /\ rec.status = "Filled"
        BY <1>r, <2>2, <4>6 DEF IsStatus
      <4> QED BY <4>1, <4>3, <4>4, <4>5, <4>6
    <3> QED BY <2>3, <3>1, <3>2
  <2>5. (\A i \in 1..Len(recs) : ~IsExec(recs[i])) => \A i \in 1..Len(Tail(recs)) : ~IsExec(Tail(recs)[i])
    <3>1. /\ Len(recs) \in Nat /\ Len(Tail(recs)) = Len(recs) - 1
          /\ \A i \in 1..Len(Tail(recs)) : Tail(recs)[i] = recs[i + 1]
      BY <1>a, <2>1, HeadTailProperties, LenProperties
    <3>2. PICK rest : rest = Tail(recs)
      OBVIOUS
    <3>3. \A i \in 1..Len(rest) : i + 1 \in 1..Len(recs) /\ rest[i] = recs[i + 1]
      BY ONLY <3>1, <3>2
    <3> QED BY ONLY <3>2, <3>3
  <2> QED BY <2>1, <2>3, <2>4, <2>5 DEF EndInv
<1>7. ASSUME RunnerStops PROVE EndInv'
  <2>1. cursor' = 0 /\ runner' = "down" /\ ticket'.end = "None" /\ last_remaining' = Unknown
    BY <1>7 DEF RunnerStops, FreshTicket
  <2>2. UNCHANGED <<order, file, callbacks, tap_up>>
    BY <1>7 DEF RunnerStops, gateway_vars, tap_vars
  <2> QED BY <1>s, <2>1, <2>2 DEF EndInv, Unknown
<1> QED BY <1>1, <1>2, <1>3, <1>4, <1>5, <1>6, <1>7 DEF Runner, Step

\* EndedFillIsReal: a ticket never ends as filled, by the placeholder of a delta
\* fill or by any other line, before its order is filled; provided the runner reads
\* the file from its start (--reset-cursor): details of an execution that no status
\* precedes are taken for the last one (run feed_resume).
THEOREM FilledEndsAreReal ==
    ASSUME ResetsCursor
    PROVE  Spec => []EndedFillIsReal
<1>1. ASSUME Init PROVE EndInv
  <2>1. /\ order.filled = 0 /\ order.status = "Submitted" /\ file = <<>> /\ callbacks = <<>>
        /\ tap_up = FALSE /\ last_remaining = Unknown /\ ticket.end = "None"
        /\ runner = "down" /\ cursor = 0
    BY <1>1 DEF Init, FreshTicket
  <2>2. Len(<<>>) = 0 /\ \A i \in 1..Len(<<>>) : FALSE
    OBVIOUS
  <2>3. StatusLines(<<>>, <<>>, "Submitted", FALSE)
    BY <2>2 DEF StatusLines, StatusTrue, StatusFirst
  <2>4. Silent(<<>>, 0)
    BY DEF Silent
  <2>5. StatusLines(file, callbacks, order.status, tap_up) /\ Silent(file, cursor)
    BY ONLY <2>1, <2>3, <2>4
  <2>6. 0 < Qty
    BY QtyAssumption
  <2>7. runner \notin {"read", "cursored"} /\ runner # "applying" /\ last_remaining # 0
    BY <2>1 DEF Unknown
  <2> QED BY ONLY <2>1, <2>5, <2>6, <2>7 DEF EndInv
<1>2. FeedInv /\ CountInv /\ EndInv /\ [Next]_vars => EndInv'
  <2>1. ASSUME EndInv, UNCHANGED vars PROVE EndInv'
    BY <2>1 DEF vars, EndInv, gateway_vars, tap_vars, run_vars
  <2> QED BY <2>1, GatewayEnds, TapEnds, RunnerEnds DEF Next
<1>3. EndInv => EndedFillIsReal
  BY DEF EndInv, EndedFillIsReal
<1>4. Init => CountInv
  BY CountsStart
<1>5. FeedInv /\ CountInv /\ [Next]_vars => CountInv'
  BY CountsKept
<1> QED BY <1>1, <1>2, <1>3, <1>4, <1>5, FeedTyped, PTL DEF Spec

=============================================================================
