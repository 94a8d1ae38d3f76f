------------------------------ MODULE EventFeed ------------------------------
(***************************************************************************)
(* How broker events reach the engine in a live run.                       *)
(*                                                                         *)
(* The tap (args_core/ibkr_event_tap_v0.py) writes each callback of the    *)
(* gateway as a line of a JSONL file.  A runner (soak_stage7_v1.py,        *)
(* demo_ibkr_lifecycle_v0.py) adopts one order in an engine that starts    *)
(* from nothing, and at every step reads the new lines with JsonlTailer,   *)
(* persists the tailer's cursor, turns the lines into events               *)
(* (ibkr_event_normalizer_v0.py, IbkrFileAdapterV0.poll_events) and        *)
(* applies them to the order's ticket, one after the other.  The gateway   *)
(* and the tap go on meanwhile.                                            *)
(*                                                                         *)
(* Abstractions.  One order; lines about other orders match no ticket.     *)
(* A line is one record: a position in the file counts records.  ts_utc is *)
(* the tap's session: within a session executions differ by execId, and    *)
(* two sessions are more than a second apart.  A ticket that ends FILLED   *)
(* or DONE, by the positions file, ends "FILLED" here.  The symbol cache,  *)
(* ERROR lines that are information, health files and positions are left   *)
(* out.                                                                    *)
(***************************************************************************)
EXTENDS Integers, Sequences

CONSTANTS
    Qty,               \* quantity of the adopted order
    ResetsCursor,      \* whether the runner is given --reset-cursor
    MaxSessions,       \* bound: times the tap connects
    MaxRuns            \* bound: times the runner starts

ASSUME QtyAssumption == Qty \in Nat \ {0}
ASSUME BoundsAssumption == MaxSessions \in Nat /\ MaxRuns \in Nat

VARIABLES
    order,        \* the gateway's order: filled, status
    execs,        \* the gateway's executions of it: shares, in order
    callbacks,    \* sent to the tap, not handled yet
    tap_up,
    session,      \* how many times the tap has connected
    file_exists,  \* whether the events file exists
    file,         \* the events file: a sequence of records
    cursor_file,  \* the persisted cursor
    runner,       \* down, idle, read (lines read), cursored (and cursor persisted),
                  \* applying
    runs,         \* how many times the runner has started
    tailing,      \* the adapter has a tailer
    cursor,       \* the tailer's cursor
    recs,         \* lines that poll() has read, not applied yet
    last_remaining, \* _last_remaining_by_order_id of the order
    ticket,       \* the order's ticket
    seen          \* the engine's fill de-duplication keys

gateway_vars == <<order, execs>>
tap_vars == <<callbacks, tap_up, session, file, file_exists>>
run_vars == <<runner, runs, tailing, cursor, recs, last_remaining, ticket, seen>>
vars == <<gateway_vars, tap_vars, cursor_file, run_vars>>

Unknown == -1        \* no ORDER_STATUS seen
Marker == 0          \* in the place of an execId: the reason "filled"
Statuses == {"Submitted", "Filled", "Cancelled", "Inactive"}

FreshTicket == [filled |-> 0, remaining |-> Qty, end |-> "None"]

-----------------------------------------------------------------------------
(* Records, as the tap writes them.                                         *)

Record == [type : {"ORDER_STATUS", "OPEN_ORDER", "EXEC_DETAILS", "ERROR"},
           status : Statuses \cup {"None"}, remaining : 0..Qty,
           exec : Nat, shares : 0..Qty, stamp : Nat]

NoRecord == [type |-> "ERROR", status |-> "None", remaining |-> 0,
             exec |-> 0, shares |-> 0, stamp |-> 0]

\* orderStatus
StatusRecord(status, remaining) ==
    [NoRecord EXCEPT !.type = "ORDER_STATUS", !.status = status, !.remaining = remaining]

\* execDetails of the k-th execution
ExecRecord(k, shares) == [NoRecord EXCEPT !.type = "EXEC_DETAILS", !.exec = k, !.shares = shares]

\* openOrder
OpenOrderRecord == [NoRecord EXCEPT !.type = "OPEN_ORDER"]

\* error: the order's id is written as reqId, and nowhere else
ErrorRecord == NoRecord

-----------------------------------------------------------------------------
(* The gateway.                                                             *)

\* What the gateway says goes to the tap that is connected, or is lost.
Send(records) ==
    callbacks' = IF tap_up THEN callbacks \o records ELSE callbacks

\* An execution, reported by execDetails and orderStatus in either order.
GatewayFill(shares) ==
    /\ order.status = "Submitted"
    /\ LET filled == order.filled + shares
           status == IF filled = Qty THEN "Filled" ELSE "Submitted"
           details == ExecRecord(Len(execs) + 1, shares)
           report == StatusRecord(status, Qty - filled)
       IN  /\ filled <= Qty
           /\ order' = [filled |-> filled, status |-> status]
           /\ execs' = Append(execs, shares)
           /\ Send(<<details, report>>) \/ Send(<<report, details>>)
    /\ UNCHANGED <<tap_up, session, file, file_exists, cursor_file, run_vars>>

GatewayCancel ==
    /\ order.status = "Submitted"
    /\ order' = [order EXCEPT !.status = "Cancelled"]
    /\ Send(<<StatusRecord("Cancelled", Qty - order.filled)>>)
    /\ UNCHANGED <<execs, tap_up, session, file, file_exists, cursor_file, run_vars>>

\* A refusal comes as an error callback with code 201, as the status Inactive
\* (or Rejected), or as both.
GatewayRefuse ==
    /\ order.status = "Submitted"
    /\ order' = [order EXCEPT !.status = "Inactive"]
    /\ LET report == StatusRecord("Inactive", Qty - order.filled)
       IN  \E records \in {<<ErrorRecord>>, <<report>>, <<ErrorRecord, report>>, <<report, ErrorRecord>>} :
              Send(records)
    /\ UNCHANGED <<execs, tap_up, session, file, file_exists, cursor_file, run_vars>>

-----------------------------------------------------------------------------
(* The tap.                                                                 *)

\* nextValidId asks for open orders.  It asks for executions as well, with the
\* filter None: ibapi looks into the filter, the error is swallowed
\* (ibkr_event_tap_v0.py:75-78), and nothing is sent.
TapConnects ==
    /\ ~tap_up /\ session < MaxSessions
    /\ tap_up' = TRUE
    /\ session' = session + 1
    /\ callbacks' = IF order.status = "Submitted"
                    THEN <<OpenOrderRecord, StatusRecord("Submitted", Qty - order.filled)>>
                    ELSE <<>>
    /\ UNCHANGED <<gateway_vars, file, file_exists, cursor_file, run_vars>>

\* _write_event, under the tap's lock.
TapWrites ==
    /\ tap_up /\ callbacks # <<>>
    /\ file' = Append(file, [Head(callbacks) EXCEPT !.stamp = session])
    /\ file_exists' = TRUE
    /\ callbacks' = Tail(callbacks)
    /\ UNCHANGED <<gateway_vars, tap_up, session, cursor_file, run_vars>>

\* The tap's time is over, or it dies; another one will be started.
TapStops ==
    /\ tap_up /\ session < MaxSessions
    /\ tap_up' = FALSE
    /\ callbacks' = <<>>
    /\ UNCHANGED <<gateway_vars, session, file, file_exists, cursor_file, run_vars>>

-----------------------------------------------------------------------------
(* From lines to events.                                                    *)

\* _apply_event reads no more of an event than this.
Event(type, qty, remaining, exec) ==
    [type |-> type, qty |-> qty, remaining |-> remaining, exec |-> exec]

\* The event of an execution.
ExecEvents(rec) == IF rec.shares > 0 THEN {Event("FILL", rec.shares, 0, rec.exec)} ELSE {}

\* Mutant: a status that reports something filled counts as a fill.
NormalizedMutant(rec) ==
    CASE rec.type = "EXEC_DETAILS" -> ExecEvents(rec)
      [] rec.type = "ORDER_STATUS" /\ rec.remaining < Qty ->
            {Event("FILL", Qty - rec.remaining, rec.remaining, Marker)}
      [] OTHER -> {}

\* Mutant: the status Filled is taken for information.
NormalizedNoMarkerMutant(rec) ==
    CASE rec.type = "EXEC_DETAILS" -> ExecEvents(rec)
      [] rec.type = "ORDER_STATUS" /\ rec.status = "Cancelled" ->
            {Event("CANCELLED", 0, rec.remaining, Marker)}
      [] rec.type = "ORDER_STATUS" /\ rec.status = "Inactive" ->
            {Event("REJECT", 0, rec.remaining, Marker)}
      [] OTHER -> {}

\* normalize_ibkr_record: the event of a record, if it has one.  OPEN_ORDER has
\* none; an ERROR record has none because it carries no order id.
Normalized(rec) ==
    CASE rec.type = "EXEC_DETAILS" -> ExecEvents(rec)
      [] rec.type = "ORDER_STATUS" /\ rec.status = "Submitted" ->
            {Event("ACK", 0, rec.remaining, Marker)}
      [] rec.type = "ORDER_STATUS" /\ rec.status = "Filled" ->
            {Event("FILL", 0, 0, Marker)}
      [] rec.type = "ORDER_STATUS" /\ rec.status = "Cancelled" ->
            {Event("CANCELLED", 0, rec.remaining, Marker)}
      [] rec.type = "ORDER_STATUS" /\ rec.status = "Inactive" ->
            {Event("REJECT", 0, rec.remaining, Marker)}
      [] OTHER -> {}

\* Pass 1 of poll_events: the remaining quantity of the batch's last status.
Remaining(batch) ==
    LET reports == {k \in DOMAIN batch : batch[k].type = "ORDER_STATUS"} IN
    IF reports = {} THEN last_remaining
    ELSE batch[CHOOSE k \in reports : \A other \in reports : other <= k].remaining

\* Mutant: the placeholder of a delta fill is left as it is.
PatchedMutant(rec, e) == e

\* Pass 2: a delta fill gets the remaining quantity that is known, if any is.
Patched(rec, e) ==
    IF rec.type = "EXEC_DETAILS" /\ last_remaining # Unknown
    THEN [e EXCEPT !.remaining = last_remaining]
    ELSE e

\* Engine._apply_event for the adopted ticket.
Applied(t, e) ==
    CASE t.end # "None" \/ e.type = "ACK" -> t
      [] t.end = "None" /\ e.type = "CANCELLED" -> [t EXCEPT !.end = "CANCELLED"]
      [] t.end = "None" /\ e.type = "REJECT" -> [t EXCEPT !.end = "FAILED"]
      [] t.end = "None" /\ e.type = "FILL" ->
            [filled |-> t.filled + e.qty, remaining |-> e.remaining,
             end |-> IF e.remaining > 0 THEN "None" ELSE "FILLED"]

Key(rec, e) == [exec |-> e.exec, stamp |-> rec.stamp, qty |-> e.qty]

\* The event of a record, unless it is a fill that the engine has seen.
NewEvents(rec) ==
    {e \in {Patched(rec, n) : n \in Normalized(rec)} :
        e.type = "FILL" => Key(rec, e) \notin seen}

-----------------------------------------------------------------------------
(* The runner.                                                              *)

\* main: an adapter with a tailer if the file exists, an engine without state,
\* and the order adopted with its full quantity.
RunnerStarts ==
    /\ runner = "down" /\ runs < MaxRuns
    /\ runs' = runs + 1
    /\ cursor_file' = IF ResetsCursor THEN 0 ELSE cursor_file
    /\ cursor' = cursor_file'
    /\ tailing' = file_exists
    /\ last_remaining' = Unknown
    /\ ticket' = FreshTicket
    /\ seen' = {}
    /\ runner' = "idle"
    /\ UNCHANGED <<recs, gateway_vars, tap_vars>>

\* An adapter without a tailer has no events: the step changes nothing.
PollNothing ==
    /\ runner = "idle" /\ ~tailing
    /\ UNCHANGED vars

\* Mutant: one line too many is taken for read.
PollMutant ==
    /\ runner = "idle" /\ tailing
    /\ recs' = SubSeq(file, cursor + 1, Len(file))
    /\ cursor' = Len(file) + 1
    /\ runner' = "read"
    /\ UNCHANGED <<runs, tailing, last_remaining, ticket, seen, gateway_vars, tap_vars, cursor_file>>

\* JsonlTailer.poll reads to the end of the file ...
Poll ==
    /\ runner = "idle" /\ tailing
    /\ recs' = SubSeq(file, cursor + 1, Len(file))
    /\ cursor' = Len(file)
    /\ runner' = "read"
    /\ UNCHANGED <<runs, tailing, last_remaining, ticket, seen, gateway_vars, tap_vars, cursor_file>>

\* ... and persists its cursor, before any line is applied.
PersistCursor ==
    /\ runner = "read"
    /\ cursor_file' = cursor
    /\ runner' = "cursored"
    /\ UNCHANGED <<runs, tailing, cursor, recs, last_remaining, ticket, seen, gateway_vars, tap_vars>>

\* Pass 1 of poll_events, over all the lines.
CollectEvents ==
    /\ runner = "cursored"
    /\ last_remaining' = Remaining(recs)
    /\ runner' = IF recs = <<>> THEN "idle" ELSE "applying"
    /\ UNCHANGED <<runs, tailing, cursor, recs, ticket, seen, gateway_vars, tap_vars, cursor_file>>

\* Pass 2, and the loop of Engine.step, for the next line.
ApplyRecord ==
    /\ runner = "applying"
    /\ LET rec == Head(recs) IN
       \/ NewEvents(rec) = {} /\ UNCHANGED <<ticket, seen>>
       \/ \E e \in NewEvents(rec) :
             /\ ticket' = Applied(ticket, e)
             /\ seen' = IF e.type = "FILL" THEN seen \cup {Key(rec, e)} ELSE seen
    /\ recs' = Tail(recs)
    /\ runner' = IF Tail(recs) = <<>> THEN "idle" ELSE "applying"
    /\ UNCHANGED <<runs, tailing, cursor, last_remaining, gateway_vars, tap_vars, cursor_file>>

\* The run is over, or dies; another one will be started.
RunnerStops ==
    /\ runner # "down" /\ runs < MaxRuns
    /\ runner' = "down"
    /\ tailing' = FALSE
    /\ cursor' = 0
    /\ recs' = <<>>
    /\ last_remaining' = Unknown
    /\ ticket' = FreshTicket
    /\ seen' = {}
    /\ UNCHANGED <<runs, gateway_vars, tap_vars, cursor_file>>

-----------------------------------------------------------------------------

Init ==
    /\ order = [filled |-> 0, status |-> "Submitted"]
    /\ execs = <<>>
    /\ callbacks = <<>> /\ tap_up = FALSE /\ session = 0
    /\ file = <<>> /\ cursor_file = 0
    /\ file_exists \in BOOLEAN      \* an earlier day may have left it
    /\ runner = "down" /\ runs = 0 /\ tailing = FALSE
    /\ cursor = 0 /\ recs = <<>>
    /\ last_remaining = Unknown
    /\ ticket = FreshTicket
    /\ seen = {}

Gateway == (\E shares \in 1..Qty : GatewayFill(shares)) \/ GatewayCancel \/ GatewayRefuse
Tap == TapConnects \/ TapWrites \/ TapStops
Step == Poll \/ PollNothing \/ PersistCursor \/ CollectEvents \/ ApplyRecord
Runner == RunnerStarts \/ Step \/ RunnerStops

Next == Gateway \/ Tap \/ Runner

Spec == Init /\ [][Next]_vars

\* A scheduled task starts the tap every minute (ARGS_IBKR_Tap_1m), and an operator
\* the runner again; a tap that is up handles its callbacks; a runner that is up
\* goes on stepping, until its --seconds are over.
FeedFairness ==
    /\ WF_vars(TapConnects)
    /\ WF_vars(TapWrites)
    /\ WF_vars(RunnerStarts)
    /\ WF_vars(Step)
    /\ WF_vars(RunnerStops)

FairSpec == Spec /\ FeedFairness

-----------------------------------------------------------------------------
(* Properties.                                                              *)

\* Types, and that no cursor is ahead of the file (JsonlTailer).
TypeOK ==
    /\ order \in [filled : 0..Qty, status : Statuses]
    /\ execs \in Seq(1..Qty)
    /\ callbacks \in Seq(Record)
    /\ tap_up \in BOOLEAN /\ session \in 0..MaxSessions
    /\ file \in Seq(Record) /\ file_exists \in BOOLEAN
    /\ cursor_file \in 0..Len(file)
    /\ runner \in {"down", "idle", "read", "cursored", "applying"} /\ runs \in 0..MaxRuns
    /\ tailing \in BOOLEAN
    /\ cursor \in 0..Len(file)
    /\ recs \in Seq(Record)
    /\ last_remaining \in 0..Qty \cup {Unknown}
    /\ ticket \in [filled : Nat, remaining : 0..Qty,
                   end : {"None", "FILLED", "CANCELLED", "FAILED"}]
    /\ seen \in SUBSET [exec : Nat, stamp : Nat, qty : 0..Qty]

\* "to avoid double-count" (ibkr_event_normalizer_v0.py:101, ibkr_file_adapter_v0.py:253):
\* an execution is reported by its details and by statuses, by several sessions of
\* the tap, and is read again by every run; it is counted once.
FillsNotOvercounted == ticket.filled <= order.filled

\* A ticket ends as filled only when its order is filled: neither the placeholder
\* of a delta fill nor a status that is older or newer than the fill ends it early.
EndedFillIsReal == ticket.end = "FILLED" => order.status = "Filled"

\* An end of the order that the tap has written ends the ticket, through every
\* restart of the runner, unless the last run began before there was a file.
WrittenClosed == \E k \in DOMAIN file : file[k].status \in {"Filled", "Cancelled", "Inactive"}
BlindRun == runs = MaxRuns /\ runner # "down" /\ ~tailing

ClosedOrderEndsTicket == WrittenClosed ~> ticket.end # "None" \/ BlindRun

=============================================================================
