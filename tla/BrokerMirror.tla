---------------------------- MODULE BrokerMirror ----------------------------
(***************************************************************************)
(* AlphaLab's mirror of a venue: BrokerState with the reports applied to   *)
(* it (broker/lifecycle.py, broker/reconciliation.py), and the ledger of   *)
(* cancel and amendment requests (broker/requests.py).                     *)
(*                                                                         *)
(* The venue and the network are external.  The venue keeps its own order  *)
(* records and sends one report per thing that happens to them; a report,  *)
(* once sent, may be delivered at any later time, in any order, and again. *)
(* The session may drop and come back, and a request may never arrive.     *)
(*                                                                         *)
(* A report is [kind, order, quantity, seq, at]: an amendment's quantity   *)
(* is the new total (its price travels with it), an account report's is    *)
(* the absolute value; seq is the venue's number, 0 when it gives none; at *)
(* is the venue's clock and, for a fill, the execution_id.                 *)
(***************************************************************************)
EXTENDS OrderLifecycle, FiniteSets, Sums

CONSTANTS
    Orders,             \* broker_order_ids
    AccountKeys,        \* the account's absolute values: positions, the balances
    MaxQuantity,        \* quantities ordered or asked for are 1..MaxQuantity
    MaxAttempts,        \* cancel attempts of one order
    MaxRevisions,       \* amendments of one order
    MaxClock,           \* bound on what the venue does of its own accord
    MaxSessions,        \* bound on reconnections
    Redelivered,        \* kinds of report the network may deliver again
    Unnumbered,         \* TRUE if the venue may leave an account report unnumbered
    LosesRequests       \* TRUE if a request may be lost on its way

ASSUME MirrorBounds ==
    /\ {MaxQuantity, MaxAttempts, MaxRevisions, MaxClock, MaxSessions} \subseteq Nat
    /\ {Unnumbered, LosesRequests} \subseteq BOOLEAN

\* The account's values are not kinds of report about an order.
ASSUME AccountKeysNamed == AccountKeys \cap OrderEventKinds = {}

VARIABLES
    orders,             \* BrokerState.orders
    executions,         \* BrokerState.executions: execution_id -> fill
    account,            \* BrokerState.positions and .account
    venue_sequences,    \* entity -> number of the last absolute report applied
    connected,          \* BrokerState.connection_status
    issued,             \* RequestLedger.issued
    latest_cancel,      \* RequestLedger.latest_cancel: order -> attempt
    latest_revision,    \* RequestLedger.latest_revision: order -> <<revision, quantity>>
    venue,              \* external: the venue's own records
    told,               \* external: the account values the venue last reported
    clock,              \* external: the venue's clock
    number,             \* external: the last number used in this session
    session,            \* external: how often the session was opened
    asked,              \* external: requests on their way to the venue
    sent,               \* external: reports that may still be delivered
    delivered,          \* external: reports delivered at least once
    lost,               \* external: a report was dropped with its session
    broken              \* some report was a break: the two sides disagree

mirror == <<orders, executions, account, venue_sequences, connected>>

ledger == <<issued, latest_cancel, latest_revision>>

outside == <<venue, told, clock, number, session, asked, sent, delivered, lost>>

vars == <<mirror, ledger, outside, broken>>

Quantities == 1..MaxQuantity

\* broker/order.py: three statuses exist only between AlphaLab and a venue.
BrokerLocal == {"PENDING_SUBMIT", "SUBMITTED", "PENDING_CANCEL"}

canonical_status(status) ==
    CASE status = "PENDING_SUBMIT" -> "NEW"
      [] status = "SUBMITTED"      -> "PENDING"
      [] status = "PENDING_CANCEL" -> "CANCEL_PENDING"
      [] OTHER                     -> status

StatusEquivalents(status) ==
    IF status = "PENDING_CANCEL"
    THEN {"CANCEL_PENDING", "ACCEPTED", "PARTIALLY_FILLED"}
    ELSE {"NEW", "PENDING", "ACCEPTED"}

statuses_consistent(local, remote) ==
    \/ local = remote
    \/ local \in BrokerLocal /\ remote \notin BrokerLocal /\ remote \in StatusEquivalents(local)
    \/ remote \in BrokerLocal /\ local \notin BrokerLocal /\ local \in StatusEquivalents(remote)

BrokerOrder == [status: OrderStatus \cup BrokerLocal, quantity: Nat, filled: Nat,
                updated: Nat]

is_terminal(order) == order.status \in TerminalStatuses

\* venue_sequences is keyed by the order amended or by the account value.
Entities == Orders \cup AccountKeys

NoOrder == "no order"

ReportKinds == OrderEventKinds \cup AccountKeys \cup {"foreign_account"}

Report == [kind: ReportKinds, order: Orders \cup {NoOrder}, quantity: Nat,
           seq: Nat, at: Nat]

Request == [kind: {"cancel", "modify"}, order: Orders, number: Nat, quantity: Nat]

EmptyMap == [x \in {} |-> 0]

MapSet(map, key, value) ==
    [k \in DOMAIN map \cup {key} |-> IF k = key THEN value ELSE map[k]]

Later(a, b) == IF a > b THEN a ELSE b

Init ==
    /\ orders = EmptyMap /\ executions = EmptyMap
    /\ account = [k \in AccountKeys |-> 0]
    /\ venue_sequences = EmptyMap
    /\ connected = TRUE
    /\ issued = {} /\ latest_cancel = EmptyMap /\ latest_revision = EmptyMap
    /\ venue = EmptyMap /\ told = [k \in AccountKeys |-> 0]
    /\ clock = 0 /\ number = 0 /\ session = 1
    /\ asked = {} /\ sent = {} /\ delivered = {}
    /\ lost = FALSE /\ broken = FALSE

-----------------------------------------------------------------------------
(* What a report is: classify_venue_event *)

Breaks == {"CONFLICT", "UNKNOWN_ORDER", "INVALID"}

\* Mutant: a refused cancel is not told apart from an acknowledgement.
StatusOutcomeIgnoresRefusal(r) ==
    IF r.order \notin DOMAIN orders THEN "UNKNOWN_ORDER"
    ELSE LET order == orders[r.order]
             class == classify_order_event(canonical_status(order.status),
                         IF r.kind = "cancel_rejected" THEN "accepted" ELSE r.kind, order.filled)
         IN  IF class = "TRANSITION" THEN "APPLIED" ELSE class

\* _status_event
StatusOutcome(r) ==
    IF r.order \notin DOMAIN orders THEN "UNKNOWN_ORDER"
    ELSE LET order == orders[r.order]
             class == classify_order_event(canonical_status(order.status), r.kind, order.filled)
         IN  IF class = "TRANSITION" THEN "APPLIED" ELSE class

\* Mutant: a redelivered fill is not recognised.
FillOutcomeRepeats(r) ==
    IF r.order \notin DOMAIN orders THEN "UNKNOWN_ORDER"
    ELSE IF \/ is_terminal(orders[r.order])
            \/ orders[r.order].filled + r.quantity > orders[r.order].quantity
         THEN "CONFLICT"
         ELSE "APPLIED"

\* classify_execution, read through _EXECUTION_OUTCOMES
FillOutcome(r) ==
    IF r.at \in DOMAIN executions THEN "DUPLICATE"
    ELSE IF r.quantity = 0 THEN "INVALID"
    ELSE IF r.order \notin DOMAIN orders THEN "UNKNOWN_ORDER"
    ELSE IF \/ is_terminal(orders[r.order])
            \/ orders[r.order].filled + r.quantity > orders[r.order].quantity
         THEN "CONFLICT"
         ELSE "APPLIED"

Numbered(r) == r.seq > 0

\* Mutant: a number only tells a repetition, and an older report is applied.
SequenceGateRepeatsOnly(r, key, holds) ==
    IF key \in DOMAIN venue_sequences /\ r.seq = venue_sequences[key] /\ holds
    THEN "DUPLICATE" ELSE "permit"

\* _sequence_gate: "permit", or what the number alone decides.
SequenceGate(r, key, holds) ==
    IF key \notin DOMAIN venue_sequences THEN "permit"
    ELSE LET last == venue_sequences[key]
         IN  CASE ~Numbered(r)                  -> "INVALID"
               [] r.seq > last                  -> "permit"
               [] Numbered(r) /\ r.seq < last   -> "STALE"
               [] r.seq = last                  -> IF holds THEN "DUPLICATE" ELSE "CONFLICT"

\* _restated: the latest word about a value is recorded even if it repeats it.
RestatedOutcome(r) == IF Numbered(r) THEN "APPLIED" ELSE "DUPLICATE"

Stands(r) == orders[r.order].quantity = r.quantity

\* Mutant: an amendment below what has filled is made.
ReplacedOutcomeBelowFilled(r) ==
    IF r.order \notin DOMAIN orders THEN "UNKNOWN_ORDER"
    ELSE LET gate == SequenceGate(r, r.order, Stands(r))
         IN  IF gate # "permit" THEN gate
             ELSE IF Stands(r) THEN RestatedOutcome(r)
             ELSE IF is_terminal(orders[r.order]) THEN "CONFLICT" ELSE "APPLIED"

\* _replaced
ReplacedOutcome(r) ==
    IF r.order \notin DOMAIN orders THEN "UNKNOWN_ORDER"
    ELSE IF r.quantity = 0 THEN "INVALID"
    ELSE LET order == orders[r.order]
             gate  == SequenceGate(r, r.order, Stands(r))
         IN  IF gate # "permit" THEN gate
             ELSE IF Stands(r) THEN RestatedOutcome(r)
             ELSE IF \/ ~HasRow(canonical_status(order.status), "replaced")
                     \/ r.quantity <= order.filled
                  THEN "CONFLICT"
                  ELSE "APPLIED"

\* _account_event
AccountOutcome(r) ==
    IF r.kind = "foreign_account" THEN "INVALID"
    ELSE LET holds == account[r.kind] = r.quantity
             gate  == SequenceGate(r, r.kind, holds)
         IN  IF gate # "permit" THEN gate
             ELSE IF holds THEN RestatedOutcome(r) ELSE "APPLIED"

classify_venue_event(r) ==
    CASE r.kind \in StatusEventKinds -> StatusOutcome(r)
      [] r.kind \in FillEventKinds   -> FillOutcome(r)
      [] r.kind = "replaced"         -> ReplacedOutcome(r)
      [] OTHER                       -> AccountOutcome(r)

-----------------------------------------------------------------------------
(* What an applied report does to the mirror *)

\* Mutant: a partial fill drops the pending cancel.
status_after_fillForgetsCancel(order, filled) ==
    IF filled = order.quantity THEN "FILLED" ELSE "PARTIALLY_FILLED"

status_after_fill(order, filled) ==
    IF filled = order.quantity THEN "FILLED"
    ELSE IF canonical_status(order.status) = "CANCEL_PENDING" THEN order.status
    ELSE "PARTIALLY_FILLED"

\* _numbered
NumberedSequences(r, key) ==
    IF Numbered(r) THEN MapSet(venue_sequences, key, r.seq) ELSE venue_sequences

ApplyStatus(r) ==
    LET order == orders[r.order]
        after == next_order_status(canonical_status(order.status), r.kind, order.filled)
    IN  /\ orders' = [orders EXCEPT ![r.order].status = after,
                                    ![r.order].updated = Later(@, r.at)]
        /\ UNCHANGED <<executions, account, venue_sequences>>

\* apply_execution
ApplyFill(r) ==
    LET order  == orders[r.order]
        filled == order.filled + r.quantity
    IN  /\ orders' = [orders EXCEPT ![r.order].filled = filled,
                                    ![r.order].status = status_after_fill(order, filled),
                                    ![r.order].updated = Later(@, r.at)]
        /\ executions' = MapSet(executions, r.at, [order |-> r.order, quantity |-> r.quantity])
        /\ UNCHANGED <<account, venue_sequences>>

ApplyReplaced(r) ==
    /\ orders' = IF Stands(r) THEN orders
                 ELSE [orders EXCEPT ![r.order].quantity = r.quantity,
                                     ![r.order].updated = Later(@, r.at)]
    /\ venue_sequences' = NumberedSequences(r, r.order)
    /\ UNCHANGED <<executions, account>>

ApplyAccount(r) ==
    /\ account' = [account EXCEPT ![r.kind] = r.quantity]
    /\ venue_sequences' = NumberedSequences(r, r.kind)
    /\ UNCHANGED <<orders, executions>>

\* apply_venue_event: anything but APPLIED leaves the mirror as it is.
apply_venue_event(r) ==
    LET outcome == classify_venue_event(r)
    IN  /\ IF outcome # "APPLIED"
           THEN UNCHANGED <<orders, executions, account, venue_sequences>>
           ELSE CASE r.kind \in StatusEventKinds -> ApplyStatus(r)
                  [] r.kind \in FillEventKinds   -> ApplyFill(r)
                  [] r.kind = "replaced"         -> ApplyReplaced(r)
                  [] OTHER                       -> ApplyAccount(r)
        /\ broken' = (broken \/ outcome \in Breaks)
        /\ UNCHANGED connected

Absolute(r) == r.kind \in AccountKeys \cup {"replaced"}

\* A venue that numbers nothing leaves ordering to the adapter: an unnumbered
\* absolute report is delivered once, and in the order it was sent.
Deliverable(r) ==
    IF Absolute(r) /\ ~Numbered(r)
    THEN /\ r \notin delivered
         /\ \A s \in sent : s.kind = r.kind /\ s.at < r.at => s \in delivered
    ELSE r \in delivered => r.kind \in Redelivered

Deliver(r) ==
    /\ connected /\ r \in sent /\ Deliverable(r)
    /\ apply_venue_event(r)
    /\ delivered' = delivered \cup {r}
    /\ UNCHANGED <<ledger, venue, told, clock, number, session, asked, sent, lost>>

\* _connectivity_event: a new session may number its reports afresh.
connect ==
    /\ ~connected /\ connected' = TRUE
    /\ venue_sequences' = EmptyMap

disconnect == connected /\ connected' = FALSE

-----------------------------------------------------------------------------
(* Requests *)

Numbers(request, latest) ==
    request.order \in DOMAIN latest => request.number > latest[request.order]

\* issue_cancel, the NEW outcome; a duplicate or a refusal changes nothing.  An
\* attempt equal to the latest is the same request, so it must be higher.
issue_cancel(request) ==
    /\ request \notin issued
    /\ request.order \in DOMAIN orders /\ ~is_terminal(orders[request.order])
    /\ Numbers(request, latest_cancel)
    /\ canonical_status(orders[request.order].status) # "CANCEL_PENDING"
    /\ orders' = [orders EXCEPT ![request.order].status = "PENDING_CANCEL",
                                ![request.order].updated = Later(@, clock)]
    /\ issued' = issued \cup {request}
    /\ latest_cancel' = MapSet(latest_cancel, request.order, request.number)
    /\ UNCHANGED <<executions, account, venue_sequences, connected, latest_revision, broken>>

\* issue_modify, the NEW outcome: only the ledger changes.
issue_modify(request) ==
    /\ request \notin issued
    /\ request.order \in DOMAIN orders
    /\ request.order \in DOMAIN latest_revision =>
          request.number > latest_revision[request.order][1]
    /\ LET order == orders[request.order]
       IN  /\ ~is_terminal(order)
           /\ canonical_status(order.status) # "CANCEL_PENDING"
           /\ request.quantity > order.filled
           /\ request.quantity # order.quantity
    /\ issued' = issued \cup {request}
    /\ latest_revision' = MapSet(latest_revision, request.order,
                                 <<request.number, request.quantity>>)
    /\ UNCHANGED <<mirror, latest_cancel, broken>>

Ask(request) ==
    /\ asked' = asked \cup {request}
    /\ UNCHANGED <<venue, told, clock, number, session, sent, delivered, lost>>

\* LiveSession.cancel and .amend: what is NEW goes to the venue.
Cancel(o, attempt) ==
    LET request == [kind |-> "cancel", order |-> o, number |-> attempt, quantity |-> 0]
    IN  connected /\ issue_cancel(request) /\ Ask(request)

Amend(o, revision, quantity) ==
    LET request == [kind |-> "modify", order |-> o, number |-> revision, quantity |-> quantity]
    IN  connected /\ issue_modify(request) /\ Ask(request)

-----------------------------------------------------------------------------
(* The venue and the network *)

Working(o) == o \in DOMAIN venue /\ venue[o].status \in WorkingStatuses

Send(kind, o, quantity, seq) ==
    /\ clock' = clock + 1
    /\ sent' = sent \cup {[kind |-> kind, order |-> o, quantity |-> quantity,
                           seq |-> seq, at |-> clock + 1]}
    /\ number' = IF seq > 0 THEN seq ELSE number

VenueOnly == UNCHANGED <<mirror, ledger, session, delivered, lost, broken>>

\* An order reaches the venue: the adapter's submit_order stages it in the
\* mirror as sent and unacknowledged.
Submit(o, quantity) ==
    /\ connected /\ o \notin DOMAIN venue /\ clock < MaxClock
    /\ clock' = clock + 1
    /\ orders' = MapSet(orders, o, [status |-> "SUBMITTED", quantity |-> quantity,
                                    filled |-> 0, updated |-> clock'])
    /\ venue' = MapSet(venue, o, [status |-> "PENDING", quantity |-> quantity, filled |-> 0])
    /\ UNCHANGED <<executions, account, venue_sequences, connected, ledger, told, number,
                   session, asked, sent, delivered, lost, broken>>

\* Another session's order in the same account, unknown to this mirror.
SubmitElsewhere(o, quantity) ==
    /\ o \notin DOMAIN venue /\ clock < MaxClock
    /\ venue' = MapSet(venue, o, [status |-> "ACCEPTED", quantity |-> quantity, filled |-> 0])
    /\ Send("accepted", o, 0, 0)
    /\ VenueOnly /\ UNCHANGED <<told, asked>>

\* The venue acknowledges, rejects or expires an order.
Decide(o) ==
    /\ Working(o) /\ clock < MaxClock
    /\ \E kind \in {"accepted", "rejected", "expired"} :
          LET after == next_order_status(venue[o].status, kind, venue[o].filled)
          IN  /\ after # None
              /\ kind = "rejected" => venue[o].status = "PENDING"
              /\ venue' = [venue EXCEPT ![o].status = after]
              /\ Send(kind, o, 0, 0)
    /\ VenueOnly /\ UNCHANGED <<told, asked>>

Trade(o, quantity) ==
    LET filled == venue[o].filled + quantity
        after  == IF filled = venue[o].quantity THEN "FILLED" ELSE "PARTIALLY_FILLED"
    IN  /\ Working(o) /\ venue[o].status # "PENDING" /\ clock < MaxClock
        /\ filled <= venue[o].quantity
        /\ venue' = [venue EXCEPT ![o].status = after, ![o].filled = filled]
        /\ Send(IF after = "FILLED" THEN "filled" ELSE "partially_filled", o, quantity, 0)
        /\ VenueOnly /\ UNCHANGED <<told, asked>>

\* The venue states its position or the balances: what the account traded.
Declare(key, numbered, value) ==
    /\ clock < MaxClock
    /\ numbered \/ Unnumbered
    /\ told' = [told EXCEPT ![key] = value]
    /\ Send(key, NoOrder, value, IF numbered THEN number + 1 ELSE 0)
    /\ VenueOnly /\ UNCHANGED <<venue, asked>>

\* A report about somebody else's account.
DeclareForeign ==
    /\ clock < MaxClock /\ AccountKeys # {}
    /\ Send("foreign_account", NoOrder, 0, 0)
    /\ VenueOnly /\ UNCHANGED <<venue, told, asked>>

\* The venue answers a cancel: it is too late for a finished order, and a
\* working one is cancelled or goes on working.
\* (The attempt a report answers is carried for the properties alone: the code
\* reads no quantity from a status report.)
AnswerCancel(q) ==
    /\ q \in asked /\ q.kind = "cancel"
    /\ \/ /\ Working(q.order)
          /\ venue' = [venue EXCEPT ![q.order].status = "CANCELLED"]
          /\ Send("cancelled", q.order, q.number, 0)
       \/ /\ UNCHANGED venue
          /\ Send("cancel_rejected", q.order, q.number, 0)
    /\ asked' = asked \ {q}
    /\ VenueOnly /\ UNCHANGED told

\* The venue answers an amendment: it makes it, numbered, or it does not and
\* says nothing, for no report kind refuses an amendment.
AnswerAmend(q) ==
    /\ q \in asked /\ q.kind = "modify"
    /\ \/ /\ Working(q.order) /\ q.quantity > venue[q.order].filled
          /\ venue' = [venue EXCEPT ![q.order].quantity = q.quantity]
          /\ Send("replaced", q.order, q.quantity, number + 1)
       \/ UNCHANGED <<venue, clock, sent, number>>
    /\ asked' = asked \ {q}
    /\ VenueOnly /\ UNCHANGED told

LoseRequest(q) ==
    /\ LosesRequests /\ q \in asked
    /\ asked' = asked \ {q}
    /\ UNCHANGED <<mirror, ledger, venue, told, clock, number, session, sent, delivered,
                   lost, broken>>

Drop ==
    /\ session < MaxSessions
    /\ disconnect
    /\ UNCHANGED <<orders, executions, account, venue_sequences, ledger, outside, broken>>

\* A new session: statuses and fills may be reported again, the absolute
\* reports numbered in the old session never are.
Reconnect ==
    /\ connect
    /\ session' = session + 1
    /\ number' = 0
    /\ sent' = {r \in sent : ~Absolute(r)}
    /\ lost' = (lost \/ \E r \in sent : Absolute(r) /\ r \notin delivered)
    /\ UNCHANGED <<orders, executions, account, ledger, venue, told, clock, asked,
                   delivered, broken>>

Next ==
    \/ \E r \in sent : Deliver(r)
    \/ \E o \in Orders, q \in Quantities :
          Submit(o, q) \/ SubmitElsewhere(o, q) \/ Trade(o, q)
    \/ \E o \in Orders : Decide(o)
    \/ \E o \in Orders, n \in 1..MaxAttempts : Cancel(o, n)
    \/ \E o \in Orders, n \in 1..MaxRevisions, q \in Quantities : Amend(o, n, q)
    \/ \E k \in AccountKeys, numbered \in BOOLEAN, v \in Quantities : Declare(k, numbered, v)
    \/ DeclareForeign
    \/ \E q \in asked : AnswerCancel(q) \/ AnswerAmend(q) \/ LoseRequest(q)
    \/ Drop \/ Reconnect

Spec == Init /\ [][Next]_vars

\* What the outside does eventually: the venue answers what it was asked, a
\* session that dropped is opened again, and a report sent is delivered.
FairSpec ==
    /\ Spec
    /\ WF_vars(\E q \in asked : AnswerCancel(q) \/ AnswerAmend(q))
    /\ WF_vars(\E r \in sent \ delivered : Deliver(r))
    /\ WF_vars(Reconnect)

-----------------------------------------------------------------------------
(* Properties *)

\* Every variable holds a value of the shape its dataclass declares.
TypeOK ==
    /\ DOMAIN orders \subseteq Orders /\ orders \in [DOMAIN orders -> BrokerOrder]
    /\ DOMAIN executions \subseteq Nat
    /\ executions \in [DOMAIN executions -> [order: Orders, quantity: Nat]]
    /\ account \in [AccountKeys -> Nat]
    /\ DOMAIN venue_sequences \subseteq Entities
    /\ venue_sequences \in [DOMAIN venue_sequences -> Nat]
    /\ connected \in BOOLEAN
    /\ issued \subseteq Request
    /\ DOMAIN latest_cancel \subseteq Orders /\ latest_cancel \in [DOMAIN latest_cancel -> Nat]
    /\ DOMAIN latest_revision \subseteq Orders
    /\ latest_revision \in [DOMAIN latest_revision -> Nat \X Nat]
    /\ sent \subseteq Report /\ delivered \subseteq Report /\ asked \subseteq Request
    /\ broken \in BOOLEAN

\* What the mirror has filled fits what it holds ordered, and it calls an order
\* FILLED exactly when nothing of it is left, whatever order amendments and
\* fills arrive in.
FillsFit ==
    \A o \in DOMAIN orders :
        /\ orders[o].filled <= orders[o].quantity
        /\ orders[o].status = "FILLED" <=> orders[o].filled = orders[o].quantity

\* BrokerState.executions: "Membership is what makes duplicate-fill rejection
\* possible".  What an order has filled is the sum of the executions recorded
\* for it: none is counted twice, and none is counted without being recorded.
FillsCountedOnce ==
    \A o \in DOMAIN orders :
        orders[o].filled =
            SumOf([e \in {e \in DOMAIN executions : executions[e].order = o} |->
                      executions[e].quantity])

\* The state of every mirror is one its classes allow, whatever arrives.
MirrorInv == TypeOK /\ FillsFit

\* Nothing is on its way, nothing was dropped, and the venue has acknowledged
\* or rejected what it was sent.
AllDelivered ==
    /\ sent \subseteq delivered /\ asked = {} /\ ~lost
    /\ \A o \in DOMAIN venue : venue[o].status # "PENDING"

\* The module's claim about ordering: once every report has been delivered, in
\* whatever order and however often, and none of them was reported as a break,
\* the mirror agrees with the venue about every order it holds, and holds the
\* account values the venue reported last.
Converges ==
    AllDelivered /\ ~broken =>
        /\ \A o \in DOMAIN orders :
              /\ statuses_consistent(orders[o].status, venue[o].status)
              /\ orders[o].quantity = venue[o].quantity
              /\ orders[o].filled = venue[o].filled
        /\ account = told

ClosedKept ==
    \A o \in DOMAIN orders : is_terminal(orders[o]) => orders'[o] = orders[o]

\* No report and no request changes an order the mirror holds as finished:
\* what contradicts it is a break, never an update.
TerminalAbsorbs == [][ClosedKept]_vars

\* A cancel whose answer has not been delivered.
Outstanding(o) ==
    {q \in issued : /\ q.kind = "cancel" /\ q.order = o
                    /\ \/ q \in asked
                       \/ \E r \in sent \ delivered :
                             /\ r.kind \in {"cancelled", "cancel_rejected"}
                             /\ r.order = o /\ r.quantity = q.number}

\* A mirror never forgets a cancel in flight: until the answer is delivered the
\* order reads as cancelling or as finished, so no second cancel is issued.
CancelRemembered ==
    \A o \in DOMAIN orders :
        Outstanding(o) # {} =>
            is_terminal(orders[o]) \/ canonical_status(orders[o].status) = "CANCEL_PENDING"

Cancelling(o) ==
    o \in DOMAIN orders /\ canonical_status(orders[o].status) = "CANCEL_PENDING"

\* A cancel that was lost on its way: the venue never saw it.
LostCancel(o) ==
    \E q \in issued \ asked :
        /\ q.kind = "cancel" /\ q.order = o
        /\ \A r \in sent : ~(/\ r.kind \in {"cancelled", "cancel_rejected"}
                             /\ r.order = o /\ r.quantity = q.number)

\* An order does not stay PENDING_CANCEL for ever: the answer that "is due"
\* comes and the mirror acts on it, unless the request itself was lost.
CancelResolves ==
    \A o \in Orders : Cancelling(o) ~> (~Cancelling(o) \/ LostCancel(o))

\* broker/requests.py: "One cancel is outstanding per order at a time".
OneCancelOutstanding == \A o \in Orders : Cardinality(Outstanding(o)) <= 1
=============================================================================
