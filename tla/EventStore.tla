----------------------------- MODULE EventStore -----------------------------
(***************************************************************************)
(* The tables of the webhook push (crates/store/src/events.rs,             *)
(* event_routes.rs and event_deliveries.rs), for one account.              *)
(*                                                                         *)
(* An event is named by its idempotency key: the UIDVALIDITY and UID of    *)
(* the message and the kind of the event.  A delivery is an event and a    *)
(* route, as its id is.  Each operator is one SQL statement.  Deliveries   *)
(* are UPDATEd by id alone: nothing in the statement asks what state the   *)
(* row is in, so whoever writes last wins.                                 *)
(***************************************************************************)
EXTENDS Integers, FiniteSets

CONSTANTS
    MaxUid,        \* bound on the UIDs of the watched folder
    MaxValidity,   \* bound on its UIDVALIDITY
    Route,         \* ids of routes
    Matches,       \* which kinds of event a route's match_expr accepts
    MaxAttempts,   \* MAX_ATTEMPTS, the backed-off retries
    Faults         \* whether crashes, database and network errors happen

Kind == {"new_message", "otp_detected"}

ASSUME MaxUidAssumption == MaxUid \in Nat
ASSUME MaxValidityAssumption == MaxValidity \in Nat
ASSUME MatchesAssumption == Matches \subseteq Route \X Kind
ASSUME MaxAttemptsAssumption == MaxAttempts \in Nat
ASSUME FaultsAssumption == Faults \in BOOLEAN

VARIABLES
    events,        \* set of Event
    routes,        \* [Route -> {"absent", "enabled", "removed"}]
    deliveries     \* [Delivery -> Row or NoRow]

eventVars == <<events, routes, deliveries>>

Uid == 1 .. MaxUid
Validity == 0 .. MaxValidity
Event == Validity \X Uid \X Kind
Delivery == Event \X Route

EventOf(d) == d[1]
RouteOf(d) == d[2]

-----------------------------------------------------------------------------
(* Rows.  delivered_at and dead_lettered_at count only by being set;       *)
(* next_attempt_at is NULL, in the future, or past.                        *)

Row == [attempts : Nat, next : {"null", "later", "due"},
        dead : BOOLEAN, delivered : BOOLEAN]

NoRow == [attempts |-> -1]

\* Mutant: the count starts below zero, to count the retries only.
PendingRowUncounted == [attempts |-> -1, next |-> "due", dead |-> FALSE, delivered |-> FALSE]

PendingRow == [attempts |-> 0, next |-> "due", dead |-> FALSE, delivered |-> FALSE]

Enqueued(d) == deliveries[d] # NoRow

\* What the lists and the commands call a row: delivered comes first.
Outcome(row) ==
    IF row = NoRow THEN "none"
    ELSE IF row.delivered THEN "delivered"
    ELSE IF row.dead THEN "dead" ELSE "pending"

\* Mutant: a row whose next_attempt_at is NULL is not due.
DueDeliveriesDated ==
    {d \in Delivery : Enqueued(d) /\ Outcome(deliveries[d]) = "pending"
                                  /\ deliveries[d].next = "due"}

\* The cap of 100 rows is left out: the list is taken oldest first, so a pass
\* never skips a row that a later pass would not reach.
DueDeliveries ==
    {d \in Delivery : Enqueued(d) /\ Outcome(deliveries[d]) = "pending"
                                  /\ deliveries[d].next # "later"}

MatchingRoutes(kind) == {r \in Route : routes[r] = "enabled" /\ <<r, kind>> \in Matches}

-----------------------------------------------------------------------------
(* Statements.                                                             *)

InsertEvent(e) ==
    /\ e \notin events
    /\ events' = events \cup {e}
    /\ UNCHANGED <<routes, deliveries>>

\* INSERT OR IGNORE of one row for each route.
EnqueueDeliveries(e, rs) ==
    /\ deliveries' = [d \in Delivery |->
           IF EventOf(d) = e /\ RouteOf(d) \in rs /\ ~Enqueued(d)
           THEN PendingRow ELSE deliveries[d]]
    /\ UNCHANGED <<events, routes>>

RecordDeliverySuccess(d) ==
    /\ deliveries' = [deliveries EXCEPT ![d].attempts = @ + 1, ![d].delivered = TRUE]
    /\ UNCHANGED <<events, routes>>

\* Mutant: a failure clears delivered_at too.
RecordDeliveryFailureAnew(d, next) ==
    /\ deliveries' = [deliveries EXCEPT ![d].attempts = @ + 1, ![d].next = next,
                          ![d].dead = (next = "null"), ![d].delivered = FALSE]
    /\ UNCHANGED <<events, routes>>

\* `next` is "null" when there is no next attempt.
RecordDeliveryFailure(d, next) ==
    /\ deliveries' = [deliveries EXCEPT ![d].attempts = @ + 1, ![d].next = next,
                                        ![d].dead = (next = "null")]
    /\ UNCHANGED <<events, routes>>

ResetDeliveryForRetry(d) ==
    /\ Enqueued(d)
    /\ ~deliveries[d].delivered
    /\ deliveries' = [deliveries EXCEPT ![d].dead = FALSE, ![d].next = "null"]
    /\ UNCHANGED <<events, routes>>

CreateEventRoute(r) ==
    /\ routes[r] = "absent"
    /\ routes' = [routes EXCEPT ![r] = "enabled"]
    /\ UNCHANGED <<events, deliveries>>

DeleteEventRoute(r) ==
    /\ routes[r] = "enabled"
    /\ routes' = [routes EXCEPT ![r] = "removed"]
    /\ UNCHANGED <<events, deliveries>>

\* Wall-clock time passes a delivery's next_attempt_at.
BackoffElapses(d) ==
    /\ Enqueued(d)
    /\ deliveries[d].next = "later"
    /\ deliveries' = [deliveries EXCEPT ![d].next = "due"]
    /\ UNCHANGED <<events, routes>>

EventStoreTypeOK ==
    /\ events \subseteq Event
    /\ routes \in [Route -> {"absent", "enabled", "removed"}]
    /\ deliveries \in [Delivery -> Row \cup {NoRow}]
=============================================================================
