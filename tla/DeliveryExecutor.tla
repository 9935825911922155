-------------------------- MODULE DeliveryExecutor --------------------------
(***************************************************************************)
(* One pass of deliver_due_events (crates/email/src/event_delivery.rs):    *)
(* list the due deliveries, and POST each to the webhook of its route.     *)
(*                                                                         *)
(* Nothing claims a delivery.  The rows, with their attempt counts, are    *)
(* read once at the start of the pass, and the database is not locked      *)
(* while a POST is under way, so two passes may work on one row.           *)
(***************************************************************************)
EXTENDS EventStore

CONSTANTS
    Executor,      \* executors that may run at the same time
    MaxPosts,      \* bound on the POSTs of one delivery
    NoDelivery     \* an executor with no POST under way

ASSUME MaxPostsAssumption == MaxPosts \in Nat
ASSUME NoDeliveryAssumption == NoDelivery \notin Delivery

VARIABLES
    executor,      \* [Executor -> the pass's control point and locals]
    posts,         \* [Delivery -> POSTs sent]
    received       \* [Delivery -> POSTs the receiver took]

pushVars == <<executor, posts, received>>

\* `due` pairs each delivery with the attempt count it had when it was listed.
ExecutorState ==
    [pc : {"idle", "pass", "posting", "taken"},
     due : SUBSET (Delivery \X Nat),
     push : Delivery \cup {NoDelivery}, attempts : Nat]

Resting == [pc |-> "idle", due |-> {}, push |-> NoDelivery, attempts |-> 0]

ExecutorInit ==
    /\ executor = [x \in Executor |-> Resting]
    /\ posts = [d \in Delivery |-> 0]
    /\ received = [d \in Delivery |-> 0]

\* Mutant: the last retry is not made.
NextAttemptEarly(failures) == IF failures >= MaxAttempts THEN "null" ELSE "later"

\* Failure k is followed by backoff k; after the last backoff there is none.
NextAttempt(failures) == IF failures > MaxAttempts THEN "null" ELSE "later"

Remaining(due) == IF due = {} THEN Resting ELSE [Resting EXCEPT !.pc = "pass", !.due = due]
NextDelivery(x, due) == executor' = [executor EXCEPT ![x] = Remaining(due)]

-----------------------------------------------------------------------------
ListDue(x) ==
    /\ executor[x].pc = "idle"
    /\ NextDelivery(x, {<<d, deliveries[d].attempts>> : d \in DueDeliveries})
    /\ UNCHANGED <<posts, received, eventVars>>

\* Any error of the route lookup counts as a deleted route.  An event is never
\* deleted, and a route is always a webhook, in this code base.
Unroutable(x, item) ==
    /\ executor[x].pc = "pass"
    /\ item \in executor[x].due
    /\ Faults \/ routes[RouteOf(item[1])] # "enabled"
    /\ RecordDeliveryFailure(item[1], "null")
    /\ NextDelivery(x, executor[x].due \ {item})
    /\ UNCHANGED <<posts, received>>

Post(x, item) ==
    /\ executor[x].pc = "pass"
    /\ item \in executor[x].due
    /\ routes[RouteOf(item[1])] = "enabled"
    /\ posts[item[1]] < MaxPosts
    /\ posts' = [posts EXCEPT ![item[1]] = @ + 1]
    /\ executor' = [executor EXCEPT ![x].pc = "posting", ![x].due = @ \ {item},
                                    ![x].push = item[1], ![x].attempts = item[2]]
    /\ UNCHANGED <<received, eventVars>>

\* The receiver takes the event.  Its answer may still be an error or get lost.
Received(x) ==
    /\ executor[x].pc = "posting"
    /\ received' = [received EXCEPT ![executor[x].push] = @ + 1]
    /\ executor' = [executor EXCEPT ![x].pc = "taken"]
    /\ UNCHANGED <<posts, eventVars>>

PostSucceeded(x) ==
    /\ executor[x].pc = "taken"
    /\ RecordDeliverySuccess(executor[x].push)
    /\ NextDelivery(x, executor[x].due)
    /\ UNCHANGED <<posts, received>>

\* Mutant: the count read at the start of the pass is written back.
PostFailedStale(x) ==
    /\ executor[x].pc \in {"posting", "taken"}
    /\ LET d == executor[x].push
           n == executor[x].attempts + 1
       IN  deliveries' = [deliveries EXCEPT ![d].attempts = n,
                              ![d].next = NextAttempt(n), ![d].dead = (NextAttempt(n) = "null")]
    /\ NextDelivery(x, executor[x].due)
    /\ UNCHANGED <<posts, received, events, routes>>

\* Refused, unreachable, or timed out.
PostFailed(x) ==
    /\ executor[x].pc \in {"posting", "taken"}
    /\ RecordDeliveryFailure(executor[x].push, NextAttempt(executor[x].attempts + 1))
    /\ NextDelivery(x, executor[x].due)
    /\ UNCHANGED <<posts, received>>

\* The process dies, or a database error ends the pass.
Abort(x) ==
    /\ Faults
    /\ executor[x].pc # "idle"
    /\ executor' = [executor EXCEPT ![x] = Resting]
    /\ UNCHANGED <<posts, received, eventVars>>

PassStep(x) ==
    \/ \E item \in executor[x].due : Unroutable(x, item) \/ Post(x, item)
    \/ Received(x)
    \/ PostSucceeded(x)
    \/ PostFailed(x)
    \/ Abort(x)

ExecutorTypeOK ==
    /\ executor \in [Executor -> ExecutorState]
    /\ posts \in [Delivery -> Nat]
    /\ received \in [Delivery -> Nat]
=============================================================================
