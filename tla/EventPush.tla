----------------------------- MODULE EventPush ------------------------------
(***************************************************************************)
(* Events from the mailbox to the webhooks: watches insert events and      *)
(* queue deliveries, the dashboard's executor and the watches' own drains  *)
(* post them, and an operator adds and removes routes and retries.         *)
(***************************************************************************)
EXTENDS Watch, DeliveryExecutor

CONSTANT
    MaxRetries    \* bound on the operator's retries of one delivery

ASSUME ExecutorAssumption == Delivering \subseteq Executor
ASSUME MaxRetriesAssumption == MaxRetries \in Nat

VARIABLES
    retries,      \* [Delivery -> operator retries]; not in the code
    earlier       \* [Route -> events older than the route]; not in the code

operatorVars == <<retries, earlier>>
vars == <<eventVars, watchVars, pushVars, operatorVars>>

Init ==
    /\ events = {}
    /\ routes \in [Route -> {"absent", "enabled"}]
    /\ deliveries = [d \in Delivery |-> NoRow]
    /\ WatchInit
    /\ ExecutorInit
    /\ retries = [d \in Delivery |-> 0]
    /\ earlier = [r \in Route |-> {}]

-----------------------------------------------------------------------------
Mail == (MailArrives \/ ValidityChanges) /\ UNCHANGED <<pushVars, operatorVars>>

Watching == (\E w \in Watcher : WatcherStep(w)) /\ UNCHANGED <<pushVars, operatorVars>>

\* After a batch, a watch with --deliver runs a pass of its own.
Drain(w) ==
    /\ watcher[w].pc = "drain"
    /\ ListDue(w)
    /\ WatcherAt(w, "draining")
    /\ UNCHANGED <<mailbox, began>>

Drained(w) ==
    /\ watcher[w].pc = "draining"
    /\ executor[w].pc = "idle"
    /\ WatcherAt(w, "idle")
    /\ UNCHANGED <<mailbox, began, eventVars, pushVars>>

Draining == (\E w \in Delivering : Drain(w) \/ Drained(w)) /\ UNCHANGED operatorVars

\* A watch takes its pass with it.
Stopping ==
    /\ \E w \in Watcher :
          /\ Stop(w)
          /\ executor' = [x \in Executor |-> IF x = w THEN Resting ELSE executor[x]]
    /\ UNCHANGED <<posts, received, operatorVars>>

\* The dashboard's sweeper thread, every 60 s.
Tick(x) == DueDeliveries # {} /\ ListDue(x)

ExecutorStep(x) == PassStep(x) \/ (x \notin Watcher /\ Tick(x))

Executing ==
    /\ \E x \in Executor : ExecutorStep(x)
    /\ UNCHANGED <<watchVars, operatorVars>>

AddRoute(r) ==
    /\ CreateEventRoute(r)
    /\ earlier' = [earlier EXCEPT ![r] = events]
    /\ UNCHANGED <<watchVars, pushVars, retries>>

RemoveRoute(r) == DeleteEventRoute(r) /\ UNCHANGED <<watchVars, pushVars, operatorVars>>

RetryDelivery(d) ==
    /\ retries[d] < MaxRetries
    /\ ResetDeliveryForRetry(d)
    /\ retries' = [retries EXCEPT ![d] = @ + 1]
    /\ UNCHANGED <<watchVars, pushVars, earlier>>

Operating ==
    \/ \E r \in Route : AddRoute(r) \/ RemoveRoute(r)
    \/ \E d \in Delivery : RetryDelivery(d)

Clock ==
    /\ \E d \in Delivery : BackoffElapses(d)
    /\ UNCHANGED <<watchVars, pushVars, operatorVars>>

Next ==
    \/ Mail
    \/ Watching
    \/ Draining
    \/ Stopping
    \/ Executing
    \/ Operating
    \/ Clock

Spec == Init /\ [][Next]_vars

\* The sweeper thread keeps running, and time passes.
Fairness ==
    /\ \A x \in Executor : WF_vars(ExecutorStep(x) /\ UNCHANGED <<watchVars, operatorVars>>)
    /\ \A d \in Delivery :
          WF_vars(BackoffElapses(d) /\ UNCHANGED <<watchVars, pushVars, operatorVars>>)

FairSpec == Spec /\ Fairness

-----------------------------------------------------------------------------
TypeOK ==
    /\ EventStoreTypeOK
    /\ WatchTypeOK
    /\ ExecutorTypeOK
    /\ retries \in [Delivery -> Nat]
    /\ earlier \in [Route -> SUBSET Event]

(***************************************************************************)
(* From the mailbox to the queue.                                          *)
(***************************************************************************)

\* The watch is at work on this event, or on the one before it.
AtWork(w, validity, uid, pcs) ==
    watcher[w].known = validity /\ watcher[w].uid = uid /\ watcher[w].pc \in pcs

\* Where a watch's duty begins: at the mailbox it found, or at the first UID of
\* a folder renumbered since.
Floor(w) == IF watcher[w].known = began[w].validity THEN began[w].top ELSE 0

\* Nothing below the watermark is forgotten: each message that came after the
\* watch has an event or is still in the batch.  The watermark moves before the
\* event is inserted (`last_uid = uid` in run).
WatermarkCovered ==
    \A w \in Watcher :
        watcher[w].pc # "off" =>
            \A uid \in Floor(w) + 1 .. watcher[w].last :
                \/ <<watcher[w].known, uid, "new_message">> \in events
                \/ uid \in watcher[w].todo

\* "Track highest UID we've seen so we only fetch genuinely new messages": no
\* event is made for a message that was there before the watch.
GenuinelyNew ==
    \A w \in Watcher :
        /\ watcher[w].pc \in {"queueMessage", "scan", "queueCode"}
        /\ watcher[w].known = began[w].validity
        => watcher[w].uid > began[w].top

\* A message with a one-time code that has its first event gets its second,
\* whichever of the competing watches inserted the first.
CodesAreAnnounced ==
    \A e \in events : e[3] = "new_message" /\ e[2] \in Coded =>
        \/ <<e[1], e[2], "otp_detected">> \in events
        \/ \E w \in Watcher : AtWork(w, e[1], e[2], {"queueMessage", "scan"})

\* Every event has a delivery for every standing route that matches it: an
\* event that is only inserted is never delivered, not even once ("Envelope
\* delivers at-least-once", docs/webhooks.md).
EventsAreQueued ==
    \A e \in events, r \in Route :
        routes[r] = "enabled" /\ <<r, e[3]>> \in Matches /\ e \notin earlier[r] =>
            \/ Enqueued(<<e, r>>)
            \/ \E w \in Delivering :
                   AtWork(w, e[1], e[2],
                          {IF e[3] = "new_message" THEN "queueMessage" ELSE "queueCode"})

(***************************************************************************)
(* From the queue to the receiver.                                         *)
(***************************************************************************)

\* However many executors race for a row, its attempt_count is the number of
\* POSTs whose end was recorded (record_delivery_* increment in SQL).
AttemptsCountPosts ==
    \A d \in Delivery : Enqueued(d) /\ routes[RouteOf(d)] = "enabled" =>
        deliveries[d].attempts + Cardinality({x \in Executor : executor[x].push = d}) = posts[d]

\* A delivery is given up only when its retries are used up or its route is
\* gone.
DeadIsDeserved ==
    \A d \in Delivery : Enqueued(d) /\ deliveries[d].dead =>
        deliveries[d].attempts > MaxAttempts \/ routes[RouteOf(d)] # "enabled"

\* The whole system keeps the promise of an at-least-once delivery, with racing
\* executors, late answers, stale counts, crashes and operators.
Promised == INSTANCE PushPromise WITH
    outcome <- [d \in Delivery |-> Outcome(deliveries[d])]

KeepsPushPromise == Promised!Spec

\* Every queued delivery is delivered or given up in the end.
DeliveriesSettle ==
    \A d \in Delivery :
        Outcome(deliveries[d]) = "pending" ~> Outcome(deliveries[d]) \in {"delivered", "dead"}
=============================================================================
