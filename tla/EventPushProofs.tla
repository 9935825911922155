-------------------------- MODULE EventPushProofs ---------------------------
(***************************************************************************)
(* EventPush keeps its types and implements PushPromise, for any number of *)
(* watches, executors, routes and messages, and any bounds.                *)
(*                                                                         *)
(* The inductive invariant adds to the types what a pass knows of the rows *)
(* it works on: they were queued, and a row about to be called delivered   *)
(* was taken by the receiver.  That nothing ever removes a row is what     *)
(* makes it inductive: a pass holds its rows while others write them.      *)
(***************************************************************************)
EXTENDS EventPush, FiniteSetTheorems, TLAPS

Outcomes == [d \in Delivery |-> Outcome(deliveries[d])]

PassOK(x) ==
    /\ \A item \in executor[x].due : Enqueued(item[1])
    /\ executor[x].pc \in {"posting", "taken"} =>
           executor[x].push \in Delivery /\ Enqueued(executor[x].push)
    /\ executor[x].pc = "taken" => received[executor[x].push] > 0

PassesOK == \A x \in Executor : PassOK(x)

IInv == TypeOK /\ PassesOK

RowsKept == \A d \in Delivery : Enqueued(d) => deliveries'[d] # NoRow
PromisedStep == [Promised!Next]_(Promised!vars)

-----------------------------------------------------------------------------
(* Rows and their outcomes.                                                *)

\* The null row is no row.
LEMMA RowIsNotNoRow == \A row \in Row : row # NoRow
BY DEF Row, NoRow

LEMMA RowOutcome ==
    ASSUME NEW row \in Row
    PROVE  /\ row.delivered => Outcome(row) = "delivered"
           /\ ~row.delivered /\ row.dead => Outcome(row) = "dead"
           /\ ~row.delivered /\ ~row.dead => Outcome(row) = "pending"
BY RowIsNotNoRow DEF Row, Outcome

LEMMA EnqueuedIsRow ==
    ASSUME EventStoreTypeOK, NEW d \in Delivery, Enqueued(d)
    PROVE  deliveries[d] \in Row
BY DEF EventStoreTypeOK, Enqueued

\* Every statement that updates a row replaces it by a row.
LEMMA RowWritten ==
    ASSUME EventStoreTypeOK, NEW d \in Delivery, NEW row \in Row,
           deliveries' = [deliveries EXCEPT ![d] = row],
           UNCHANGED <<events, routes>>
    PROVE  /\ EventStoreTypeOK'
           /\ RowsKept
           /\ Outcomes' = [Outcomes EXCEPT ![d] = Outcome(row)]
<1>1. EventStoreTypeOK' /\ RowsKept
  BY RowIsNotNoRow DEF EventStoreTypeOK, RowsKept, Enqueued
<1>2. Outcomes' = [e \in Delivery |-> Outcome(deliveries'[e])]
  BY DEF Outcomes, Outcome
<1>3. \A e \in Delivery : deliveries'[e] = IF e = d THEN row ELSE deliveries[e]
  BY DEF EventStoreTypeOK
<1>4. \A e \in Delivery :
          Outcome(deliveries'[e]) = IF e = d THEN Outcome(row) ELSE Outcome(deliveries[e])
  BY <1>3
<1> QED
  BY <1>1, <1>2, <1>4 DEF Outcomes

-----------------------------------------------------------------------------
(* One lemma per statement: what it does to the tables, and which step of  *)
(* the promise it is.                                                      *)

LEMMA StoreUnchanged ==
    ASSUME EventStoreTypeOK, UNCHANGED deliveries
    PROVE  RowsKept /\ Outcomes' = Outcomes
BY DEF RowsKept, Enqueued, Outcomes, Outcome

LEMMA EnqueueDeliveries_Rows ==
    ASSUME EventStoreTypeOK, NEW e, NEW rs, EnqueueDeliveries(e, rs), UNCHANGED received
    PROVE  EventStoreTypeOK' /\ RowsKept /\ PromisedStep
<1> DEFINE ds == {d \in Delivery : EventOf(d) = e /\ RouteOf(d) \in rs /\ ~Enqueued(d)}
<1>1. PendingRow \in Row
  BY DEF PendingRow, Row
<1>2. \A d \in Delivery : deliveries'[d] = IF d \in ds THEN PendingRow ELSE deliveries[d]
  BY DEF EnqueueDeliveries
<1>3. EventStoreTypeOK' /\ RowsKept
  BY <1>1, <1>2, RowIsNotNoRow DEF EventStoreTypeOK, RowsKept, Enqueued, EnqueueDeliveries
<1>4. Outcome(PendingRow) = "pending"
  BY <1>1, RowOutcome DEF PendingRow
<1>5. Outcomes' = [d \in Delivery |-> Outcome(deliveries'[d])]
  BY DEF Outcomes, Outcome
<1>6. \A d \in Delivery :
          Outcome(deliveries'[d]) = IF d \in ds THEN "pending" ELSE Outcome(deliveries[d])
  BY <1>2, <1>4
<1>7. \A d \in ds : Outcomes[d] = "none"
  BY DEF Outcomes, Outcome, Enqueued
<1>8. Outcomes' = [d \in Delivery |-> IF d \in ds THEN "pending" ELSE Outcomes[d]]
  BY <1>5, <1>6 DEF Outcomes
<1>9. Promised!Enqueue(ds)
  BY <1>7, <1>8 DEF Promised!Enqueue, Outcomes
<1> QED
  BY <1>3, <1>9 DEF PromisedStep, Promised!Next

LEMMA RecordDeliverySuccess_Rows ==
    ASSUME EventStoreTypeOK, NEW d \in Delivery, Enqueued(d), received[d] > 0,
           RecordDeliverySuccess(d), UNCHANGED received
    PROVE  EventStoreTypeOK' /\ RowsKept /\ PromisedStep
<1> DEFINE row == [deliveries[d] EXCEPT !.attempts = @ + 1, !.delivered = TRUE]
<1>1. deliveries[d] \in Row
  BY EnqueuedIsRow
<1>2. row \in Row /\ row.delivered
  <2>1. ASSUME NEW n \in Nat
        PROVE  LET r == [deliveries[d] EXCEPT !.attempts = n, !.delivered = TRUE]
               IN  r \in Row /\ r.delivered
    BY <1>1 DEF Row
  <2>2. deliveries[d].attempts + 1 \in Nat
    BY <1>1 DEF Row
  <2> QED
    BY <2>1, <2>2, Zenon
<1>3. deliveries' = [deliveries EXCEPT ![d] = row]
  BY <1>1 DEF RecordDeliverySuccess, EventStoreTypeOK
<1>4. EventStoreTypeOK' /\ RowsKept /\ Outcomes' = [Outcomes EXCEPT ![d] = Outcome(row)]
  BY <1>2, <1>3, RowWritten DEF RecordDeliverySuccess
<1>5. Outcomes' = [Outcomes EXCEPT ![d] = "delivered"]
  BY <1>2, <1>4, RowOutcome
<1>6. Outcomes[d] \in {"pending", "dead", "delivered"}
  BY <1>1, RowOutcome DEF Outcomes, Row
<1>7. CASE Outcomes[d] = "delivered"
  <2>1. Outcomes' = Outcomes
    BY <1>5, <1>7 DEF Outcomes
  <2> QED
    BY <1>4, <2>1 DEF PromisedStep, Promised!vars, Outcomes
<1>8. CASE Outcomes[d] # "delivered"
  <2>1. Promised!Deliver(d)
    BY <1>5, <1>6, <1>8 DEF Promised!Deliver, Promised!Move, Outcomes
  <2> QED
    BY <1>4, <2>1 DEF PromisedStep, Promised!Next
<1> QED
  BY <1>7, <1>8

LEMMA RecordDeliveryFailure_Rows ==
    ASSUME EventStoreTypeOK, NEW d \in Delivery, Enqueued(d),
           NEW next \in {"null", "later"}, RecordDeliveryFailure(d, next), UNCHANGED received
    PROVE  EventStoreTypeOK' /\ RowsKept /\ PromisedStep
<1> DEFINE row == [deliveries[d] EXCEPT !.attempts = @ + 1, !.next = next, !.dead = (next = "null")]
<1>1. deliveries[d] \in Row
  BY EnqueuedIsRow
<1>2. row \in Row /\ row.delivered = deliveries[d].delivered
  <2>1. ASSUME NEW n \in Nat, NEW dead \in BOOLEAN
        PROVE  LET r == [deliveries[d] EXCEPT !.attempts = n, !.next = next, !.dead = dead]
               IN  r \in Row /\ r.delivered = deliveries[d].delivered
    BY <1>1 DEF Row
  <2>2. deliveries[d].attempts + 1 \in Nat
    BY <1>1 DEF Row
  <2> QED
    BY <2>1, <2>2, Zenon
<1>3. deliveries' = [deliveries EXCEPT ![d] = row]
  BY <1>1 DEF RecordDeliveryFailure, EventStoreTypeOK
<1>4. EventStoreTypeOK' /\ RowsKept /\ Outcomes' = [Outcomes EXCEPT ![d] = Outcome(row)]
  BY <1>2, <1>3, RowWritten DEF RecordDeliveryFailure
<1>5. Outcomes[d] = Outcome(deliveries[d])
  BY DEF Outcomes
<1>6. CASE deliveries[d].delivered
  <2>1. Outcome(row) = "delivered" /\ Outcomes[d] = "delivered"
    BY <1>1, <1>2, <1>5, <1>6, RowOutcome
  <2>2. Outcomes' = Outcomes
    BY <1>4, <2>1 DEF Outcomes
  <2> QED
    BY <1>4, <2>2 DEF PromisedStep, Promised!vars, Outcomes
<1>7. CASE ~deliveries[d].delivered
  <2>1. Outcome(row) \in {"pending", "dead"} /\ Outcomes[d] \in {"pending", "dead"}
    BY <1>1, <1>2, <1>5, <1>7, RowOutcome DEF Row
  <2>2. Outcomes' = Outcomes \/ Promised!GiveUp(d) \/ Promised!Reopen(d)
    BY <1>4, <2>1 DEF Promised!GiveUp, Promised!Reopen, Promised!Move, Outcomes
  <2> QED
    BY <1>4, <2>2 DEF PromisedStep, Promised!Next, Promised!vars, Outcomes
<1> QED
  BY <1>6, <1>7

LEMMA ResetDeliveryForRetry_Rows ==
    ASSUME EventStoreTypeOK, NEW d \in Delivery, ResetDeliveryForRetry(d), UNCHANGED received
    PROVE  EventStoreTypeOK' /\ RowsKept /\ PromisedStep
<1> DEFINE row == [deliveries[d] EXCEPT !.dead = FALSE, !.next = "null"]
<1>1. deliveries[d] \in Row /\ ~deliveries[d].delivered
  BY EnqueuedIsRow DEF ResetDeliveryForRetry
<1>2. row \in Row /\ ~row.delivered /\ ~row.dead
  BY <1>1 DEF Row
<1>3. deliveries' = [deliveries EXCEPT ![d] = row]
  BY <1>1 DEF ResetDeliveryForRetry, EventStoreTypeOK
<1>4. EventStoreTypeOK' /\ RowsKept /\ Outcomes' = [Outcomes EXCEPT ![d] = Outcome(row)]
  BY <1>2, <1>3, RowWritten DEF ResetDeliveryForRetry
<1>5. Outcome(row) = "pending" /\ Outcomes[d] \in {"pending", "dead"}
  BY <1>1, <1>2, RowOutcome DEF Outcomes, Row
<1>6. Outcomes' = Outcomes \/ Promised!Reopen(d)
  BY <1>4, <1>5 DEF Promised!Reopen, Promised!Move, Outcomes
<1> QED
  BY <1>4, <1>6 DEF PromisedStep, Promised!Next, Promised!vars, Outcomes

LEMMA BackoffElapses_Rows ==
    ASSUME EventStoreTypeOK, NEW d \in Delivery, BackoffElapses(d), UNCHANGED received
    PROVE  EventStoreTypeOK' /\ RowsKept /\ PromisedStep
<1> DEFINE row == [deliveries[d] EXCEPT !.next = "due"]
<1>1. deliveries[d] \in Row
  BY EnqueuedIsRow DEF BackoffElapses
<1>2. row \in Row /\ row.delivered = deliveries[d].delivered /\ row.dead = deliveries[d].dead
  BY <1>1 DEF Row
<1>3. deliveries' = [deliveries EXCEPT ![d] = row]
  BY <1>1 DEF BackoffElapses, EventStoreTypeOK
<1>4. EventStoreTypeOK' /\ RowsKept /\ Outcomes' = [Outcomes EXCEPT ![d] = Outcome(row)]
  BY <1>2, <1>3, RowWritten DEF BackoffElapses
<1>5. Outcome(row) = Outcomes[d]
  BY <1>1, <1>2, RowOutcome DEF Outcomes, Row
<1>6. Outcomes' = Outcomes
  BY <1>4, <1>5 DEF Outcomes
<1> QED
  BY <1>4, <1>6 DEF PromisedStep, Promised!vars, Outcomes

-----------------------------------------------------------------------------
(* The watch.                                                              *)

\* A step that leaves deliveries and the receiver alone is a stutter.
LEMMA Stutters ==
    ASSUME EventStoreTypeOK, UNCHANGED <<deliveries, received>>
    PROVE  RowsKept /\ PromisedStep
BY StoreUnchanged DEF PromisedStep, Promised!vars, Outcomes

LEMMA InsertEvent_Rows ==
    ASSUME EventStoreTypeOK, NEW e \in Event, InsertEvent(e), UNCHANGED received
    PROVE  EventStoreTypeOK' /\ RowsKept /\ PromisedStep
BY Stutters DEF EventStoreTypeOK, InsertEvent

LEMMA EventVarsUnchanged ==
    ASSUME EventStoreTypeOK, UNCHANGED <<eventVars, received>>
    PROVE  EventStoreTypeOK' /\ RowsKept /\ PromisedStep
BY Stutters DEF EventStoreTypeOK, eventVars

LEMMA WatcherAt_Type ==
    ASSUME WatchTypeOK, NEW w \in Watcher, NEW pc \in WatcherPc,
           WatcherAt(w, pc), UNCHANGED <<mailbox, began>>
    PROVE  WatchTypeOK'
<1>1. [watcher[w] EXCEPT !.pc = pc] \in WatcherState
  BY DEF WatchTypeOK, WatcherState
<1> QED
  BY <1>1 DEF WatchTypeOK, WatcherAt

LEMMA Off_Type == Off \in WatcherState
<1>1. 0 \in 0 .. MaxUid /\ 0 \in Validity
  BY MaxUidAssumption, MaxValidityAssumption DEF Validity
<1> QED
  BY <1>1 DEF Off, WatcherState, WatcherPc

LEMMA Nowhere_Type == Nowhere \in Mailbox
BY MaxUidAssumption, MaxValidityAssumption DEF Nowhere, Mailbox, Validity

LEMMA Connect_Type ==
    ASSUME WatchTypeOK, NEW w \in Watcher, Connect(w)
    PROVE  WatchTypeOK'
<1>1. PICK last \in {mailbox.top} \cup IF Faults THEN {0} ELSE {} :
          watcher' = [watcher EXCEPT ![w] = [Off EXCEPT !.pc = "idle", !.last = last,
                                                        !.known = mailbox.validity]]
  BY DEF Connect
<1>2. last \in 0 .. MaxUid /\ mailbox.validity \in Validity
  BY MaxUidAssumption DEF WatchTypeOK, Mailbox
<1>3. [Off EXCEPT !.pc = "idle", !.last = last, !.known = mailbox.validity] \in WatcherState
  BY <1>2, Off_Type DEF WatcherState, WatcherPc
<1>4. UNCHANGED mailbox /\ began' \in [Watcher -> Mailbox]
  BY DEF Connect, WatchTypeOK
<1> QED
  BY <1>1, <1>3, <1>4 DEF WatchTypeOK

LEMMA Watermark_Type ==
    ASSUME WatchTypeOK, NEW w \in Watcher
    PROVE  Watermark(w) \in 0 .. MaxUid
BY MaxUidAssumption DEF WatchTypeOK, WatcherState, Watermark

LEMMA Fetch_Type ==
    ASSUME WatchTypeOK, NEW w \in Watcher, Fetch(w)
    PROVE  WatchTypeOK'
<1> DEFINE s == [watcher[w] EXCEPT !.pc = "batch", !.known = mailbox.validity,
                     !.last = Watermark(w), !.todo = Watermark(w) + 1 .. mailbox.top]
<1>1. mailbox.top \in 0 .. MaxUid /\ mailbox.validity \in Validity
  BY DEF WatchTypeOK, Mailbox
<1>2. Watermark(w) + 1 .. mailbox.top \in SUBSET Uid
  BY <1>1, Watermark_Type, MaxUidAssumption DEF Uid
<1>3. s \in WatcherState
  <2>1. ASSUME NEW t \in SUBSET Uid, NEW l \in 0 .. MaxUid
        PROVE  [watcher[w] EXCEPT !.pc = "batch", !.known = mailbox.validity,
                                  !.last = l, !.todo = t] \in WatcherState
    BY <1>1 DEF WatchTypeOK, WatcherState, WatcherPc
  <2> QED
    BY <1>2, <2>1, Watermark_Type, Zenon
<1>4. watcher' = [watcher EXCEPT ![w] = s] /\ UNCHANGED <<mailbox, began>>
  BY DEF Fetch, WatchTypeOK
<1> QED
  BY <1>3, <1>4 DEF WatchTypeOK

LEMMA IdleTimeout_Type ==
    ASSUME WatchTypeOK, NEW w \in Watcher, IdleTimeout(w)
    PROVE  WatchTypeOK'
<1> DEFINE s == [watcher[w] EXCEPT !.known = mailbox.validity, !.last = Watermark(w)]
<1>1. s \in WatcherState
  BY Watermark_Type DEF WatchTypeOK, WatcherState, Mailbox
<1>2. watcher' = [watcher EXCEPT ![w] = s] /\ UNCHANGED <<mailbox, began>>
  BY DEF IdleTimeout, WatchTypeOK
<1> QED
  BY <1>1, <1>2 DEF WatchTypeOK

LEMMA Take_Type ==
    ASSUME WatchTypeOK, NEW w \in Watcher, NEW uid \in Uid, NEW pc \in WatcherPc,
           Take(w, uid, pc), UNCHANGED <<mailbox, began>>
    PROVE  WatchTypeOK'
<1> DEFINE l == IF uid > watcher[w].last THEN uid ELSE watcher[w].last
           s == [watcher[w] EXCEPT !.todo = watcher[w].todo \ {uid}, !.uid = uid,
                                   !.last = l, !.pc = pc]
<1>1. watcher[w] \in WatcherState
  BY DEF WatchTypeOK
<1>2. uid \in 0 .. MaxUid /\ l \in 0 .. MaxUid /\ watcher[w].todo \ {uid} \in SUBSET Uid
  BY <1>1, MaxUidAssumption DEF WatcherState, Uid
<1>3. s \in WatcherState
  <2>1. ASSUME NEW t \in SUBSET Uid, NEW k \in 0 .. MaxUid
        PROVE  [watcher[w] EXCEPT !.todo = t, !.uid = uid, !.last = k, !.pc = pc] \in WatcherState
    BY <1>1, <1>2 DEF WatcherState
  <2> QED
    BY <1>2, <2>1, Zenon
<1>4. watcher' = [watcher EXCEPT ![w] = s]
  BY DEF Take, WatchTypeOK
<1> QED
  BY <1>3, <1>4 DEF WatchTypeOK

LEMMA EndBatch_Type ==
    ASSUME WatchTypeOK, NEW w \in Watcher, EndBatch(w)
    PROVE  WatchTypeOK'
<1> DEFINE pc == IF w \in Delivering THEN "drain" ELSE "idle"
<1>1. pc \in WatcherPc /\ 0 \in 0 .. MaxUid
  BY MaxUidAssumption DEF WatcherPc
<1>2. [watcher[w] EXCEPT !.pc = pc, !.uid = 0] \in WatcherState
  BY <1>1 DEF WatchTypeOK, WatcherState
<1>3. watcher' = [watcher EXCEPT ![w] = [watcher[w] EXCEPT !.pc = pc, !.uid = 0]]
  BY DEF EndBatch, WatchTypeOK
<1> QED
  BY <1>2, <1>3 DEF EndBatch, WatchTypeOK

LEMMA QueueAll_Rows ==
    ASSUME EventStoreTypeOK, NEW w, NEW e, QueueAll(w, e), UNCHANGED received
    PROVE  EventStoreTypeOK' /\ RowsKept /\ PromisedStep
BY EnqueueDeliveries_Rows DEF QueueAll

\* A turn of the loop is a stutter, or the enqueueing of new deliveries.
LEMMA WatcherStepOK ==
    ASSUME EventStoreTypeOK, WatchTypeOK, NEW w \in Watcher, WatcherStep(w), UNCHANGED received
    PROVE  EventStoreTypeOK' /\ WatchTypeOK' /\ RowsKept /\ PromisedStep
<1>1. CASE Connect(w)
  BY <1>1, Connect_Type, EventVarsUnchanged DEF Connect
<1>2. CASE Fetch(w)
  BY <1>2, Fetch_Type, EventVarsUnchanged DEF Fetch
<1>3. CASE IdleTimeout(w)
  BY <1>3, IdleTimeout_Type, EventVarsUnchanged DEF IdleTimeout
<1>4. ASSUME NEW uid \in Uid, NewMessage(w, uid)
      PROVE  EventStoreTypeOK' /\ WatchTypeOK' /\ RowsKept /\ PromisedStep
  <2>1. <<watcher[w].known, uid, "new_message">> \in Event
    BY DEF WatchTypeOK, WatcherState, Event, Kind
  <2>2. (IF w \in Delivering THEN "queueMessage" ELSE "scan") \in WatcherPc
    BY DEF WatcherPc
  <2> QED
    BY <1>4, <2>1, <2>2, Take_Type, InsertEvent_Rows DEF NewMessage
<1>5. ASSUME NEW uid \in Uid, KnownMessage(w, uid)
      PROVE  EventStoreTypeOK' /\ WatchTypeOK' /\ RowsKept /\ PromisedStep
  <2>1. "batch" \in WatcherPc /\ "scan" \in WatcherPc
    BY DEF WatcherPc
  <2> QED
    BY <1>5, <2>1, Take_Type, EventVarsUnchanged DEF KnownMessage
<1>6. CASE QueueMessage(w)
  <2>1. "scan" \in WatcherPc
    BY DEF WatcherPc
  <2> QED
    BY <1>6, <2>1, WatcherAt_Type, QueueAll_Rows DEF QueueMessage
<1>7. CASE ScanCode(w)
  <2>1. CodeEvent(w) \in Event
    BY <1>7, CodedAssumption DEF ScanCode, CodeEvent, WatchTypeOK, WatcherState, Event, Kind
  <2>2. (IF w \in Delivering THEN "queueCode" ELSE "batch") \in WatcherPc
    BY DEF WatcherPc
  <2> QED
    BY <1>7, <2>1, <2>2, WatcherAt_Type, InsertEvent_Rows DEF ScanCode
<1>8. CASE NoCode(w)
  <2>1. "batch" \in WatcherPc
    BY DEF WatcherPc
  <2> QED
    BY <1>8, <2>1, WatcherAt_Type, EventVarsUnchanged DEF NoCode
<1>9. CASE QueueCode(w)
  <2>1. "batch" \in WatcherPc
    BY DEF WatcherPc
  <2> QED
    BY <1>9, <2>1, WatcherAt_Type, QueueAll_Rows DEF QueueCode
<1>10. CASE EndBatch(w)
  BY <1>10, EndBatch_Type, EventVarsUnchanged DEF EndBatch
<1> QED
  BY <1>1, <1>2, <1>3, <1>4, <1>5, <1>6, <1>7, <1>8, <1>9, <1>10 DEF WatcherStep

-----------------------------------------------------------------------------
(* The pass.                                                               *)

\* A pass keeps what it knows whoever else writes the rows.
LEMMA PassKept ==
    ASSUME ExecutorTypeOK, NEW x \in Executor, PassOK(x), RowsKept,
           executor'[x] = executor[x],
           \A d \in Delivery : received[d] > 0 => received'[d] > 0
    PROVE  PassOK(x)'
<1>1. executor[x].due \in SUBSET (Delivery \X Nat)
  BY DEF ExecutorTypeOK, ExecutorState
<1> QED
  BY <1>1 DEF PassOK, RowsKept, Enqueued

\* A pass that begins or goes on to its next row, others untouched.
LEMMA NextDelivery_Pass ==
    ASSUME ExecutorTypeOK, PassesOK, RowsKept, NEW x \in Executor,
           NEW due \in SUBSET (Delivery \X Nat),
           \A item \in due : Enqueued(item[1]),
           NextDelivery(x, due), UNCHANGED <<posts, received>>
    PROVE  ExecutorTypeOK' /\ PassesOK'
<1>1. Remaining(due) \in ExecutorState
  BY DEF Remaining, Resting, ExecutorState
<1>2. /\ Remaining(due).pc \in {"idle", "pass"}
      /\ Remaining(due).due = due
  BY DEF Remaining, Resting
<1>3. ExecutorTypeOK'
  BY <1>1 DEF NextDelivery, ExecutorTypeOK
<1>4. executor'[x] = Remaining(due)
  BY DEF NextDelivery, ExecutorTypeOK
<1>5. PassOK(x)'
  BY <1>2, <1>4 DEF PassOK, RowsKept, Enqueued
<1>6. \A y \in Executor \ {x} : executor'[y] = executor[y]
  BY DEF NextDelivery, ExecutorTypeOK
<1>7. \A y \in Executor \ {x} : PassOK(y)'
  BY <1>6, PassKept DEF PassesOK
<1> QED
  BY <1>3, <1>5, <1>7 DEF PassesOK

\* What a pass holds is well-typed and queued.
LEMMA PassHolds ==
    ASSUME ExecutorTypeOK, PassesOK, NEW x \in Executor
    PROVE  /\ executor[x].due \in SUBSET (Delivery \X Nat)
           /\ \A item \in executor[x].due : item[1] \in Delivery /\ Enqueued(item[1])
           /\ executor[x].attempts \in Nat
<1>1. executor[x] \in ExecutorState
  BY DEF ExecutorTypeOK
<1> QED
  BY <1>1 DEF PassesOK, PassOK, ExecutorState

LEMMA ListDue_OK ==
    ASSUME EventStoreTypeOK, ExecutorTypeOK, PassesOK, NEW x \in Executor, ListDue(x)
    PROVE  EventStoreTypeOK' /\ RowsKept /\ PromisedStep /\ ExecutorTypeOK' /\ PassesOK'
<1> DEFINE due == {<<d, deliveries[d].attempts>> : d \in DueDeliveries}
<1>1. EventStoreTypeOK' /\ RowsKept /\ PromisedStep
  BY EventVarsUnchanged DEF ListDue
<1>2. \A d \in DueDeliveries : d \in Delivery /\ Enqueued(d) /\ deliveries[d].attempts \in Nat
  BY EnqueuedIsRow DEF DueDeliveries, Row
<1>3. due \in SUBSET (Delivery \X Nat) /\ \A item \in due : Enqueued(item[1])
  BY <1>2
<1>4. NextDelivery(x, due) /\ UNCHANGED <<posts, received>>
  BY DEF ListDue
<1>5. ExecutorTypeOK' /\ PassesOK'
  BY <1>1, <1>3, <1>4, NextDelivery_Pass
<1> QED
  BY <1>1, <1>5

LEMMA Unroutable_OK ==
    ASSUME EventStoreTypeOK, ExecutorTypeOK, PassesOK, NEW x \in Executor,
           NEW item \in executor[x].due, Unroutable(x, item)
    PROVE  EventStoreTypeOK' /\ RowsKept /\ PromisedStep /\ ExecutorTypeOK' /\ PassesOK'
<1>1. item[1] \in Delivery /\ Enqueued(item[1])
  BY PassHolds
<1>2. EventStoreTypeOK' /\ RowsKept /\ PromisedStep
  BY <1>1, RecordDeliveryFailure_Rows DEF Unroutable
<1>3. ExecutorTypeOK' /\ PassesOK'
  <2>1. /\ executor[x].due \ {item} \in SUBSET (Delivery \X Nat)
        /\ \A i \in executor[x].due \ {item} : Enqueued(i[1])
    BY PassHolds
  <2> QED
    BY <1>2, <2>1, NextDelivery_Pass DEF Unroutable
<1> QED
  BY <1>2, <1>3

LEMMA Post_OK ==
    ASSUME EventStoreTypeOK, ExecutorTypeOK, PassesOK, NEW x \in Executor,
           NEW item \in executor[x].due, Post(x, item)
    PROVE  EventStoreTypeOK' /\ RowsKept /\ PromisedStep /\ ExecutorTypeOK' /\ PassesOK'
<1> DEFINE s == [executor[x] EXCEPT !.pc = "posting", !.due = executor[x].due \ {item},
                                    !.push = item[1], !.attempts = item[2]]
<1>1. /\ item \in Delivery \X Nat
      /\ Enqueued(item[1])
      /\ executor[x].due \ {item} \in SUBSET (Delivery \X Nat)
      /\ \A i \in executor[x].due \ {item} : Enqueued(i[1])
  BY PassHolds
<1>2. EventStoreTypeOK' /\ RowsKept /\ PromisedStep
  BY EventVarsUnchanged DEF Post
<1>3. /\ s \in ExecutorState
      /\ s.pc = "posting" /\ s.push = item[1] /\ s.due = executor[x].due \ {item}
  <2>1. executor[x] \in ExecutorState /\ item[1] \in Delivery /\ item[2] \in Nat
    BY <1>1 DEF ExecutorTypeOK
  <2>2. \A t \in SUBSET (Delivery \X Nat), d \in Delivery, n \in Nat :
            [executor[x] EXCEPT !.pc = "posting", !.due = t, !.push = d, !.attempts = n]
                \in ExecutorState
    BY <2>1 DEF ExecutorState
  <2>3. s \in ExecutorState
    BY <1>1, <2>1, <2>2
  <2>4. s.pc = "posting" /\ s.push = item[1] /\ s.due = executor[x].due \ {item}
    BY <2>1 DEF ExecutorState
  <2> QED
    BY <2>3, <2>4
<1>4. executor' = [executor EXCEPT ![x] = s] /\ UNCHANGED received
  BY DEF Post, ExecutorTypeOK
<1>5. ExecutorTypeOK'
  <2>1. posts' \in [Delivery -> Nat]
    BY <1>1 DEF Post, ExecutorTypeOK
  <2> QED
    BY <1>3, <1>4, <2>1 DEF ExecutorTypeOK
<1>6. PassesOK'
  <2>1. executor'[x] = s /\ \A y \in Executor \ {x} : executor'[y] = executor[y]
    BY <1>4 DEF ExecutorTypeOK
  <2>2. PassOK(x)'
    BY <1>1, <1>2, <1>3, <2>1 DEF PassOK, RowsKept, Enqueued
  <2>3. \A y \in Executor \ {x} : PassOK(y)'
    BY <1>2, <1>4, <2>1, PassKept DEF PassesOK
  <2> QED
    BY <2>2, <2>3 DEF PassesOK
<1> QED
  BY <1>2, <1>5, <1>6

\* The receiver takes a queued delivery.
LEMMA Received_OK ==
    ASSUME EventStoreTypeOK, ExecutorTypeOK, PassesOK, NEW x \in Executor, Received(x)
    PROVE  EventStoreTypeOK' /\ RowsKept /\ PromisedStep /\ ExecutorTypeOK' /\ PassesOK'
<1> DEFINE d == executor[x].push
<1>1. d \in Delivery /\ Enqueued(d)
  BY DEF Received, PassesOK, PassOK
<1>2. EventStoreTypeOK' /\ RowsKept /\ Outcomes' = Outcomes
  BY StoreUnchanged DEF Received, EventStoreTypeOK, eventVars
<1>3. received' = [received EXCEPT ![d] = @ + 1]
  BY DEF Received
<1>4. PromisedStep
  <2>1. Outcomes[d] # "none"
    BY <1>1 DEF Outcomes, Outcome, Enqueued
  <2>2. Promised!Receive(d)
    BY <1>2, <1>3, <2>1 DEF Promised!Receive, Outcomes
  <2> QED
    BY <1>1, <2>2 DEF PromisedStep, Promised!Next
<1>5. /\ received' \in [Delivery -> Nat]
      /\ received'[d] > 0
      /\ \A e \in Delivery : received[e] > 0 => received'[e] > 0
  BY <1>1, <1>3 DEF ExecutorTypeOK
<1>6. /\ [executor[x] EXCEPT !.pc = "taken"] \in ExecutorState
      /\ executor'[x] = [executor[x] EXCEPT !.pc = "taken"]
      /\ \A y \in Executor \ {x} : executor'[y] = executor[y]
      /\ executor' \in [Executor -> ExecutorState]
  BY DEF Received, ExecutorTypeOK, ExecutorState
<1>7. ExecutorTypeOK'
  BY <1>5, <1>6 DEF ExecutorTypeOK, Received
<1>8. PassesOK'
  <2>1. executor'[x].due = executor[x].due /\ executor'[x].push = d
    BY <1>6 DEF ExecutorTypeOK, ExecutorState
  <2>2. PassOK(x)'
    BY <1>1, <1>2, <1>5, <2>1, PassHolds DEF PassOK, RowsKept, Enqueued
  <2>3. \A y \in Executor \ {x} : PassOK(y)'
    BY <1>2, <1>5, <1>6, PassKept DEF PassesOK
  <2> QED
    BY <2>2, <2>3 DEF PassesOK
<1> QED
  BY <1>2, <1>4, <1>7, <1>8

LEMMA PostSucceeded_OK ==
    ASSUME EventStoreTypeOK, ExecutorTypeOK, PassesOK, NEW x \in Executor, PostSucceeded(x)
    PROVE  EventStoreTypeOK' /\ RowsKept /\ PromisedStep /\ ExecutorTypeOK' /\ PassesOK'
<1>1. executor[x].push \in Delivery /\ Enqueued(executor[x].push) /\ received[executor[x].push] > 0
  BY DEF PostSucceeded, PassesOK, PassOK
<1>2. EventStoreTypeOK' /\ RowsKept /\ PromisedStep
  BY <1>1, RecordDeliverySuccess_Rows DEF PostSucceeded
<1>3. ExecutorTypeOK' /\ PassesOK'
  BY <1>2, PassHolds, NextDelivery_Pass DEF PostSucceeded
<1> QED
  BY <1>2, <1>3

LEMMA PostFailed_OK ==
    ASSUME EventStoreTypeOK, ExecutorTypeOK, PassesOK, NEW x \in Executor, PostFailed(x)
    PROVE  EventStoreTypeOK' /\ RowsKept /\ PromisedStep /\ ExecutorTypeOK' /\ PassesOK'
<1>1. executor[x].push \in Delivery /\ Enqueued(executor[x].push)
  BY DEF PostFailed, PassesOK, PassOK
<1>2. NextAttempt(executor[x].attempts + 1) \in {"null", "later"}
  BY DEF NextAttempt
<1>3. EventStoreTypeOK' /\ RowsKept /\ PromisedStep
  BY <1>1, <1>2, RecordDeliveryFailure_Rows DEF PostFailed
<1>4. ExecutorTypeOK' /\ PassesOK'
  BY <1>3, PassHolds, NextDelivery_Pass DEF PostFailed
<1> QED
  BY <1>3, <1>4

\* Passes that end, or go on as they are.
LEMMA PassesEnd ==
    ASSUME ExecutorTypeOK, PassesOK, RowsKept, UNCHANGED <<posts, received>>,
           executor' = [x \in Executor |-> executor'[x]],
           \A x \in Executor : executor'[x] \in {executor[x], Resting}
    PROVE  ExecutorTypeOK' /\ PassesOK'
<1>1. Resting \in ExecutorState
  BY DEF Resting, ExecutorState
<1>2. ExecutorTypeOK'
  BY <1>1 DEF ExecutorTypeOK
<1>3. ASSUME NEW x \in Executor
      PROVE  PassOK(x)'
  <2>1. CASE executor'[x] = executor[x]
    BY <2>1, PassKept DEF PassesOK
  <2>2. CASE executor'[x] = Resting
    BY <2>2 DEF PassOK, Resting
  <2> QED
    BY <2>1, <2>2
<1> QED
  BY <1>2, <1>3 DEF PassesOK

LEMMA Abort_OK ==
    ASSUME EventStoreTypeOK, ExecutorTypeOK, PassesOK, NEW x \in Executor, Abort(x)
    PROVE  EventStoreTypeOK' /\ RowsKept /\ PromisedStep /\ ExecutorTypeOK' /\ PassesOK'
<1>1. EventStoreTypeOK' /\ RowsKept /\ PromisedStep
  BY EventVarsUnchanged DEF Abort
<1>2. /\ executor' = [y \in Executor |-> executor'[y]]
      /\ \A y \in Executor : executor'[y] \in {executor[y], Resting}
  BY DEF Abort, ExecutorTypeOK
<1> QED
  BY <1>1, <1>2, PassesEnd DEF Abort

LEMMA PassStep_OK ==
    ASSUME EventStoreTypeOK, ExecutorTypeOK, PassesOK, NEW x \in Executor, PassStep(x)
    PROVE  EventStoreTypeOK' /\ RowsKept /\ PromisedStep /\ ExecutorTypeOK' /\ PassesOK'
BY Unroutable_OK, Post_OK, Received_OK, PostSucceeded_OK, PostFailed_OK, Abort_OK DEF PassStep

-----------------------------------------------------------------------------
(* The steps of the whole system.                                          *)

\* Who does not touch the executors and what they sent leaves every pass as
\* it was.
LEMMA PassesUntouched ==
    ASSUME ExecutorTypeOK, PassesOK, RowsKept, UNCHANGED pushVars
    PROVE  ExecutorTypeOK' /\ PassesOK'
<1>1. UNCHANGED <<posts, received>> /\ UNCHANGED executor
  BY DEF pushVars
<1>2. executor' = [x \in Executor |-> executor'[x]]
  BY <1>1 DEF ExecutorTypeOK
<1> QED
  BY <1>1, <1>2, PassesEnd

LEMMA MailOK ==
    ASSUME IInv, Mail
    PROVE  IInv' /\ PromisedStep
<1>1. EventStoreTypeOK' /\ RowsKept /\ PromisedStep
  BY EventVarsUnchanged DEF IInv, TypeOK, Mail, MailArrives, ValidityChanges, pushVars
<1>2. ExecutorTypeOK' /\ PassesOK'
  BY <1>1, PassesUntouched DEF IInv, TypeOK, Mail
<1>3. mailbox' \in Mailbox
  <2>1. CASE MailArrives
    BY <2>1, MaxUidAssumption DEF MailArrives, IInv, TypeOK, WatchTypeOK, Mailbox
  <2>2. CASE ValidityChanges
    BY <2>2, MaxUidAssumption, MaxValidityAssumption
       DEF ValidityChanges, IInv, TypeOK, WatchTypeOK, Mailbox, Validity
  <2> QED
    BY <2>1, <2>2 DEF Mail
<1>4. WatchTypeOK'
  BY <1>3 DEF Mail, MailArrives, ValidityChanges, IInv, TypeOK, WatchTypeOK
<1>5. retries' \in [Delivery -> Nat] /\ earlier' \in [Route -> SUBSET Event]
  BY DEF Mail, operatorVars, IInv, TypeOK
<1> QED
  BY <1>1, <1>2, <1>4, <1>5 DEF IInv, TypeOK

LEMMA WatchingOK ==
    ASSUME IInv, Watching
    PROVE  IInv' /\ PromisedStep
<1>1. EventStoreTypeOK' /\ WatchTypeOK' /\ RowsKept /\ PromisedStep
  BY WatcherStepOK DEF IInv, TypeOK, Watching, pushVars
<1>2. ExecutorTypeOK' /\ PassesOK'
  BY <1>1, PassesUntouched DEF IInv, TypeOK, Watching
<1>3. retries' \in [Delivery -> Nat] /\ earlier' \in [Route -> SUBSET Event]
  BY DEF Watching, operatorVars, IInv, TypeOK
<1> QED
  BY <1>1, <1>2, <1>3 DEF IInv, TypeOK

LEMMA DrainingOK ==
    ASSUME IInv, Draining
    PROVE  IInv' /\ PromisedStep
<1>1. PICK w \in Delivering : Drain(w) \/ Drained(w)
  BY DEF Draining
<1>2. w \in Watcher /\ w \in Executor
  BY DeliveringAssumption, ExecutorAssumption
<1>3. CASE Drain(w)
  <2>1. EventStoreTypeOK' /\ PromisedStep /\ ExecutorTypeOK' /\ PassesOK'
    BY <1>2, <1>3, ListDue_OK DEF Drain, IInv, TypeOK
  <2>2. "draining" \in WatcherPc
    BY DEF WatcherPc
  <2>3. WatchTypeOK'
    BY <1>2, <1>3, <2>2, WatcherAt_Type DEF Drain, IInv, TypeOK
  <2> QED
    BY <2>1, <2>3 DEF Draining, operatorVars, IInv, TypeOK
<1>4. CASE Drained(w)
  <2>1. EventStoreTypeOK' /\ RowsKept /\ PromisedStep
    BY <1>4, EventVarsUnchanged DEF Drained, IInv, TypeOK, pushVars
  <2>2. ExecutorTypeOK' /\ PassesOK'
    BY <1>4, <2>1, PassesUntouched DEF Drained, IInv, TypeOK
  <2>3. "idle" \in WatcherPc
    BY DEF WatcherPc
  <2>4. WatchTypeOK'
    BY <1>2, <1>4, <2>3, WatcherAt_Type DEF Drained, IInv, TypeOK
  <2> QED
    BY <2>1, <2>2, <2>4 DEF Draining, operatorVars, IInv, TypeOK
<1> QED
  BY <1>1, <1>3, <1>4

LEMMA StoppingOK ==
    ASSUME IInv, Stopping
    PROVE  IInv' /\ PromisedStep
<1>1. PICK w \in Watcher :
          /\ Stop(w)
          /\ executor' = [x \in Executor |-> IF x = w THEN Resting ELSE executor[x]]
  BY DEF Stopping
<1>2. EventStoreTypeOK' /\ RowsKept /\ PromisedStep
  BY <1>1, EventVarsUnchanged DEF Stop, Stopping, IInv, TypeOK
<1>3. /\ executor' = [x \in Executor |-> executor'[x]]
      /\ \A x \in Executor : executor'[x] \in {executor[x], Resting}
  BY <1>1
<1>4. ExecutorTypeOK' /\ PassesOK'
  BY <1>2, <1>3, PassesEnd DEF Stopping, IInv, TypeOK
<1>5. WatchTypeOK'
  BY <1>1, Off_Type, Nowhere_Type DEF Stop, IInv, TypeOK, WatchTypeOK
<1> QED
  BY <1>2, <1>4, <1>5 DEF Stopping, operatorVars, IInv, TypeOK

LEMMA ExecutingOK ==
    ASSUME IInv, Executing
    PROVE  IInv' /\ PromisedStep
<1>1. PICK x \in Executor : ExecutorStep(x)
  BY DEF Executing
<1>2. PassStep(x) \/ ListDue(x)
  BY <1>1 DEF ExecutorStep, Tick
<1>3. EventStoreTypeOK' /\ PromisedStep /\ ExecutorTypeOK' /\ PassesOK'
  BY <1>2, PassStep_OK, ListDue_OK DEF IInv, TypeOK
<1>4. WatchTypeOK'
  BY DEF Executing, watchVars, IInv, TypeOK, WatchTypeOK
<1> QED
  BY <1>3, <1>4 DEF Executing, operatorVars, IInv, TypeOK

LEMMA WatchersUntouched ==
    ASSUME WatchTypeOK, UNCHANGED watchVars
    PROVE  WatchTypeOK'
BY DEF watchVars, WatchTypeOK

LEMMA OperatingOK ==
    ASSUME IInv, Operating
    PROVE  IInv' /\ PromisedStep
<1>1. ASSUME NEW r \in Route, AddRoute(r) \/ RemoveRoute(r)
      PROVE  IInv' /\ PromisedStep
  <2>1. routes' \in [Route -> {"absent", "enabled", "removed"}] /\ UNCHANGED <<events, deliveries>>
    BY <1>1 DEF AddRoute, RemoveRoute, CreateEventRoute, DeleteEventRoute, IInv, TypeOK,
                EventStoreTypeOK
  <2>2. UNCHANGED watchVars /\ UNCHANGED pushVars /\ UNCHANGED received
    BY <1>1 DEF AddRoute, RemoveRoute, pushVars
  <2>3. EventStoreTypeOK' /\ RowsKept /\ PromisedStep
    BY <2>1, <2>2, Stutters DEF IInv, TypeOK, EventStoreTypeOK
  <2>4. ExecutorTypeOK' /\ PassesOK' /\ WatchTypeOK'
    BY <2>2, <2>3, PassesUntouched, WatchersUntouched DEF IInv, TypeOK
  <2>5. retries' \in [Delivery -> Nat] /\ earlier' \in [Route -> SUBSET Event]
    BY <1>1 DEF AddRoute, RemoveRoute, operatorVars, IInv, TypeOK, EventStoreTypeOK
  <2> QED
    BY <2>3, <2>4, <2>5 DEF IInv, TypeOK
<1>2. ASSUME NEW d \in Delivery, RetryDelivery(d)
      PROVE  IInv' /\ PromisedStep
  <2>1. EventStoreTypeOK' /\ RowsKept /\ PromisedStep
    BY <1>2, ResetDeliveryForRetry_Rows DEF RetryDelivery, IInv, TypeOK, pushVars
  <2>2. ExecutorTypeOK' /\ PassesOK' /\ WatchTypeOK'
    BY <1>2, <2>1, PassesUntouched, WatchersUntouched DEF RetryDelivery, IInv, TypeOK
  <2>3. retries' \in [Delivery -> Nat] /\ earlier' \in [Route -> SUBSET Event]
    BY <1>2 DEF RetryDelivery, IInv, TypeOK
  <2> QED
    BY <2>1, <2>2, <2>3 DEF IInv, TypeOK
<1> QED
  BY <1>1, <1>2 DEF Operating

LEMMA ClockOK ==
    ASSUME IInv, Clock
    PROVE  IInv' /\ PromisedStep
<1>1. EventStoreTypeOK' /\ RowsKept /\ PromisedStep
  BY BackoffElapses_Rows DEF Clock, IInv, TypeOK, pushVars
<1>2. ExecutorTypeOK' /\ PassesOK' /\ WatchTypeOK'
  BY <1>1, PassesUntouched, WatchersUntouched DEF Clock, IInv, TypeOK
<1> QED
  BY <1>1, <1>2 DEF Clock, operatorVars, IInv, TypeOK

LEMMA StutterOK ==
    ASSUME IInv, UNCHANGED vars
    PROVE  IInv' /\ PromisedStep
<1>1. UNCHANGED eventVars /\ UNCHANGED watchVars /\ UNCHANGED pushVars /\ UNCHANGED operatorVars
  BY DEF vars
<1>2. EventStoreTypeOK' /\ RowsKept /\ PromisedStep
  BY <1>1, EventVarsUnchanged DEF pushVars, IInv, TypeOK
<1>3. ExecutorTypeOK' /\ PassesOK' /\ WatchTypeOK'
  BY <1>1, <1>2, PassesUntouched, WatchersUntouched DEF IInv, TypeOK
<1> QED
  BY <1>1, <1>2, <1>3 DEF operatorVars, IInv, TypeOK

LEMMA NextOK == IInv /\ [Next]_vars => IInv' /\ PromisedStep
BY MailOK, WatchingOK, DrainingOK, StoppingOK, ExecutingOK, OperatingOK, ClockOK, StutterOK
   DEF Next

LEMMA InitOK == Init => IInv /\ Promised!Init
<1> SUFFICES ASSUME Init PROVE IInv /\ Promised!Init
  OBVIOUS
<1>1. EventStoreTypeOK
  BY DEF Init, EventStoreTypeOK
<1>2. WatchTypeOK
  <2>1. mailbox \in Mailbox
    BY MaxValidityAssumption DEF Init, WatchInit, Mailbox, Validity
  <2> QED
    BY <2>1, Off_Type, Nowhere_Type DEF Init, WatchInit, WatchTypeOK
<1>3. ExecutorTypeOK /\ PassesOK
  <2>1. Resting \in ExecutorState
    BY DEF Resting, ExecutorState
  <2>2. ExecutorTypeOK
    BY <2>1 DEF Init, ExecutorInit, ExecutorTypeOK
  <2>3. \A x \in Executor : executor[x] = Resting
    BY DEF Init, ExecutorInit
  <2> QED
    BY <2>2, <2>3 DEF PassesOK, PassOK, Resting
<1>4. retries \in [Delivery -> Nat] /\ earlier \in [Route -> SUBSET Event]
  BY DEF Init
<1>5. Promised!Init
  <2>1. \A d \in Delivery : Outcome(deliveries[d]) = "none"
    BY DEF Init, Outcome
  <2> QED
    BY <2>1 DEF Promised!Init, Init, ExecutorInit
<1> QED
  BY <1>1, <1>2, <1>3, <1>4, <1>5 DEF IInv, TypeOK

-----------------------------------------------------------------------------
\* In every reachable state the passes hold only queued rows, and a row about
\* to be called delivered was taken (deliver_due_events records a success only
\* after a 2xx answer).
THEOREM Invariance == Spec => []IInv
<1>1. Init => IInv
  BY InitOK
<1>2. IInv /\ [Next]_vars => IInv'
  BY NextOK
<1> QED
  BY <1>1, <1>2, PTL DEF Spec

\* The tables, the watches' watermarks and the executors' lists keep their
\* types: no watch leaves the bounds of its folder, no count goes below zero.
THEOREM TypeCorrect == Spec => []TypeOK
<1>1. IInv => TypeOK
  BY DEF IInv
<1> QED
  BY <1>1, Invariance, PTL

\* Webhook push implements the at-least-once promise (docs/webhooks.md) for
\* any number of executors racing without a claim: a delivery is pending until
\* it is taken or given up, it is called delivered only when the receiver took
\* it, and whatever a late or stale writer does, delivered is final.
THEOREM PushImplementsPromise == Spec => KeepsPushPromise
<1>1. Init => Promised!Init
  BY InitOK
<1>2. IInv /\ [Next]_vars => PromisedStep
  BY NextOK
<1> QED
  BY <1>1, <1>2, Invariance, PTL DEF Spec, KeepsPushPromise, Promised!Spec, PromisedStep

-----------------------------------------------------------------------------
(***************************************************************************)
(* From the mailbox to the queue, and from the queue to the receiver, when *)
(* nothing fails: no message is passed over, no event is made for an old   *)
(* one, codes are announced, events are queued, attempts are counted, and  *)
(* only a delivery that used up its retries is given up.  Watches compete  *)
(* for messages and executors for rows, in any numbers.                    *)
(*                                                                         *)
(* Everything from here on is under ~Faults: a failed statement is logged  *)
(* and passed over, so with faults none of these holds, which is why the   *)
(* promise proved above with faults is a weaker one.                       *)
(***************************************************************************)

\* A watch with a message in hand.
InHand == {"queueMessage", "scan", "queueCode"}

Seen(w, uid) == <<watcher[w].known, uid, "new_message">> \in events

\* A batch may be taken in any order, so what is owed reaches up to the highest
\* message still in it.
Reached(w, uid) == uid <= watcher[w].last \/ \E t \in watcher[w].todo : uid <= t

\* What a watch that runs knows of its folder.
WatchInv(w) ==
    watcher[w].pc # "off" =>
        /\ watcher[w].pc \in {"idle", "drain", "draining"} => watcher[w].todo = {}
        /\ began[w].validity <= watcher[w].known
        /\ watcher[w].known <= mailbox.validity
        /\ watcher[w].known = began[w].validity =>
              /\ began[w].top <= watcher[w].last
              /\ \A t \in watcher[w].todo : began[w].top < t
              /\ watcher[w].pc \in InHand => began[w].top < watcher[w].uid
        /\ \A uid \in Uid :
              Floor(w) < uid /\ Reached(w, uid) => Seen(w, uid) \/ uid \in watcher[w].todo

WatchesInv == ~Faults => \A w \in Watcher : WatchInv(w)

-----------------------------------------------------------------------------
(* The watermark.                                                          *)

LEMMA WatchTypes ==
    ASSUME WatchTypeOK, NEW w \in Watcher
    PROVE  /\ watcher[w] \in WatcherState
           /\ watcher[w].known \in Nat /\ watcher[w].last \in Nat
           /\ watcher[w].uid \in Nat
           /\ watcher[w].todo \subseteq Nat /\ watcher[w].todo \subseteq Uid
           /\ began[w].validity \in Nat /\ began[w].top \in Nat
           /\ mailbox.validity \in Nat /\ mailbox.top \in Nat
           /\ mailbox \in [validity : Nat, top : Nat]
           /\ Floor(w) \in Nat
<1>1. watcher[w] \in WatcherState /\ began[w] \in Mailbox /\ mailbox \in Mailbox
  BY DEF WatchTypeOK
<1>2. Validity \subseteq Nat /\ Uid \subseteq Nat /\ 0 .. MaxUid \subseteq Nat
  BY MaxUidAssumption, MaxValidityAssumption DEF Validity, Uid
<1> QED
  BY <1>1, <1>2 DEF WatcherState, Mailbox, Floor

\* A watch that is not touched keeps what it knows: events are never deleted,
\* and UIDVALIDITY never goes back.
LEMMA WatchKept ==
    ASSUME WatchTypeOK, WatchTypeOK', NEW w \in Watcher, WatchInv(w),
           watcher'[w] = watcher[w], began'[w] = began[w],
           events \subseteq events', mailbox.validity <= mailbox'.validity
    PROVE  WatchInv(w)'
<1>1. mailbox'.validity \in Nat
  BY WatchTypes, MaxValidityAssumption DEF WatchTypeOK, Mailbox, Validity
<1>2. Floor(w)' = Floor(w)
  BY DEF Floor
<1>3. \A uid \in Uid : (Seen(w, uid) => Seen(w, uid)') /\ Reached(w, uid)' = Reached(w, uid)
  BY DEF Seen, Reached
<1> QED
  BY <1>1, <1>2, <1>3, WatchTypes DEF WatchInv

LEMMA ConnectWatches ==
    ASSUME WatchTypeOK, ~Faults, NEW w \in Watcher, Connect(w)
    PROVE  WatchInv(w)'
<1>1. /\ watcher'[w].pc = "idle" /\ watcher'[w].last = mailbox.top
      /\ watcher'[w].known = mailbox.validity
      /\ watcher'[w].todo = {} /\ began'[w] = mailbox /\ mailbox' = mailbox
  BY DEF Connect, WatchTypeOK, Off
<1>2. mailbox.validity \in Nat /\ mailbox.top \in Nat
  BY WatchTypes
<1>3. Floor(w)' = mailbox.top
  BY <1>1 DEF Floor
<1>4. \A uid \in Uid : ~(mailbox.top < uid /\ Reached(w, uid)')
  BY <1>1, <1>2, MaxUidAssumption DEF Reached, Uid
<1> QED
  BY <1>1, <1>2, <1>3, <1>4 DEF WatchInv, InHand

\* Selecting the folder again: with a new UIDVALIDITY nothing is behind the
\* watch, and with the same one the watermark stands.
LEMMA SelectWatches ==
    ASSUME WatchTypeOK, NEW w \in Watcher, WatchInv(w),
           watcher[w].pc = "idle", UNCHANGED <<mailbox, began, events>>,
           watcher'[w].pc \in {"idle", "batch"},
           watcher'[w].known = mailbox.validity, watcher'[w].last = Watermark(w),
           watcher'[w].todo = {}
               \/ (watcher'[w].pc = "batch"
                     /\ watcher'[w].todo = Watermark(w) + 1 .. mailbox.top)
    PROVE  WatchInv(w)'
<1>1. /\ watcher[w].todo = {}
      /\ began[w].validity <= watcher[w].known /\ watcher[w].known <= mailbox.validity
      /\ watcher[w].known = began[w].validity => began[w].top <= watcher[w].last
      /\ \A uid \in Uid : Floor(w) < uid /\ uid <= watcher[w].last => Seen(w, uid)
  BY DEF WatchInv, Reached
<1>2. \A uid \in Uid : uid \in Nat
  BY MaxUidAssumption DEF Uid
<1>3. Watermark(w) \in Nat
  BY WatchTypes DEF Watermark
<1>4. \A t \in watcher'[w].todo : t \in Nat /\ Watermark(w) < t
  BY <1>3, WatchTypes
<1>5. \A uid \in Uid : Watermark(w) < uid /\ Reached(w, uid)' => uid \in watcher'[w].todo
  BY <1>2, <1>3, <1>4, WatchTypes DEF Reached
<1>6. CASE watcher[w].known = mailbox.validity
  <2>1. Watermark(w) = watcher[w].last /\ Floor(w)' = Floor(w)
    BY <1>6 DEF Watermark, Floor
  <2>2. \A uid \in Uid : Seen(w, uid) => Seen(w, uid)'
    BY <1>6 DEF Seen
  <2>3. \A uid \in Uid :
            Floor(w)' < uid /\ Reached(w, uid)' => Seen(w, uid)' \/ uid \in watcher'[w].todo
    BY <1>1, <1>2, <1>3, <1>5, <2>1, <2>2
  <2> QED
    BY <1>1, <1>4, <1>6, <2>1, <2>3, WatchTypes DEF WatchInv, InHand
<1>7. CASE watcher[w].known # mailbox.validity
  <2>1. Watermark(w) = 0 /\ Floor(w)' = 0 /\ mailbox.validity # began[w].validity
    BY <1>1, <1>7, WatchTypes DEF Watermark, Floor
  <2>2. \A uid \in Uid : Floor(w)' < uid /\ Reached(w, uid)' => uid \in watcher'[w].todo
    BY <1>5, <2>1
  <2> QED
    BY <1>1, <2>1, <2>2, WatchTypes DEF WatchInv, InHand
<1> QED
  BY <1>6, <1>7

\* The watermark moves to a message whose event is there, or stays above it.
LEMMA TakeWatches ==
    ASSUME WatchTypeOK, NEW w \in Watcher, WatchInv(w), NEW uid \in Uid,
           NEW pc \in {"queueMessage", "scan", "batch"}, Take(w, uid, pc),
           events \subseteq events', <<watcher[w].known, uid, "new_message">> \in events',
           UNCHANGED <<mailbox, began>>
    PROVE  WatchInv(w)'
<1>1. watcher[w] \in WatcherState /\ uid \in watcher[w].todo /\ watcher[w].pc = "batch"
  BY WatchTypes DEF Take
<1>2. /\ watcher'[w].pc = pc /\ watcher'[w].known = watcher[w].known
      /\ watcher'[w].uid = uid /\ watcher'[w].todo = watcher[w].todo \ {uid}
      /\ watcher'[w].last = IF uid > watcher[w].last THEN uid ELSE watcher[w].last
  BY <1>1 DEF Take, WatchTypeOK, WatcherState
<1>3. \A u \in Uid : u \in Nat
  BY MaxUidAssumption DEF Uid
<1>4. Floor(w)' = Floor(w)
  BY <1>2 DEF Floor
<1>5. \A u \in Uid : Reached(w, u)' => Reached(w, u)
  BY <1>1, <1>2, <1>3, WatchTypes DEF Reached
<1>6. \A u \in Uid : Seen(w, u) => Seen(w, u)'
  BY <1>2 DEF Seen
<1>7. Seen(w, uid)'
  BY <1>2 DEF Seen
<1>8. \A u \in Uid :
          Floor(w)' < u /\ Reached(w, u)' => Seen(w, u)' \/ u \in watcher'[w].todo
  BY <1>1, <1>2, <1>4, <1>5, <1>6, <1>7 DEF WatchInv
<1>9. watcher'[w].known = began'[w].validity =>
          /\ began'[w].top <= watcher'[w].last
          /\ \A t \in watcher'[w].todo : began'[w].top < t
          /\ began'[w].top < watcher'[w].uid
  BY <1>1, <1>2, <1>3, WatchTypes DEF WatchInv
<1> QED
  BY <1>1, <1>2, <1>8, <1>9 DEF WatchInv

\* The steps that only move the control point.
LEMMA MoveWatches ==
    ASSUME WatchTypeOK, NEW w \in Watcher, WatchInv(w), watcher[w].pc # "off",
           watcher'[w].known = watcher[w].known, watcher'[w].last = watcher[w].last,
           watcher'[w].todo = watcher[w].todo,
           watcher'[w].pc \in {"idle", "drain", "draining"} => watcher[w].todo = {},
           watcher'[w].pc \in InHand =>
               watcher[w].pc \in InHand /\ watcher'[w].uid = watcher[w].uid,
           events \subseteq events', UNCHANGED <<mailbox, began>>
    PROVE  WatchInv(w)'
<1>1. Floor(w)' = Floor(w)
  BY DEF Floor
<1>2. \A uid \in Uid : (Seen(w, uid) => Seen(w, uid)') /\ Reached(w, uid)' = Reached(w, uid)
  BY DEF Seen, Reached
<1> QED
  BY <1>1, <1>2 DEF WatchInv

\* A turn of the loop, without faults.
LEMMA TurnWatches ==
    ASSUME WatchTypeOK, WatchTypeOK', ~Faults, NEW w \in Watcher, WatcherStep(w),
           WatchInv(w)
    PROVE  WatchInv(w)'
<1>1. watcher[w] \in WatcherState
  BY WatchTypes
<1>2. CASE Connect(w)
  BY <1>2, ConnectWatches
<1>3. CASE Fetch(w)
  <2>1. /\ watcher'[w].pc = "batch" /\ watcher'[w].known = mailbox.validity
        /\ watcher'[w].last = Watermark(w) /\ watcher'[w].todo = Watermark(w) + 1 .. mailbox.top
    BY <1>1, <1>3 DEF Fetch, WatchTypeOK, WatcherState
  <2> QED
    BY <1>1, <1>3, <2>1, SelectWatches DEF Fetch, eventVars
<1>4. CASE IdleTimeout(w)
  <2>1. /\ watcher'[w].pc = "idle" /\ watcher'[w].known = mailbox.validity
        /\ watcher'[w].last = Watermark(w) /\ watcher'[w].todo = watcher[w].todo
    BY <1>1, <1>4 DEF IdleTimeout, WatchTypeOK, WatcherState
  <2>2. watcher[w].todo = {}
    BY <1>1, <1>4 DEF IdleTimeout, WatchInv
  <2> QED
    BY <1>1, <1>4, <2>1, <2>2, SelectWatches DEF IdleTimeout, eventVars
<1>5. ASSUME NEW uid \in Uid, NewMessage(w, uid) \/ KnownMessage(w, uid)
      PROVE  WatchInv(w)'
  <2>1. PICK pc \in {"queueMessage", "scan", "batch"} : Take(w, uid, pc)
    BY <1>5 DEF NewMessage, KnownMessage
  <2>2. /\ events \subseteq events' /\ <<watcher[w].known, uid, "new_message">> \in events'
        /\ UNCHANGED <<mailbox, began>>
    BY <1>5 DEF NewMessage, KnownMessage, InsertEvent, eventVars
  <2> QED
    BY <1>1, <2>1, <2>2, TakeWatches
<1>6. CASE QueueMessage(w) \/ ScanCode(w) \/ NoCode(w) \/ QueueCode(w)
  <2>1. PICK pc \in {"scan", "queueCode", "batch"} : WatcherAt(w, pc)
    BY <1>6 DEF QueueMessage, ScanCode, NoCode, QueueCode
  <2>2. watcher[w].pc \in InHand
    BY <1>6 DEF QueueMessage, ScanCode, NoCode, QueueCode, InHand
  <2>3. events \subseteq events' /\ UNCHANGED <<mailbox, began>>
    BY <1>6 DEF QueueMessage, ScanCode, NoCode, QueueCode, QueueAll, EnqueueDeliveries,
                InsertEvent, eventVars
  <2>4. /\ watcher'[w].pc = pc /\ watcher'[w].known = watcher[w].known
        /\ watcher'[w].last = watcher[w].last /\ watcher'[w].todo = watcher[w].todo
        /\ watcher'[w].uid = watcher[w].uid
    BY <1>1, <2>1 DEF WatcherAt, WatchTypeOK, WatcherState
  <2> QED
    BY <1>1, <2>2, <2>3, <2>4, MoveWatches DEF InHand
<1>7. CASE EndBatch(w)
  <2>1. /\ watcher'[w].pc \in {"drain", "idle"} /\ watcher'[w].known = watcher[w].known
        /\ watcher'[w].last = watcher[w].last /\ watcher'[w].todo = watcher[w].todo
    BY <1>1, <1>7 DEF EndBatch, WatchTypeOK, WatcherState
  <2> QED
    BY <1>1, <1>7, <2>1, MoveWatches DEF EndBatch, InHand, eventVars
<1> QED
  BY <1>2, <1>3, <1>4, <1>5, <1>6, <1>7 DEF WatcherStep

\* It leaves the other watches and the folder alone.
LEMMA TurnsAlone ==
    ASSUME WatchTypeOK, NEW w \in Watcher, WatcherStep(w)
    PROVE  /\ \A v \in Watcher \ {w} : watcher'[v] = watcher[v] /\ began'[v] = began[v]
           /\ events \subseteq events' /\ mailbox' = mailbox
<1>1. \A v \in Watcher \ {w} : watcher'[v] = watcher[v] /\ began'[v] = began[v]
  BY DEF WatcherStep, Connect, Fetch, IdleTimeout, NewMessage, KnownMessage, Take,
         QueueMessage, ScanCode, NoCode, QueueCode, EndBatch, WatcherAt, WatchTypeOK
<1>2. events \subseteq events' /\ mailbox' = mailbox
  BY DEF WatcherStep, Connect, Fetch, IdleTimeout, NewMessage, KnownMessage, InsertEvent,
         QueueMessage, QueueAll, EnqueueDeliveries, ScanCode, NoCode, QueueCode, EndBatch,
         eventVars
<1> QED
  BY <1>1, <1>2

\* What the steps of everybody else do to the watches: nothing that matters to
\* a message in hand.
LEMMA OthersWatch ==
    ASSUME IInv, ~Faults, [Next]_vars, ~Watching
    PROVE  /\ events' = events
           /\ mailbox.validity <= mailbox'.validity
           /\ \A w \in Watcher :
                 \/ watcher'[w] = watcher[w] /\ began'[w] = began[w]
                 \/ /\ watcher[w].pc \in {"drain", "draining"}
                    /\ watcher'[w] = [watcher[w] EXCEPT !.pc = IF @ = "drain" THEN "draining"
                                                                              ELSE "idle"]
                    /\ UNCHANGED <<mailbox, began>>
                 \/ watcher[w].pc = "idle" /\ watcher'[w] = Off
<1>1. WatchTypeOK
  BY DEF IInv, TypeOK
<1>2. mailbox.validity \in Nat /\ mailbox \in Mailbox
  BY <1>1, MaxValidityAssumption DEF WatchTypeOK, Mailbox, Validity
<1>3. CASE Mail
  <2>1. mailbox.validity <= mailbox'.validity
    BY <1>2, <1>3 DEF Mail, MailArrives, ValidityChanges, Mailbox
  <2> QED
    BY <1>3, <2>1 DEF Mail, MailArrives, ValidityChanges, eventVars
<1>4. CASE Draining
  <2>1. PICK w \in Delivering : Drain(w) \/ Drained(w)
    BY <1>4 DEF Draining
  <2>2. /\ events' = events /\ UNCHANGED <<mailbox, began>>
        /\ watcher[w].pc \in {"drain", "draining"}
        /\ WatcherAt(w, IF watcher[w].pc = "drain" THEN "draining" ELSE "idle")
    BY <2>1 DEF Drain, Drained, ListDue, eventVars
  <2>3. \A v \in Watcher :
            watcher'[v] = IF v = w
                          THEN [watcher[w] EXCEPT !.pc = IF @ = "drain" THEN "draining" ELSE "idle"]
                          ELSE watcher[v]
    BY <1>1, <2>2, DeliveringAssumption DEF WatcherAt, WatchTypeOK, WatcherState
  <2> QED
    BY <1>2, <2>2, <2>3
<1>5. CASE Stopping
  BY <1>1, <1>2, <1>5 DEF Stopping, Stop, eventVars, WatchTypeOK
<1>6. CASE Executing
  <2>1. UNCHANGED <<mailbox, watcher, began>>
    BY <1>6 DEF Executing, watchVars
  <2>2. PICK x \in Executor : ExecutorStep(x)
    BY <1>6 DEF Executing
  <2>3. events' = events
    <3>1. CASE ListDue(x) \/ Received(x) \/ Abort(x)
      BY <3>1 DEF ListDue, Received, Abort, eventVars
    <3>2. CASE PostSucceeded(x)
      BY <3>2 DEF PostSucceeded, RecordDeliverySuccess
    <3>3. CASE PostFailed(x)
      BY <3>3 DEF PostFailed, RecordDeliveryFailure
    <3>4. ASSUME NEW item \in executor[x].due, Unroutable(x, item) \/ Post(x, item)
          PROVE  events' = events
      BY <3>4 DEF Unroutable, Post, RecordDeliveryFailure, eventVars
    <3> QED
      BY <2>2, <3>1, <3>2, <3>3, <3>4 DEF ExecutorStep, Tick, PassStep
  <2> QED
    BY <1>2, <2>1, <2>3
<1>7. CASE Operating
  <2>1. UNCHANGED watchVars /\ events' = events
    <3>1. CASE \E r \in Route : AddRoute(r) \/ RemoveRoute(r)
      BY <3>1 DEF AddRoute, RemoveRoute, CreateEventRoute, DeleteEventRoute
    <3>2. CASE \E d \in Delivery : RetryDelivery(d)
      BY <3>2 DEF RetryDelivery, ResetDeliveryForRetry
    <3> QED
      BY <1>7, <3>1, <3>2 DEF Operating
  <2> QED
    BY <1>2, <2>1 DEF watchVars
<1>8. CASE Clock
  BY <1>2, <1>8 DEF Clock, BackoffElapses, watchVars
<1>9. CASE UNCHANGED vars
  BY <1>2, <1>9 DEF vars, watchVars, eventVars
<1> QED
  BY <1>3, <1>4, <1>5, <1>6, <1>7, <1>8, <1>9 DEF Next

LEMMA WatchesNext == IInv /\ WatchesInv /\ [Next]_vars => WatchesInv'
<1> SUFFICES ASSUME IInv, WatchesInv, [Next]_vars, ~Faults
             PROVE  \A w \in Watcher : WatchInv(w)'
  BY DEF WatchesInv
<1>1. WatchTypeOK /\ WatchTypeOK' /\ \A w \in Watcher : WatchInv(w)
  BY NextOK DEF IInv, TypeOK, WatchesInv
<1>2. CASE Watching
  <2>1. PICK w \in Watcher : WatcherStep(w)
    BY <1>2 DEF Watching
  <2>2. WatchInv(w)'
    BY <1>1, <2>1, TurnWatches
  <2>3. mailbox.validity <= mailbox'.validity
    BY <1>1, <2>1, TurnsAlone, WatchTypes
  <2>4. \A v \in Watcher \ {w} : WatchInv(v)'
    BY <1>1, <2>1, <2>3, TurnsAlone, WatchKept
  <2> QED
    BY <2>2, <2>4
<1>3. CASE ~Watching
  <2> SUFFICES ASSUME NEW w \in Watcher PROVE WatchInv(w)'
    OBVIOUS
  <2>1. events' = events /\ mailbox.validity <= mailbox'.validity
    BY <1>3, OthersWatch
  <2>2. CASE watcher'[w] = watcher[w] /\ began'[w] = began[w]
    BY <1>1, <2>1, <2>2, WatchKept
  <2>3. CASE /\ watcher[w].pc \in {"drain", "draining"}
             /\ watcher'[w] = [watcher[w] EXCEPT !.pc = IF @ = "drain" THEN "draining"
                                                                       ELSE "idle"]
             /\ UNCHANGED <<mailbox, began>>
    <3>1. /\ watcher'[w].pc \in {"draining", "idle"} /\ watcher'[w].known = watcher[w].known
          /\ watcher'[w].last = watcher[w].last /\ watcher'[w].todo = watcher[w].todo
      BY <1>1, <2>3 DEF WatchTypeOK, WatcherState
    <3>2. watcher[w].todo = {}
      BY <1>1, <2>3 DEF WatchInv
    <3> QED
      BY <1>1, <2>1, <2>3, <3>1, <3>2, MoveWatches DEF InHand
  <2>4. CASE watcher'[w] = Off
    BY <2>4 DEF WatchInv, Off
  <2> QED
    BY <1>3, <2>2, <2>3, <2>4, OthersWatch
<1> QED
  BY <1>2, <1>3

-----------------------------------------------------------------------------
(* Codes and deliveries: what a watch has in hand is not forgotten.        *)

CodesInv == ~Faults => CodesAreAnnounced

\* A watch without --deliver queues nothing.
QueuedInv == ~Faults /\ Delivering = Watcher => EventsAreQueued

\* A message in hand stays there.
HandKept(w, pcs) ==
    watcher[w].pc \in pcs =>
        /\ watcher'[w].pc \in pcs
        /\ watcher'[w].known = watcher[w].known /\ watcher'[w].uid = watcher[w].uid

LEMMA CodesKept ==
    ASSUME CodesAreAnnounced, events' = events,
           \A w \in Watcher : HandKept(w, {"queueMessage", "scan"})
    PROVE  CodesAreAnnounced'
BY DEF CodesAreAnnounced, HandKept, AtWork

\* One new event, and nothing else in hand is put down.
LEMMA CodesGrow ==
    ASSUME CodesAreAnnounced, NEW new, events' = events \cup {new},
           \A e \in events :
               \A w \in Watcher : AtWork(w, e[1], e[2], {"queueMessage", "scan"}) =>
                   \/ AtWork(w, e[1], e[2], {"queueMessage", "scan"})'
                   \/ <<e[1], e[2], "otp_detected">> \in events',
           new[3] = "new_message" =>
               \E w \in Watcher : AtWork(w, new[1], new[2], {"queueMessage", "scan"})'
    PROVE  CodesAreAnnounced'
BY DEF CodesAreAnnounced

LEMMA HandsAlone ==
    ASSUME WatchTypeOK, NEW w \in Watcher, WatcherStep(w), NEW pcs, HandKept(w, pcs)
    PROVE  \A v \in Watcher : HandKept(v, pcs)
BY TurnsAlone DEF HandKept

LEMMA TurnCodes ==
    ASSUME IInv, ~Faults, NEW w \in Watcher, WatcherStep(w), CodesAreAnnounced
    PROVE  CodesAreAnnounced'
<1> DEFINE pcs == {"queueMessage", "scan"}
<1>1. WatchTypeOK /\ watcher[w] \in WatcherState
  BY WatchTypes DEF IInv, TypeOK
<1>2. ASSUME events' = events, HandKept(w, pcs)
      PROVE  CodesAreAnnounced'
  BY <1>1, <1>2, HandsAlone, CodesKept
<1>3. CASE Connect(w) \/ Fetch(w) \/ IdleTimeout(w) \/ QueueCode(w) \/ EndBatch(w)
  <2>1. watcher[w].pc \notin pcs
    BY <1>3 DEF Connect, Fetch, IdleTimeout, QueueCode, EndBatch
  <2>2. events' = events
    BY <1>3 DEF Connect, Fetch, IdleTimeout, QueueCode, EndBatch, QueueAll,
                EnqueueDeliveries, eventVars
  <2> QED
    BY <1>2, <2>1, <2>2 DEF HandKept
<1>4. ASSUME NEW uid \in Uid, KnownMessage(w, uid)
      PROVE  CodesAreAnnounced'
  BY <1>2, <1>4 DEF KnownMessage, Take, HandKept, eventVars
<1>5. ASSUME NEW uid \in Uid, NewMessage(w, uid)
      PROVE  CodesAreAnnounced'
  <2>1. PICK new : new = <<watcher[w].known, uid, "new_message">>
    OBVIOUS
  <2>2. events' = events \cup {new}
    BY <1>5, <2>1 DEF NewMessage, InsertEvent
  <2>3. /\ watcher[w].pc = "batch" /\ watcher'[w].pc \in pcs
        /\ watcher'[w].known = watcher[w].known /\ watcher'[w].uid = uid
    BY <1>1, <1>5 DEF NewMessage, Take, WatchTypeOK, WatcherState
  <2>4. \E v \in Watcher : AtWork(v, new[1], new[2], pcs)'
    BY <2>1, <2>3 DEF AtWork
  <2>5. ASSUME NEW e \in events, NEW v \in Watcher, AtWork(v, e[1], e[2], pcs)
        PROVE  \/ AtWork(v, e[1], e[2], pcs)'
               \/ <<e[1], e[2], "otp_detected">> \in events'
    <3>1. v # w
      BY <2>3, <2>5 DEF AtWork
    <3> QED
      BY <1>1, <2>5, <3>1, TurnsAlone DEF AtWork
  <2> QED
    BY <2>2, <2>4, <2>5, CodesGrow
<1>6. CASE QueueMessage(w)
  <2>1. events' = events
    BY <1>6 DEF QueueMessage, QueueAll, EnqueueDeliveries
  <2>2. HandKept(w, pcs)
    BY <1>1, <1>6 DEF QueueMessage, WatcherAt, WatchTypeOK, WatcherState, HandKept
  <2> QED
    BY <1>2, <2>1, <2>2
<1>7. CASE ScanCode(w)
  <2>1. events' = events \cup {CodeEvent(w)}
    BY <1>7 DEF ScanCode, InsertEvent
  <2>2. CodeEvent(w)[3] # "new_message"
    BY DEF CodeEvent
  <2>3. ASSUME NEW e \in events, NEW v \in Watcher, AtWork(v, e[1], e[2], pcs)
        PROVE  \/ AtWork(v, e[1], e[2], pcs)'
               \/ <<e[1], e[2], "otp_detected">> \in events'
    <3>1. CASE v = w
      BY <2>1, <2>3, <3>1 DEF AtWork, CodeEvent
    <3>2. CASE v # w
      BY <1>1, <2>3, <3>2, TurnsAlone DEF AtWork
    <3> QED
      BY <3>1, <3>2
  <2> QED
    BY <2>1, <2>2, <2>3, CodesGrow
<1>8. CASE NoCode(w)
  <2>1. events' = events
    BY <1>8 DEF NoCode, eventVars
  <2>2. watcher[w].uid \notin Coded \/ CodeEvent(w) \in events
    BY <1>8 DEF NoCode
  <2> SUFFICES ASSUME NEW e \in events, e[3] = "new_message", e[2] \in Coded,
                      <<e[1], e[2], "otp_detected">> \notin events
               PROVE  \E v \in Watcher : AtWork(v, e[1], e[2], pcs)'
    BY <2>1 DEF CodesAreAnnounced
  <2>3. PICK v \in Watcher : AtWork(v, e[1], e[2], pcs)
    BY DEF CodesAreAnnounced
  <2>4. v # w
    BY <2>2, <2>3 DEF AtWork, CodeEvent
  <2> QED
    BY <1>1, <2>3, <2>4, TurnsAlone DEF AtWork
<1> QED
  BY <1>3, <1>4, <1>5, <1>6, <1>7, <1>8 DEF WatcherStep

LEMMA OthersHand ==
    ASSUME IInv, ~Faults, [Next]_vars, ~Watching,
           NEW pcs \in SUBSET {"queueMessage", "scan", "queueCode"}
    PROVE  events' = events /\ \A w \in Watcher : HandKept(w, pcs)
BY OthersWatch DEF HandKept

LEMMA CodesNext == IInv /\ CodesInv /\ [Next]_vars => CodesInv'
<1> SUFFICES ASSUME IInv, CodesAreAnnounced, [Next]_vars, ~Faults
             PROVE  CodesAreAnnounced'
  BY DEF CodesInv
<1>1. CASE Watching
  BY <1>1, TurnCodes DEF Watching
<1>2. CASE ~Watching
  <2>1. {"queueMessage", "scan"} \in SUBSET {"queueMessage", "scan", "queueCode"}
    OBVIOUS
  <2> QED
    BY <1>2, <2>1, OthersHand, CodesKept
<1> QED
  BY <1>1, <1>2

\* Nothing ever removes a row.
LEMMA RowsStay == IInv /\ [Next]_vars => RowsKept
<1> SUFFICES ASSUME IInv, [Next]_vars PROVE RowsKept
  OBVIOUS
<1>1. EventStoreTypeOK /\ WatchTypeOK /\ ExecutorTypeOK /\ PassesOK
  BY DEF IInv, TypeOK
<1>2. CASE Mail
  BY <1>1, <1>2, StoreUnchanged DEF Mail, MailArrives, ValidityChanges, eventVars
<1>3. CASE Watching
  BY <1>1, <1>3, WatcherStepOK DEF Watching, pushVars
<1>4. CASE Draining
  <2>1. UNCHANGED deliveries
    BY <1>4 DEF Draining, Drain, Drained, ListDue, eventVars
  <2> QED
    BY <1>1, <2>1, StoreUnchanged
<1>5. CASE Stopping
  BY <1>1, <1>5, StoreUnchanged DEF Stopping, Stop, eventVars
<1>6. CASE Executing
  <2>1. PICK x \in Executor : PassStep(x) \/ ListDue(x)
    BY <1>6 DEF Executing, ExecutorStep, Tick
  <2> QED
    BY <1>1, <2>1, PassStep_OK, ListDue_OK
<1>7. CASE \E r \in Route : AddRoute(r) \/ RemoveRoute(r)
  <2>1. UNCHANGED deliveries
    BY <1>7 DEF AddRoute, RemoveRoute, CreateEventRoute, DeleteEventRoute
  <2> QED
    BY <1>1, <2>1, StoreUnchanged
<1>8. CASE \E d \in Delivery : RetryDelivery(d)
  BY <1>1, <1>8, ResetDeliveryForRetry_Rows DEF RetryDelivery, pushVars
<1>9. CASE Clock
  BY <1>1, <1>9, BackoffElapses_Rows DEF Clock, pushVars
<1>10. CASE UNCHANGED vars
  BY <1>1, <1>10, StoreUnchanged DEF vars, eventVars
<1> QED
  BY <1>2, <1>3, <1>4, <1>5, <1>6, <1>7, <1>8, <1>9, <1>10 DEF Next, Operating

\* What a route owes for an event.
Owed(e, r) ==
    routes[r] = "enabled" /\ <<r, e[3]>> \in Matches /\ e \notin earlier[r]

\* The step at which a watch queues an event of this kind.
QueuePc(e) == IF e[3] = "new_message" THEN "queueMessage" ELSE "queueCode"

\* Somebody is about to queue it.
Queueing(e, w) == AtWork(w, e[1], e[2], {QueuePc(e)})

\* Without new events, a route owes nothing new: it is added after all of them.
LEMMA NoNewDebt ==
    ASSUME IInv, [Next]_vars, events' = events, NEW e \in events, NEW r \in Route, Owed(e, r)'
    PROVE  Owed(e, r)
<1>1. ~Operating => UNCHANGED <<routes, earlier>>
  <2>1. Mail \/ Draining \/ Stopping \/ Clock \/ UNCHANGED vars => UNCHANGED <<routes, earlier>>
    BY DEF Mail, MailArrives, ValidityChanges, Draining, Drain, Drained, ListDue, Stopping, Stop,
           Clock, BackoffElapses, vars, eventVars, operatorVars
  <2>2. Watching => UNCHANGED <<routes, earlier>>
    BY DEF Watching, WatcherStep, Connect, Fetch, IdleTimeout, NewMessage, KnownMessage,
           InsertEvent, QueueMessage, QueueAll, EnqueueDeliveries, ScanCode, NoCode, QueueCode,
           EndBatch, eventVars, operatorVars
  <2>3. Executing => UNCHANGED <<routes, earlier>>
    <3> SUFFICES ASSUME Executing PROVE UNCHANGED <<routes, earlier>>
      OBVIOUS
    <3>1. UNCHANGED earlier
      BY DEF Executing, operatorVars
    <3>2. PICK x \in Executor : PassStep(x) \/ ListDue(x)
      BY DEF Executing, ExecutorStep, Tick
    <3>3. CASE ListDue(x) \/ Received(x) \/ Abort(x)
      BY <3>1, <3>3 DEF ListDue, Received, Abort, eventVars
    <3>4. CASE PostSucceeded(x)
      BY <3>1, <3>4 DEF PostSucceeded, RecordDeliverySuccess
    <3>5. CASE PostFailed(x)
      BY <3>1, <3>5 DEF PostFailed, RecordDeliveryFailure
    <3>6. ASSUME NEW item \in executor[x].due, Unroutable(x, item) \/ Post(x, item)
          PROVE  UNCHANGED <<routes, earlier>>
      BY <3>1, <3>6 DEF Unroutable, Post, RecordDeliveryFailure, eventVars
    <3> QED
      BY <3>2, <3>3, <3>4, <3>5, <3>6 DEF PassStep
  <2> QED
    BY <2>1, <2>2, <2>3 DEF Next
<1>2. CASE ~Operating
  BY <1>1, <1>2 DEF Owed
<1>3. ASSUME NEW q \in Route, AddRoute(q)
      PROVE  Owed(e, r)
  <2>1. /\ earlier' = [earlier EXCEPT ![q] = events]
        /\ routes' = [routes EXCEPT ![q] = "enabled"]
    BY <1>3 DEF AddRoute, CreateEventRoute
  <2>2. r # q
    BY <2>1 DEF Owed, IInv, TypeOK
  <2> QED
    BY <2>1, <2>2 DEF Owed, IInv, TypeOK, EventStoreTypeOK
<1>4. ASSUME NEW q \in Route, RemoveRoute(q)
      PROVE  Owed(e, r)
  <2>1. earlier' = earlier /\ routes' = [routes EXCEPT ![q] = "removed"]
    BY <1>4 DEF RemoveRoute, DeleteEventRoute, operatorVars
  <2> QED
    BY <2>1 DEF Owed, IInv, TypeOK, EventStoreTypeOK
<1>5. ASSUME NEW d \in Delivery, RetryDelivery(d)
      PROVE  Owed(e, r)
  BY <1>5 DEF RetryDelivery, ResetDeliveryForRetry, Owed
<1> QED
  BY <1>2, <1>3, <1>4, <1>5 DEF Operating

LEMMA EnqueuedStays ==
    ASSUME IInv, [Next]_vars, NEW d \in Delivery, Enqueued(d)
    PROVE  Enqueued(d)'
BY RowsStay DEF RowsKept, Enqueued

\* What is to be shown of an event and a route.
Served(e, r) ==
    Owed(e, r) => Enqueued(<<e, r>>) \/ \E w \in Delivering : Queueing(e, w)

LEMMA ServedMeans ==
    ASSUME \A e \in events', r \in Route : Served(e, r)'
    PROVE  EventsAreQueued'
BY DEF EventsAreQueued, Served, Owed, Queueing, QueuePc

\* An event nobody put down is served as before.
LEMMA ServedStays ==
    ASSUME IInv, [Next]_vars, events' = events, EventsAreQueued,
           NEW e \in events, NEW r \in Route,
           \A w \in Delivering : Queueing(e, w) =>
               Queueing(e, w)' \/ (Owed(e, r)' => Enqueued(<<e, r>>)')
    PROVE  Served(e, r)'
<1>1. e \in Event /\ <<e, r>> \in Delivery
  BY DEF IInv, TypeOK, EventStoreTypeOK, Delivery
<1>2. Owed(e, r)' => Owed(e, r)
  BY NoNewDebt
<1>3. Owed(e, r) => Enqueued(<<e, r>>) \/ \E w \in Delivering : Queueing(e, w)
  BY DEF EventsAreQueued, Owed, Queueing, QueuePc
<1>4. Enqueued(<<e, r>>) => Enqueued(<<e, r>>)'
  BY <1>1, EnqueuedStays
<1> QED
  BY <1>2, <1>3, <1>4 DEF Served

\* A watch that queues an event queues it for every route that is owed one.
LEMMA QueueServes ==
    ASSUME IInv, ~Faults, NEW e \in Event, NEW r \in Route,
           EnqueueDeliveries(e, MatchingRoutes(e[3])), Owed(e, r)'
    PROVE  Enqueued(<<e, r>>)'
<1>1. <<e, r>> \in Delivery /\ r \in MatchingRoutes(e[3])
  BY DEF Delivery, Owed, EnqueueDeliveries, MatchingRoutes
<1>2. EventOf(<<e, r>>) = e /\ RouteOf(<<e, r>>) = r
  BY DEF EventOf, RouteOf
<1>3. deliveries'[<<e, r>>] = IF ~Enqueued(<<e, r>>) THEN PendingRow ELSE deliveries[<<e, r>>]
  BY <1>1, <1>2 DEF EnqueueDeliveries
<1>4. PendingRow # NoRow
  BY RowIsNotNoRow DEF PendingRow, Row
<1> QED
  BY <1>3, <1>4 DEF Enqueued

LEMMA TurnQueued ==
    ASSUME IInv, [Next]_vars, ~Faults, Delivering = Watcher, NEW w \in Watcher, WatcherStep(w),
           UNCHANGED operatorVars, EventsAreQueued
    PROVE  EventsAreQueued'
<1>1. WatchTypeOK /\ watcher[w] \in WatcherState /\ events \subseteq Event
  BY WatchTypes DEF IInv, TypeOK, EventStoreTypeOK
<1>2. ASSUME NEW e \in events, NEW v \in Watcher, v # w, Queueing(e, v)
      PROVE  Queueing(e, v)'
  BY <1>1, <1>2, TurnsAlone DEF Queueing, AtWork, QueuePc
<1>3. ASSUME events' = events, watcher[w].pc \notin {"queueMessage", "queueCode"}
      PROVE  EventsAreQueued'
  <2>1. \A e \in events : ~Queueing(e, w)
    BY <1>3 DEF Queueing, AtWork, QueuePc
  <2> QED
    BY <1>2, <1>3, <2>1, ServedStays, ServedMeans
<1>4. CASE Connect(w) \/ Fetch(w) \/ IdleTimeout(w) \/ NoCode(w) \/ EndBatch(w)
  BY <1>3, <1>4 DEF Connect, Fetch, IdleTimeout, NoCode, EndBatch, eventVars
<1>5. ASSUME NEW uid \in Uid, KnownMessage(w, uid)
      PROVE  EventsAreQueued'
  BY <1>3, <1>5 DEF KnownMessage, Take, eventVars
<1>6. ASSUME NEW new \in Event, InsertEvent(new), Queueing(new, w)',
             watcher[w].pc \notin {"queueMessage", "queueCode"}
      PROVE  EventsAreQueued'
  <2>1. events' = events \cup {new} /\ UNCHANGED <<routes, deliveries, earlier>>
    BY <1>6 DEF InsertEvent, operatorVars
  <2>2. \A e \in events, r \in Route : Served(e, r)'
    <3> SUFFICES ASSUME NEW e \in events, NEW r \in Route, Owed(e, r)
                 PROVE  Enqueued(<<e, r>>)' \/ \E v \in Delivering : Queueing(e, v)'
      BY <2>1 DEF Served, Owed
    <3>1. Enqueued(<<e, r>>) \/ \E v \in Delivering : Queueing(e, v)
      BY DEF EventsAreQueued, Owed, Queueing, QueuePc
    <3>2. ~Queueing(e, w)
      BY <1>6 DEF Queueing, AtWork, QueuePc
    <3> QED
      BY <1>2, <2>1, <3>1, <3>2 DEF Enqueued
  <2>3. \A r \in Route : Served(new, r)'
    BY <1>6 DEF Served
  <2> QED
    BY <2>1, <2>2, <2>3, ServedMeans
<1>7. ASSUME NEW uid \in Uid, NewMessage(w, uid)
      PROVE  EventsAreQueued'
  <2>1. PICK new \in Event : new = <<watcher[w].known, uid, "new_message">>
    BY <1>1 DEF WatcherState, Event, Kind
  <2>2. InsertEvent(new) /\ watcher[w].pc = "batch"
    BY <1>7, <2>1 DEF NewMessage, Take
  <2>3. /\ watcher'[w].pc = "queueMessage"
        /\ watcher'[w].known = watcher[w].known /\ watcher'[w].uid = uid
    BY <1>1, <1>7 DEF NewMessage, Take, WatchTypeOK, WatcherState
  <2>4. Queueing(new, w)'
    BY <2>1, <2>3 DEF Queueing, AtWork, QueuePc
  <2> QED
    BY <1>6, <2>2, <2>4
<1>8. CASE ScanCode(w)
  <2>1. PICK new \in Event : new = CodeEvent(w)
    BY <1>1, <1>8, CodedAssumption DEF ScanCode, CodeEvent, WatcherState, Event, Kind
  <2>2. InsertEvent(new) /\ watcher[w].pc = "scan"
    BY <1>8, <2>1 DEF ScanCode
  <2>3. /\ watcher'[w].pc = "queueCode"
        /\ watcher'[w].known = watcher[w].known /\ watcher'[w].uid = watcher[w].uid
    BY <1>1, <1>8 DEF ScanCode, WatcherAt, WatchTypeOK, WatcherState
  <2>4. Queueing(new, w)'
    BY <2>1, <2>3 DEF Queueing, AtWork, QueuePc, CodeEvent
  <2> QED
    BY <1>6, <2>2, <2>4
<1>9. ASSUME NEW mine, QueueAll(w, mine),
             \A e \in events : Queueing(e, w) => e = mine
      PROVE  EventsAreQueued'
  <2>1. events' = events /\ EnqueueDeliveries(mine, MatchingRoutes(mine[3]))
    BY <1>9 DEF QueueAll, EnqueueDeliveries
  <2>2. ASSUME NEW e \in events, NEW r \in Route, Queueing(e, w), Owed(e, r)'
        PROVE  Enqueued(<<e, r>>)'
    BY <1>1, <1>9, <2>1, <2>2, QueueServes
  <2> QED
    BY <1>2, <2>1, <2>2, ServedStays, ServedMeans
<1>10. CASE QueueMessage(w)
  <2>1. PICK mine : mine = MessageEvent(w)
    OBVIOUS
  <2>2. \A e \in events : Queueing(e, w) => e = mine
    BY <1>1, <1>10, <2>1 DEF QueueMessage, Queueing, AtWork, QueuePc, MessageEvent, Event, Kind
  <2> QED
    BY <1>9, <1>10, <2>1, <2>2 DEF QueueMessage
<1>11. CASE QueueCode(w)
  <2>1. PICK mine : mine = CodeEvent(w)
    OBVIOUS
  <2>2. \A e \in events : Queueing(e, w) => e = mine
    BY <1>1, <1>11, <2>1 DEF QueueCode, Queueing, AtWork, QueuePc, CodeEvent, Event, Kind
  <2> QED
    BY <1>9, <1>11, <2>1, <2>2 DEF QueueCode
<1> QED
  BY <1>4, <1>5, <1>7, <1>8, <1>10, <1>11 DEF WatcherStep

LEMMA QueuedNext == IInv /\ QueuedInv /\ [Next]_vars => QueuedInv'
<1> SUFFICES ASSUME IInv, EventsAreQueued, [Next]_vars, ~Faults, Delivering = Watcher
             PROVE  EventsAreQueued'
  BY DEF QueuedInv
<1>1. CASE Watching
  BY <1>1, TurnQueued DEF Watching
<1>2. CASE ~Watching
  <2>1. events' = events /\ \A w \in Watcher : \A pcs \in SUBSET InHand : HandKept(w, pcs)
    BY <1>2, OthersHand DEF InHand
  <2>2. ASSUME NEW e \in events, NEW w \in Delivering, Queueing(e, w)
        PROVE  Queueing(e, w)'
    <3>1. {QueuePc(e)} \in SUBSET InHand
      BY DEF QueuePc, InHand
    <3>2. HandKept(w, {QueuePc(e)})
      BY <2>1, <3>1
    <3> QED
      BY <2>2, <3>2 DEF Queueing, AtWork, HandKept
  <2> QED
    BY <2>1, <2>2, ServedStays, ServedMeans
<1> QED
  BY <1>1, <1>2

-----------------------------------------------------------------------------
(* The executors and their counts.                                         *)

\* A pass counts from what it read, which is never ahead of the row.
PassFacts(x) ==
    /\ executor[x].pc \in {"idle", "pass"} => executor[x].push = NoDelivery
    /\ \A item \in executor[x].due : item[2] <= deliveries[item[1]].attempts
    /\ executor[x].pc \in {"posting", "taken"} =>
           executor[x].attempts <= deliveries[executor[x].push].attempts

\* A watch drains only where its loop says so, so none is stopped in a POST.
DrainFacts ==
    \A w \in Watcher : w \in Executor /\ watcher[w].pc # "draining" => executor[w].pc = "idle"

RowFacts ==
    \A d \in Delivery :
        /\ routes[RouteOf(d)] = "absent" => ~Enqueued(d)
        /\ ~Enqueued(d) => posts[d] = 0

PushFacts ==
    /\ \A x \in Executor : PassFacts(x)
    /\ DrainFacts
    /\ RowFacts
    /\ DeadIsDeserved
    /\ IsFiniteSet(Executor) => AttemptsCountPosts

PushInv == ~Faults => PushFacts

Pushers(d) == {x \in Executor : executor[x].push = d}

\* What the bookkeeping may do to a row, and to a route.
RowStill(d) ==
    \/ deliveries'[d] = deliveries[d]
    \/ ~Enqueued(d) /\ deliveries'[d] = PendingRow /\ routes[RouteOf(d)] = "enabled"
    \/ /\ Enqueued(d) /\ deliveries'[d].attempts = deliveries[d].attempts
       /\ deliveries'[d].dead => deliveries[d].dead

RouteStill(r) ==
    \/ routes'[r] = routes[r]
    \/ routes[r] = "absent" /\ routes'[r] = "enabled"
    \/ routes'[r] = "removed"

LEMMA PassTypes ==
    ASSUME IInv, NEW x \in Executor
    PROVE  /\ executor[x] \in ExecutorState
           /\ executor[x].attempts \in Nat
           /\ \A item \in executor[x].due :
                 item[1] \in Delivery /\ item[2] \in Nat /\ Enqueued(item[1])
           /\ executor[x].pc \in {"posting", "taken"} =>
                 executor[x].push \in Delivery /\ Enqueued(executor[x].push)
<1>1. executor[x] \in ExecutorState
  BY DEF IInv, TypeOK, ExecutorTypeOK
<1> QED
  BY <1>1 DEF IInv, PassesOK, PassOK, ExecutorState

LEMMA RowTypes ==
    ASSUME IInv, NEW d \in Delivery
    PROVE  /\ RouteOf(d) \in Route /\ posts[d] \in Nat
           /\ Enqueued(d) => deliveries[d] \in Row /\ deliveries[d].attempts \in Nat
           /\ d # NoDelivery
<1>1. Enqueued(d) => deliveries[d] \in Row
  BY EnqueuedIsRow DEF IInv, TypeOK
<1> QED
  BY <1>1, NoDeliveryAssumption DEF IInv, TypeOK, ExecutorTypeOK, RouteOf, Delivery, Row

\* Nobody posts a row that is not there.
LEMMA NoPusher ==
    ASSUME IInv, NEW d \in Delivery, ~Enqueued(d), \A x \in Executor : PassFacts(x)
    PROVE  Pushers(d) = {}
<1> SUFFICES ASSUME NEW x \in Executor, executor[x].push = d PROVE FALSE
  BY DEF Pushers
<1>1. executor[x].pc \in {"posting", "taken"}
  BY PassTypes, RowTypes DEF PassFacts, ExecutorState
<1> QED
  BY <1>1, PassTypes

\* The count of a row is one afterwards, too.
LEMMA RowCounts ==
    ASSUME IInv', RowsKept, NEW d \in Delivery, Enqueued(d)
    PROVE  Enqueued(d)' /\ deliveries'[d] \in Row /\ deliveries'[d].attempts \in Nat
<1>1. deliveries'[d] \in Row
  BY DEF IInv, TypeOK, EventStoreTypeOK, RowsKept
<1> QED
  BY <1>1 DEF RowsKept, Enqueued, Row

\* A count grows, so what was read of it stays behind it.
LEMMA PassFactsKept ==
    ASSUME IInv, IInv', RowsKept, NEW x \in Executor, PassFacts(x),
           \/ executor'[x].pc = executor[x].pc
           \/ {executor'[x].pc, executor[x].pc} = {"posting", "taken"},
           executor'[x].due = executor[x].due, executor'[x].push = executor[x].push,
           executor'[x].attempts = executor[x].attempts,
           \A d \in Delivery : Enqueued(d) => deliveries[d].attempts <= deliveries'[d].attempts
    PROVE  PassFacts(x)'
<1>1. \A item \in executor[x].due : item[2] <= deliveries'[item[1]].attempts
  <2> SUFFICES ASSUME NEW item \in executor[x].due
               PROVE  item[2] <= deliveries'[item[1]].attempts
    OBVIOUS
  <2>1. item[1] \in Delivery /\ Enqueued(item[1]) /\ item[2] \in Nat
    BY PassTypes
  <2>2. deliveries[item[1]].attempts \in Nat /\ deliveries'[item[1]].attempts \in Nat
    BY <2>1, RowTypes, RowCounts
  <2> QED
    BY <2>1, <2>2 DEF PassFacts
<1>2. ASSUME executor[x].pc \in {"posting", "taken"}
      PROVE  executor[x].attempts <= deliveries'[executor[x].push].attempts
  <2>1. executor[x].push \in Delivery /\ Enqueued(executor[x].push) /\ executor[x].attempts \in Nat
    BY <1>2, PassTypes
  <2>2. /\ deliveries[executor[x].push].attempts \in Nat
        /\ deliveries'[executor[x].push].attempts \in Nat
    BY <2>1, RowTypes, RowCounts
  <2> QED
    BY <1>2, <2>1, <2>2 DEF PassFacts
<1> QED
  BY <1>1, <1>2 DEF PassFacts

\* Steps that record no end of a POST and begin none.
LEMMA Bookkeeping ==
    ASSUME IInv, IInv', RowsKept, PushFacts,
           \A d \in Delivery : RowStill(d), \A r \in Route : RouteStill(r),
           posts' = posts, \A x \in Executor : executor'[x].push = executor[x].push,
           \A x \in Executor : PassFacts(x)', DrainFacts'
    PROVE  PushFacts'
<1>1. ASSUME NEW d \in Delivery, Enqueued(d)'
      PROVE  \/ ~Enqueued(d) /\ deliveries'[d] = PendingRow
             \/ /\ Enqueued(d) /\ deliveries'[d].attempts = deliveries[d].attempts
                /\ deliveries'[d].dead => deliveries[d].dead
                /\ routes'[RouteOf(d)] = "enabled" => routes[RouteOf(d)] = "enabled"
  <2>1. RouteStill(RouteOf(d)) /\ (Enqueued(d) => routes[RouteOf(d)] # "absent")
    BY RowTypes DEF PushFacts, RowFacts
  <2> QED
    BY <1>1, <2>1 DEF RowStill, RouteStill, Enqueued
<1>2. RowFacts'
  <2> SUFFICES ASSUME NEW d \in Delivery
               PROVE  /\ routes'[RouteOf(d)] = "absent" => ~Enqueued(d)'
                      /\ ~Enqueued(d)' => posts'[d] = 0
    BY DEF RowFacts, RouteOf
  <2>1. routes'[RouteOf(d)] = "absent" => ~Enqueued(d)'
    BY RowTypes DEF PushFacts, RowFacts, RouteStill, RowStill, Enqueued
  <2>2. ~Enqueued(d)' => ~Enqueued(d)
    BY RowCounts
  <2> QED
    BY <2>1, <2>2 DEF PushFacts, RowFacts
<1>3. DeadIsDeserved'
  <2> SUFFICES ASSUME NEW d \in Delivery, Enqueued(d)', deliveries'[d].dead
               PROVE  deliveries'[d].attempts > MaxAttempts \/ routes'[RouteOf(d)] # "enabled"
    BY DEF DeadIsDeserved, RouteOf
  <2>1. ~PendingRow.dead
    BY DEF PendingRow
  <2> QED
    BY <1>1, <2>1 DEF PushFacts, DeadIsDeserved
<1>4. ASSUME IsFiniteSet(Executor)
      PROVE  AttemptsCountPosts'
  <2>1. AttemptsCountPosts
    BY <1>4 DEF PushFacts
  <2> SUFFICES ASSUME NEW d \in Delivery, Enqueued(d)', routes'[RouteOf(d)] = "enabled"
               PROVE  deliveries'[d].attempts
                        + Cardinality({x \in Executor : executor'[x].push = d}) = posts'[d]
    BY DEF AttemptsCountPosts, RouteOf
  <2>2. {x \in Executor : executor'[x].push = d} = Pushers(d)
    BY DEF Pushers
  <2>3. CASE Enqueued(d)
    BY <1>1, <2>1, <2>2, <2>3 DEF AttemptsCountPosts, Pushers
  <2>4. CASE ~Enqueued(d)
    <3>1. deliveries'[d].attempts = 0 /\ posts'[d] = 0
      BY <1>1, <2>4 DEF PendingRow, PushFacts, RowFacts
    <3>2. Pushers(d) = {}
      BY <2>4, NoPusher DEF PushFacts
    <3>3. Cardinality({x \in Executor : executor'[x].push = d}) = 0
      BY <2>2, <3>2, FS_EmptySet, Zenon
    <3> QED
      BY <3>1, <3>3
  <2> QED
    BY <2>3, <2>4
<1> QED
  BY <1>2, <1>3, <1>4 DEF PushFacts

\* A pass between two POSTs.
LEMMA RemainingFacts ==
    ASSUME IInv, NEW x \in Executor, NEW due, NextDelivery(x, due),
           \A item \in due : item[2] <= deliveries'[item[1]].attempts
    PROVE  /\ PassFacts(x)'
           /\ executor'[x].push = NoDelivery
           /\ \A y \in Executor \ {x} : executor'[y] = executor[y]
<1>1. executor'[x] = Remaining(due) /\ \A y \in Executor \ {x} : executor'[y] = executor[y]
  BY DEF NextDelivery, IInv, TypeOK, ExecutorTypeOK
<1>2. /\ Remaining(due).pc \in {"idle", "pass"} /\ Remaining(due).push = NoDelivery
      /\ Remaining(due).due = due
  BY DEF Remaining, Resting
<1> QED
  BY <1>1, <1>2 DEF PassFacts

\* Only a pass under way goes on, and a watch that is not draining has none.
LEMMA DrainKept ==
    ASSUME DrainFacts, NEW x \in Executor, executor[x].pc # "idle" \/ x \notin Watcher,
           UNCHANGED watcher, \A y \in Executor \ {x} : executor'[y] = executor[y]
    PROVE  DrainFacts'
BY DEF DrainFacts

\* The executors that do nothing in a step whose rows only grow.
LEMMA OthersKept ==
    ASSUME IInv, IInv', RowsKept, PushFacts, NEW x,
           \A y \in Executor \ {x} : executor'[y] = executor[y],
           \A d \in Delivery : Enqueued(d) => deliveries[d].attempts <= deliveries'[d].attempts
    PROVE  \A y \in Executor \ {x} : PassFacts(y)'
BY PassFactsKept DEF PushFacts

LEMMA PostCounts ==
    ASSUME IInv, IInv', RowsKept, PushFacts, NEW x \in Executor,
           NEW item \in executor[x].due, Post(x, item), UNCHANGED watcher
    PROVE  PushFacts'
<1> DEFINE d == item[1]
<1>1. d \in Delivery /\ Enqueued(d) /\ item[2] \in Nat /\ executor[x] \in ExecutorState
  BY PassTypes
<1>2. /\ executor'[x].pc = "posting" /\ executor'[x].push = d
      /\ executor'[x].attempts = item[2] /\ executor'[x].due = executor[x].due \ {item}
      /\ \A y \in Executor \ {x} : executor'[y] = executor[y]
  BY <1>1 DEF Post, IInv, TypeOK, ExecutorTypeOK, ExecutorState
<1>3. UNCHANGED <<events, routes, deliveries>> /\ executor[x].push = NoDelivery
  BY DEF Post, eventVars, PushFacts, PassFacts
<1>4. posts' = [posts EXCEPT ![d] = @ + 1] /\ posts \in [Delivery -> Nat]
  BY DEF Post, IInv, TypeOK, ExecutorTypeOK
<1>5. PassFacts(x)'
  BY <1>2, <1>3 DEF PushFacts, PassFacts
<1>6. \A e \in Delivery : Enqueued(e) => deliveries[e].attempts <= deliveries'[e].attempts
  BY <1>3, RowTypes
<1>7. \A y \in Executor : PassFacts(y)'
  BY <1>2, <1>5, <1>6, OthersKept
<1>8. DrainFacts'
  BY <1>2, DrainKept DEF PushFacts, Post
<1>9. RowFacts' /\ DeadIsDeserved'
  BY <1>1, <1>3, <1>4 DEF PushFacts, RowFacts, DeadIsDeserved, Enqueued, RouteOf
<1>10. ASSUME IsFiniteSet(Executor)
       PROVE  AttemptsCountPosts'
  <2>1. AttemptsCountPosts
    BY <1>10 DEF PushFacts
  <2> SUFFICES ASSUME NEW e \in Delivery, Enqueued(e), routes[RouteOf(e)] = "enabled"
               PROVE  deliveries[e].attempts
                        + Cardinality({y \in Executor : executor'[y].push = e}) = posts'[e]
    BY <1>3 DEF AttemptsCountPosts, Enqueued, RouteOf
  <2>2. deliveries[e].attempts + Cardinality(Pushers(e)) = posts[e]
    BY <2>1 DEF AttemptsCountPosts, Pushers
  <2>3. CASE e = d
    <3>1. {y \in Executor : executor'[y].push = e} = Pushers(e) \cup {x}
      BY <1>2, <2>3 DEF Pushers
    <3>2. x \notin Pushers(e) /\ IsFiniteSet(Pushers(e))
      BY <1>3, <1>10, RowTypes, FS_Subset DEF Pushers
    <3>3. Cardinality(Pushers(e) \cup {x}) = Cardinality(Pushers(e)) + 1
      BY <3>2, FS_AddElement
    <3>4. Cardinality(Pushers(e)) \in Nat /\ deliveries[e].attempts \in Nat
      BY <3>2, FS_CardinalityType, RowTypes
    <3>5. posts'[e] = posts[e] + 1
      BY <1>4, <2>3
    <3>6. Cardinality({y \in Executor : executor'[y].push = e}) = Cardinality(Pushers(e)) + 1
      BY <3>1, <3>3, Zenon
    <3> QED
      BY <2>2, <3>4, <3>5, <3>6
  <2>4. CASE e # d
    <3>1. {y \in Executor : executor'[y].push = e} = Pushers(e)
      BY <1>2, <1>3, <2>4, RowTypes DEF Pushers
    <3> QED
      BY <1>4, <2>2, <2>4, <3>1
  <2> QED
    BY <2>3, <2>4
<1> QED
  BY <1>7, <1>8, <1>9, <1>10 DEF PushFacts

\* The end of a POST counts one more attempt, and the row's own count is the
\* last retry's if the pass's is.
LEMMA EndCounts ==
    ASSUME IInv, IInv', RowsKept, PushFacts, NEW x \in Executor,
           executor[x].pc \in {"posting", "taken"},
           NextDelivery(x, executor[x].due), UNCHANGED <<posts, routes, watcher>>,
           \A d \in Delivery : d # executor[x].push => deliveries'[d] = deliveries[d],
           deliveries'[executor[x].push].attempts = deliveries[executor[x].push].attempts + 1,
           deliveries'[executor[x].push].dead =>
               deliveries[executor[x].push].dead \/ executor[x].attempts + 1 > MaxAttempts
    PROVE  PushFacts'
<1> DEFINE d == executor[x].push
<1>1. d \in Delivery /\ Enqueued(d) /\ executor[x].attempts \in Nat
  BY PassTypes
<1>2. deliveries[d].attempts \in Nat /\ executor[x].attempts <= deliveries[d].attempts
  BY <1>1, RowTypes DEF PushFacts, PassFacts
<1>3. \A e \in Delivery : Enqueued(e) => deliveries[e].attempts <= deliveries'[e].attempts
  BY <1>1, <1>2, RowTypes
<1>4. \A item \in executor[x].due : item[2] <= deliveries'[item[1]].attempts
  <2> SUFFICES ASSUME NEW item \in executor[x].due
               PROVE  item[2] <= deliveries'[item[1]].attempts
    OBVIOUS
  <2>1. item[1] \in Delivery /\ Enqueued(item[1]) /\ item[2] \in Nat
    BY PassTypes
  <2>2. /\ deliveries[item[1]].attempts \in Nat /\ deliveries'[item[1]].attempts \in Nat
        /\ deliveries[item[1]].attempts <= deliveries'[item[1]].attempts
        /\ item[2] <= deliveries[item[1]].attempts
    BY <1>3, <2>1, RowTypes, RowCounts DEF PushFacts, PassFacts
  <2> QED
    BY <2>1, <2>2
<1>5. /\ PassFacts(x)' /\ executor'[x].push = NoDelivery
      /\ \A y \in Executor \ {x} : executor'[y] = executor[y]
  BY <1>4, RemainingFacts
<1>6. \A y \in Executor : PassFacts(y)'
  BY <1>3, <1>5, OthersKept
<1>7. DrainFacts'
  BY <1>5, DrainKept DEF PushFacts
<1>8. RowFacts'
  <2> SUFFICES ASSUME NEW e \in Delivery
               PROVE  /\ routes[RouteOf(e)] = "absent" => ~Enqueued(e)'
                      /\ ~Enqueued(e)' => posts[e] = 0
    BY DEF RowFacts, RouteOf
  <2>1. Enqueued(e)' <=> Enqueued(e)
    BY <1>1, RowCounts DEF Enqueued
  <2> QED
    BY <2>1 DEF PushFacts, RowFacts
<1>9. DeadIsDeserved'
  <2> SUFFICES ASSUME NEW e \in Delivery, Enqueued(e)', deliveries'[e].dead
               PROVE  deliveries'[e].attempts > MaxAttempts \/ routes[RouteOf(e)] # "enabled"
    BY DEF DeadIsDeserved, RouteOf
  <2>1. CASE e = d
    BY <1>1, <1>2, <2>1, MaxAttemptsAssumption DEF PushFacts, DeadIsDeserved
  <2>2. CASE e # d
    BY <2>2 DEF PushFacts, DeadIsDeserved, Enqueued
  <2> QED
    BY <2>1, <2>2
<1>10. ASSUME IsFiniteSet(Executor)
       PROVE  AttemptsCountPosts'
  <2>1. AttemptsCountPosts
    BY <1>10 DEF PushFacts
  <2> SUFFICES ASSUME NEW e \in Delivery, Enqueued(e)', routes[RouteOf(e)] = "enabled"
               PROVE  deliveries'[e].attempts
                        + Cardinality({y \in Executor : executor'[y].push = e}) = posts[e]
    BY DEF AttemptsCountPosts, RouteOf
  <2>2. Enqueued(e)
    BY <1>1 DEF Enqueued
  <2>3. deliveries[e].attempts + Cardinality(Pushers(e)) = posts[e]
    BY <2>1, <2>2 DEF AttemptsCountPosts, Pushers
  <2>4. CASE e = d
    <3>1. {y \in Executor : executor'[y].push = e} = Pushers(e) \ {x}
      BY <1>5, <2>4, RowTypes DEF Pushers
    <3>2. x \in Pushers(e) /\ IsFiniteSet(Pushers(e))
      BY <1>10, <2>4, FS_Subset DEF Pushers
    <3>3. Cardinality(Pushers(e) \ {x}) = Cardinality(Pushers(e)) - 1
      BY <3>2, FS_RemoveElement
    <3>4. Cardinality(Pushers(e)) \in Nat
      BY <3>2, FS_CardinalityType
    <3>5. Cardinality({y \in Executor : executor'[y].push = e}) = Cardinality(Pushers(e)) - 1
      BY <3>1, <3>3, Zenon
    <3> QED
      BY <1>2, <2>3, <2>4, <3>4, <3>5
  <2>5. CASE e # d
    <3>1. {y \in Executor : executor'[y].push = e} = Pushers(e)
      BY <1>5, <2>5, RowTypes DEF Pushers
    <3> QED
      BY <2>3, <2>5, <3>1
  <2> QED
    BY <2>4, <2>5
<1> QED
  BY <1>6, <1>7, <1>8, <1>9, <1>10 DEF PushFacts

\* A row of a deleted route is given up without a POST; no count of it matters.
LEMMA UnroutableCounts ==
    ASSUME IInv, IInv', RowsKept, PushFacts, ~Faults, NEW x \in Executor,
           NEW item \in executor[x].due, Unroutable(x, item), UNCHANGED watcher
    PROVE  PushFacts'
<1> DEFINE d == item[1]
<1>1. d \in Delivery /\ Enqueued(d) /\ deliveries[d] \in Row
  BY PassTypes, RowTypes
<1>2. /\ routes' = routes /\ posts' = posts /\ routes[RouteOf(d)] # "enabled"
      /\ NextDelivery(x, executor[x].due \ {item})
      /\ executor[x].pc = "pass"
  BY DEF Unroutable, RecordDeliveryFailure
<1>3. /\ deliveries'[d].attempts = deliveries[d].attempts + 1
      /\ \A e \in Delivery : e # d => deliveries'[e] = deliveries[e]
  BY <1>1 DEF Unroutable, RecordDeliveryFailure, IInv, TypeOK, EventStoreTypeOK, Row
<1>4. \A e \in Delivery : Enqueued(e) => deliveries[e].attempts <= deliveries'[e].attempts
  BY <1>1, <1>3, RowTypes
<1>5. \A i \in executor[x].due \ {item} : i[2] <= deliveries'[i[1]].attempts
  <2> SUFFICES ASSUME NEW i \in executor[x].due PROVE i[2] <= deliveries'[i[1]].attempts
    OBVIOUS
  <2>1. i[1] \in Delivery /\ Enqueued(i[1]) /\ i[2] \in Nat
    BY PassTypes
  <2>2. /\ deliveries[i[1]].attempts \in Nat /\ deliveries'[i[1]].attempts \in Nat
        /\ deliveries[i[1]].attempts <= deliveries'[i[1]].attempts
        /\ i[2] <= deliveries[i[1]].attempts
    BY <1>4, <2>1, RowTypes, RowCounts DEF PushFacts, PassFacts
  <2> QED
    BY <2>1, <2>2
<1>6. /\ PassFacts(x)' /\ executor'[x].push = NoDelivery
      /\ \A y \in Executor \ {x} : executor'[y] = executor[y]
  BY <1>2, <1>5, RemainingFacts
<1>7. \A y \in Executor : PassFacts(y)'
  BY <1>4, <1>6, OthersKept
<1>8. DrainFacts'
  BY <1>2, <1>6, DrainKept DEF PushFacts
<1>9. \A e \in Delivery : Enqueued(e)' <=> Enqueued(e)
  BY <1>1, <1>3, RowCounts DEF Enqueued
<1>10. RowFacts' /\ DeadIsDeserved'
  BY <1>2, <1>3, <1>9 DEF PushFacts, RowFacts, DeadIsDeserved, RouteOf
<1>11. ASSUME IsFiniteSet(Executor)
       PROVE  AttemptsCountPosts'
  <2>1. executor[x].push = NoDelivery
    BY <1>2 DEF PushFacts, PassFacts
  <2>2. \A e \in Delivery : {y \in Executor : executor'[y].push = e} = Pushers(e)
    BY <1>6, <2>1, RowTypes DEF Pushers
  <2> SUFFICES ASSUME NEW e \in Delivery, Enqueued(e), routes[RouteOf(e)] = "enabled"
               PROVE  deliveries'[e].attempts
                        + Cardinality({y \in Executor : executor'[y].push = e}) = posts[e]
    BY <1>2, <1>9 DEF AttemptsCountPosts, RouteOf
  <2>3. e # d
    BY <1>2
  <2>4. deliveries[e].attempts + Cardinality(Pushers(e)) = posts[e]
    BY <1>11 DEF PushFacts, AttemptsCountPosts, Pushers
  <2> QED
    BY <1>3, <2>2, <2>3, <2>4
<1> QED
  BY <1>7, <1>8, <1>10, <1>11 DEF PushFacts

\* Who does not touch the executors.
LEMMA Bookkept ==
    ASSUME IInv, IInv', RowsKept, PushFacts,
           \A d \in Delivery : RowStill(d), \A r \in Route : RouteStill(r),
           UNCHANGED <<executor, posts>>, DrainFacts'
    PROVE  PushFacts'
<1>1. \A d \in Delivery : Enqueued(d) => deliveries[d].attempts <= deliveries'[d].attempts
  BY RowTypes DEF RowStill
<1>2. \A x \in Executor : PassFacts(x)'
  BY <1>1, PassFactsKept DEF PushFacts
<1> QED
  BY <1>2, Bookkeeping

LEMMA RowsUntouched ==
    ASSUME UNCHANGED <<deliveries, routes>>
    PROVE  (\A d \in Delivery : RowStill(d)) /\ (\A r \in Route : RouteStill(r))
BY DEF RowStill, RouteStill

LEMMA ListCounts ==
    ASSUME IInv, IInv', RowsKept, PushFacts, NEW x \in Executor, ListDue(x), DrainFacts'
    PROVE  PushFacts'
<1> DEFINE due == {<<d, deliveries[d].attempts>> : d \in DueDeliveries}
<1>1. UNCHANGED <<posts, deliveries, routes>> /\ NextDelivery(x, due) /\ executor[x].pc = "idle"
  BY DEF ListDue, eventVars
<1>2. \A item \in due : item[2] <= deliveries'[item[1]].attempts
  <2> SUFFICES ASSUME NEW d \in DueDeliveries
               PROVE  deliveries[d].attempts <= deliveries'[d].attempts
    OBVIOUS
  <2>1. d \in Delivery /\ Enqueued(d)
    BY DEF DueDeliveries
  <2> QED
    BY <1>1, <2>1, RowTypes
<1> HIDE DEF due
<1>3. /\ PassFacts(x)' /\ executor'[x].push = NoDelivery
      /\ \A y \in Executor \ {x} : executor'[y] = executor[y]
  BY <1>1, <1>2, RemainingFacts
<1>4. \A d \in Delivery : Enqueued(d) => deliveries[d].attempts <= deliveries'[d].attempts
  BY <1>1, RowTypes
<1>5. \A y \in Executor : PassFacts(y)'
  BY <1>3, <1>4, OthersKept
<1>6. \A y \in Executor : executor'[y].push = executor[y].push
  BY <1>1, <1>3 DEF PushFacts, PassFacts
<1> QED
  BY <1>1, <1>5, <1>6, RowsUntouched, Bookkeeping

LEMMA ReceivedCounts ==
    ASSUME IInv, IInv', RowsKept, PushFacts, NEW x \in Executor, Received(x), UNCHANGED watcher
    PROVE  PushFacts'
<1>1. executor[x] \in ExecutorState
  BY PassTypes
<1>2. UNCHANGED <<posts, deliveries, routes>> /\ executor[x].pc = "posting"
  BY DEF Received, eventVars
<1>3. /\ executor'[x].pc = "taken" /\ executor'[x].due = executor[x].due
      /\ executor'[x].push = executor[x].push /\ executor'[x].attempts = executor[x].attempts
      /\ \A y \in Executor \ {x} : executor'[y] = executor[y]
  BY <1>1 DEF Received, IInv, TypeOK, ExecutorTypeOK, ExecutorState
<1>4. \A d \in Delivery : Enqueued(d) => deliveries[d].attempts <= deliveries'[d].attempts
  BY <1>2, RowTypes
<1>5. PassFacts(x)'
  <2>1. {executor'[x].pc, executor[x].pc} = {"posting", "taken"}
    BY <1>2, <1>3
  <2> QED
    BY <1>3, <1>4, <2>1, PassFactsKept DEF PushFacts
<1>6. \A y \in Executor : PassFacts(y)'
  BY <1>3, <1>4, <1>5, OthersKept
<1>7. DrainFacts'
  BY <1>2, <1>3, DrainKept DEF PushFacts
<1>8. \A y \in Executor : executor'[y].push = executor[y].push
  BY <1>3
<1> QED
  BY <1>2, <1>6, <1>7, <1>8, RowsUntouched, Bookkeeping

LEMMA SucceededCounts ==
    ASSUME IInv, IInv', RowsKept, PushFacts, NEW x \in Executor, PostSucceeded(x),
           UNCHANGED watcher
    PROVE  PushFacts'
<1>1. executor[x].push \in Delivery /\ deliveries[executor[x].push] \in Row
  BY PassTypes, RowTypes DEF PostSucceeded
<1>2. /\ deliveries'[executor[x].push].attempts = deliveries[executor[x].push].attempts + 1
      /\ deliveries'[executor[x].push].dead = deliveries[executor[x].push].dead
      /\ \A d \in Delivery : d # executor[x].push => deliveries'[d] = deliveries[d]
      /\ routes' = routes
  BY <1>1 DEF PostSucceeded, RecordDeliverySuccess, IInv, TypeOK, EventStoreTypeOK, Row
<1> QED
  BY <1>2, EndCounts DEF PostSucceeded

LEMMA FailedCounts ==
    ASSUME IInv, IInv', RowsKept, PushFacts, NEW x \in Executor, PostFailed(x),
           UNCHANGED watcher
    PROVE  PushFacts'
<1>1. executor[x].push \in Delivery /\ deliveries[executor[x].push] \in Row
  BY PassTypes, RowTypes DEF PostFailed
<1>2. /\ deliveries'[executor[x].push].attempts = deliveries[executor[x].push].attempts + 1
      /\ deliveries'[executor[x].push].dead = (NextAttempt(executor[x].attempts + 1) = "null")
      /\ \A d \in Delivery : d # executor[x].push => deliveries'[d] = deliveries[d]
      /\ routes' = routes
  BY <1>1 DEF PostFailed, RecordDeliveryFailure, IInv, TypeOK, EventStoreTypeOK, Row
<1>3. deliveries'[executor[x].push].dead => executor[x].attempts + 1 > MaxAttempts
  BY <1>2 DEF NextAttempt
<1> QED
  BY <1>2, <1>3, EndCounts DEF PostFailed

LEMMA ExecutingCounts ==
    ASSUME IInv, IInv', RowsKept, PushFacts, ~Faults, Executing
    PROVE  PushFacts'
<1>1. PICK x \in Executor : ExecutorStep(x)
  BY DEF Executing
<1>2. UNCHANGED watcher
  BY DEF Executing, watchVars
<1>3. CASE x \notin Watcher /\ Tick(x)
  <2>1. \A y \in Executor \ {x} : executor'[y] = executor[y]
    BY <1>3 DEF Tick, ListDue, NextDelivery, IInv, TypeOK, ExecutorTypeOK
  <2>2. DrainFacts'
    BY <1>2, <1>3, <2>1, DrainKept DEF PushFacts
  <2> QED
    BY <1>3, <2>2, ListCounts DEF Tick
<1>4. CASE \E item \in executor[x].due : Unroutable(x, item) \/ Post(x, item)
  BY <1>2, <1>4, UnroutableCounts, PostCounts
<1>5. CASE Received(x) \/ PostSucceeded(x) \/ PostFailed(x)
  BY <1>2, <1>5, ReceivedCounts, SucceededCounts, FailedCounts
<1> QED
  BY <1>1, <1>3, <1>4, <1>5 DEF ExecutorStep, PassStep, Abort

\* The watches' own steps: rows are only added, and nobody starts or stops
\* draining.
LEMMA WatchingCounts ==
    ASSUME IInv, IInv', RowsKept, PushFacts, ~Faults, Watching
    PROVE  PushFacts'
<1>1. PICK w \in Watcher : WatcherStep(w)
  BY DEF Watching
<1>2. UNCHANGED <<executor, posts>>
  BY DEF Watching, pushVars
<1>3. watcher[w].pc # "draining"
  BY <1>1 DEF WatcherStep, Connect, Fetch, IdleTimeout, NewMessage, KnownMessage, Take,
     QueueMessage, ScanCode, NoCode, QueueCode, EndBatch
<1>4. \A v \in Watcher \ {w} : watcher'[v] = watcher[v]
  BY <1>1, TurnsAlone DEF IInv, TypeOK
<1>5. DrainFacts'
  BY <1>2, <1>3, <1>4 DEF PushFacts, DrainFacts
<1>6. (\A d \in Delivery : RowStill(d)) /\ (\A r \in Route : RouteStill(r))
  <2>1. CASE QueueMessage(w) \/ QueueCode(w)
    <3>1. PICK e : EnqueueDeliveries(e, MatchingRoutes(e[3]))
      BY <2>1 DEF QueueMessage, QueueCode, QueueAll
    <3>2. \A r \in Route : RouteStill(r)
      BY <3>1 DEF EnqueueDeliveries, RouteStill
    <3>3. \A d \in Delivery : RowStill(d)
      BY <3>1 DEF EnqueueDeliveries, MatchingRoutes, RowStill
    <3> QED
      BY <3>2, <3>3
  <2>2. CASE ~(QueueMessage(w) \/ QueueCode(w))
    <3>1. UNCHANGED <<deliveries, routes>>
      BY <1>1, <2>2 DEF WatcherStep, Connect, Fetch, IdleTimeout, NewMessage, KnownMessage,
         InsertEvent, ScanCode, NoCode, EndBatch, eventVars
    <3> QED
      BY <3>1, RowsUntouched
  <2> QED
    BY <2>1, <2>2
<1> QED
  BY <1>2, <1>5, <1>6, Bookkept

LEMMA DrainingCounts ==
    ASSUME IInv, IInv', RowsKept, PushFacts, Draining
    PROVE  PushFacts'
<1>1. PICK w \in Delivering : Drain(w) \/ Drained(w)
  BY DEF Draining
<1>2. w \in Watcher /\ w \in Executor
  BY DeliveringAssumption, ExecutorAssumption
<1>3. CASE Drain(w)
  <2>1. \A v \in Watcher : watcher'[v].pc = IF v = w THEN "draining" ELSE watcher[v].pc
    BY <1>2, <1>3 DEF Drain, WatcherAt, IInv, TypeOK, WatchTypeOK, WatcherState
  <2>2. \A y \in Executor \ {w} : executor'[y] = executor[y]
    BY <1>3 DEF Drain, ListDue, NextDelivery, IInv, TypeOK, ExecutorTypeOK
  <2>3. DrainFacts'
    BY <2>1, <2>2 DEF PushFacts, DrainFacts
  <2> QED
    BY <1>2, <1>3, <2>3, ListCounts DEF Drain
<1>4. CASE Drained(w)
  <2>1. UNCHANGED <<executor, posts, deliveries, routes>> /\ executor[w].pc = "idle"
    BY <1>4 DEF Drained, pushVars, eventVars
  <2>2. \A v \in Watcher \ {w} : watcher'[v] = watcher[v]
    BY <1>4 DEF Drained, WatcherAt, IInv, TypeOK, WatchTypeOK
  <2>3. DrainFacts'
    BY <2>1, <2>2 DEF PushFacts, DrainFacts
  <2> QED
    BY <2>1, <2>3, RowsUntouched, Bookkept
<1> QED
  BY <1>1, <1>3, <1>4

LEMMA StoppingCounts ==
    ASSUME IInv, IInv', RowsKept, PushFacts, ~Faults, Stopping
    PROVE  PushFacts'
<1>1. PICK w \in Watcher :
          /\ Stop(w)
          /\ executor' = [x \in Executor |-> IF x = w THEN Resting ELSE executor[x]]
  BY DEF Stopping
<1>2. UNCHANGED <<posts, deliveries, routes>> /\ watcher[w].pc = "idle"
  BY <1>1 DEF Stopping, Stop, eventVars
<1>3. \A v \in Watcher \ {w} : watcher'[v] = watcher[v]
  BY <1>1 DEF Stop, IInv, TypeOK, WatchTypeOK
<1>4. \A y \in Executor \ {w} : executor'[y] = executor[y]
  BY <1>1
<1>5. w \in Executor => executor'[w] = Resting /\ executor[w].push = NoDelivery
  BY <1>1, <1>2 DEF PushFacts, DrainFacts, PassFacts
<1>6. DrainFacts'
  BY <1>3, <1>4, <1>5 DEF PushFacts, DrainFacts, Resting
<1>7. \A d \in Delivery : Enqueued(d) => deliveries[d].attempts <= deliveries'[d].attempts
  BY <1>2, RowTypes
<1>8. \A y \in Executor \ {w} : PassFacts(y)'
  BY <1>4, <1>7, OthersKept
<1>9. w \in Executor => PassFacts(w)'
  BY <1>5 DEF PassFacts, Resting
<1>10. \A y \in Executor : PassFacts(y)' /\ executor'[y].push = executor[y].push
  BY <1>4, <1>5, <1>8, <1>9 DEF Resting
<1> QED
  BY <1>2, <1>6, <1>10, RowsUntouched, Bookkeeping

LEMMA OperatingCounts ==
    ASSUME IInv, IInv', RowsKept, PushFacts, Operating
    PROVE  PushFacts'
<1>1. UNCHANGED <<watcher, executor, posts>>
  BY DEF Operating, AddRoute, RemoveRoute, RetryDelivery, watchVars, pushVars
<1>2. DrainFacts'
  BY <1>1 DEF PushFacts, DrainFacts
<1>3. (\A d \in Delivery : RowStill(d)) /\ (\A r \in Route : RouteStill(r))
  <2>1. ASSUME NEW q \in Route, AddRoute(q) \/ RemoveRoute(q)
        PROVE  (\A d \in Delivery : RowStill(d)) /\ (\A r \in Route : RouteStill(r))
    <3>1. UNCHANGED deliveries
      BY <2>1 DEF AddRoute, RemoveRoute, CreateEventRoute, DeleteEventRoute
    <3>2. \A r \in Route : RouteStill(r)
      BY <2>1 DEF AddRoute, RemoveRoute, CreateEventRoute, DeleteEventRoute, RouteStill,
                  IInv, TypeOK, EventStoreTypeOK
    <3> QED
      BY <3>1, <3>2 DEF RowStill
  <2>2. ASSUME NEW c \in Delivery, RetryDelivery(c)
        PROVE  (\A d \in Delivery : RowStill(d)) /\ (\A r \in Route : RouteStill(r))
    <3>1. routes' = routes /\ Enqueued(c) /\ deliveries[c] \in Row
      BY <2>2, RowTypes DEF RetryDelivery, ResetDeliveryForRetry
    <3>2. /\ deliveries'[c].attempts = deliveries[c].attempts /\ ~deliveries'[c].dead
          /\ \A d \in Delivery : d # c => deliveries'[d] = deliveries[d]
      BY <2>2, <3>1 DEF RetryDelivery, ResetDeliveryForRetry, IInv, TypeOK, EventStoreTypeOK, Row
    <3> QED
      BY <3>1, <3>2 DEF RowStill, RouteStill
  <2> QED
    BY <2>1, <2>2 DEF Operating
<1> QED
  BY <1>1, <1>2, <1>3, Bookkept

LEMMA ClockCounts ==
    ASSUME IInv, IInv', RowsKept, PushFacts, Clock
    PROVE  PushFacts'
<1>1. UNCHANGED <<watcher, executor, posts>>
  BY DEF Clock, watchVars, pushVars
<1>2. DrainFacts'
  BY <1>1 DEF PushFacts, DrainFacts
<1>3. PICK c \in Delivery : BackoffElapses(c)
  BY DEF Clock
<1>4. routes' = routes /\ Enqueued(c) /\ deliveries[c] \in Row
  BY <1>3, RowTypes DEF BackoffElapses
<1>5. /\ deliveries'[c].attempts = deliveries[c].attempts
      /\ deliveries'[c].dead = deliveries[c].dead
      /\ \A d \in Delivery : d # c => deliveries'[d] = deliveries[d]
  BY <1>3, <1>4 DEF BackoffElapses, IInv, TypeOK, EventStoreTypeOK, Row
<1>6. (\A d \in Delivery : RowStill(d)) /\ (\A r \in Route : RouteStill(r))
  BY <1>4, <1>5 DEF RowStill, RouteStill
<1> QED
  BY <1>1, <1>2, <1>6, Bookkept

\* New mail, and nothing.
LEMMA IdleCounts ==
    ASSUME IInv, IInv', RowsKept, PushFacts, Mail \/ UNCHANGED vars
    PROVE  PushFacts'
<1>1. UNCHANGED <<watcher, executor, posts, deliveries, routes>>
  BY DEF Mail, MailArrives, ValidityChanges, vars, watchVars, pushVars, eventVars
<1>2. DrainFacts'
  BY <1>1 DEF PushFacts, DrainFacts
<1> QED
  BY <1>1, <1>2, RowsUntouched, Bookkept

LEMMA PushNext == IInv /\ PushInv /\ [Next]_vars => PushInv'
<1> SUFFICES ASSUME IInv, PushFacts, [Next]_vars, ~Faults PROVE PushFacts'
  BY DEF PushInv
<1>1. IInv' /\ RowsKept
  BY NextOK, RowsStay
<1> QED
  BY <1>1, IdleCounts, WatchingCounts, DrainingCounts, StoppingCounts, ExecutingCounts,
     OperatingCounts, ClockCounts DEF Next

-----------------------------------------------------------------------------
QueueInv == WatchesInv /\ CodesInv /\ QueuedInv /\ PushInv

LEMMA InitQueue == Init => QueueInv
<1> SUFFICES ASSUME Init PROVE QueueInv
  OBVIOUS
<1>1. events = {} /\ \A d \in Delivery : ~Enqueued(d)
  BY DEF Init, Enqueued
<1>2. \A w \in Watcher : watcher[w] = Off
  BY DEF Init, WatchInit
<1>3. WatchesInv
  BY <1>2 DEF WatchesInv, WatchInv, Off
<1>4. CodesInv /\ QueuedInv
  BY <1>1 DEF CodesInv, CodesAreAnnounced, QueuedInv, EventsAreQueued
<1>5. \A x \in Executor : executor[x] = Resting
  BY DEF Init, ExecutorInit
<1>6. (\A x \in Executor : PassFacts(x)) /\ DrainFacts
  BY <1>5 DEF PassFacts, DrainFacts, Resting
<1>7. RowFacts /\ DeadIsDeserved /\ AttemptsCountPosts
  BY <1>1 DEF Init, ExecutorInit, RowFacts, DeadIsDeserved, AttemptsCountPosts
<1> QED
  BY <1>3, <1>4, <1>6, <1>7 DEF QueueInv, PushInv, PushFacts

\* What watches and executors know of mailbox, events, rows and counts, when no
\* statement fails.
THEOREM QueueInvariance == Spec => []QueueInv
<1>1. IInv /\ QueueInv /\ [Next]_vars => QueueInv'
  BY WatchesNext, CodesNext, QueuedNext, PushNext DEF QueueInv
<1> QED
  BY <1>1, InitQueue, Invariance, PTL DEF Spec

\* No message that comes after a watch is passed over: below the watermark each
\* has its event or is still in the batch, whatever other watches insert and
\* however often the folder is renumbered (run in cli/src/commands/watch.rs).
THEOREM WatermarkCovers == Spec => [](~Faults => WatermarkCovered)
<1>1. IInv /\ QueueInv => (~Faults => WatermarkCovered)
  <2> SUFFICES ASSUME IInv, QueueInv, ~Faults, NEW w \in Watcher, watcher[w].pc # "off",
                      NEW uid \in Floor(w) + 1 .. watcher[w].last
               PROVE  \/ <<watcher[w].known, uid, "new_message">> \in events
                      \/ uid \in watcher[w].todo
    BY DEF WatermarkCovered
  <2>1. /\ watcher[w] \in WatcherState /\ Floor(w) \in Nat /\ watcher[w].last \in Nat
    BY WatchTypes DEF IInv, TypeOK
  <2>2. uid \in Uid /\ Floor(w) < uid /\ uid <= watcher[w].last
    BY <2>1, MaxUidAssumption DEF WatcherState, Uid
  <2> QED
    BY <2>2 DEF QueueInv, WatchesInv, WatchInv, Reached, Seen
<1> QED
  BY <1>1, Invariance, QueueInvariance, PTL

\* No event is made for a message that was there before the watch ("only fetch
\* genuinely new messages").
THEOREM OldStaysQuiet == Spec => [](~Faults => GenuinelyNew)
<1>1. IInv /\ QueueInv => (~Faults => GenuinelyNew)
  <2> SUFFICES ASSUME IInv, QueueInv, ~Faults, NEW w \in Watcher,
                      watcher[w].pc \in InHand, watcher[w].known = began[w].validity
               PROVE  watcher[w].uid > began[w].top
    BY DEF GenuinelyNew, InHand
  <2>1. began[w].top < watcher[w].uid
    BY DEF QueueInv, WatchesInv, WatchInv, InHand
  <2> QED
    BY <2>1, WatchTypes DEF IInv, TypeOK
<1> QED
  BY <1>1, Invariance, QueueInvariance, PTL

\* Each message with a code gets its second event, whichever watch won the
\* insertion of the first (the otp_detected event in run).
THEOREM CodesFollow == Spec => [](~Faults => CodesAreAnnounced)
<1>1. QueueInv => (~Faults => CodesAreAnnounced)
  BY DEF QueueInv, CodesInv
<1> QED
  BY <1>1, QueueInvariance, PTL

\* If every watch was started with --deliver, each event has a delivery for each
\* standing route that matches it and is older than it, or its watch is about to
\* queue it (enqueue_deliveries_for_event in watch.rs).
THEOREM NothingUnqueued == Spec => [](~Faults /\ Delivering = Watcher => EventsAreQueued)
<1>1. QueueInv => (~Faults /\ Delivering = Watcher => EventsAreQueued)
  BY DEF QueueInv, QueuedInv
<1> QED
  BY <1>1, QueueInvariance, PTL

\* However many executors race for one row without a claim, its attempt_count
\* and the POSTs under way add up to the POSTs made (record_delivery_success and
\* record_delivery_failure).
THEOREM CountsAddUp == Spec => [](~Faults /\ IsFiniteSet(Executor) => AttemptsCountPosts)
<1>1. QueueInv => (~Faults /\ IsFiniteSet(Executor) => AttemptsCountPosts)
  BY DEF QueueInv, PushInv, PushFacts
<1> QED
  BY <1>1, QueueInvariance, PTL

\* A delivery is given up only after its last retry or with its route, though
\* the executor decides from a count that others have moved on (the backoff in
\* deliver_due_events).
THEOREM DeadDeserves == Spec => [](~Faults => DeadIsDeserved)
<1>1. QueueInv => (~Faults => DeadIsDeserved)
  BY DEF QueueInv, PushInv, PushFacts
<1> QED
  BY <1>1, QueueInvariance, PTL
=============================================================================
