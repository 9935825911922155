--------------------------- MODULE DeliveryProofs ----------------------------
(***************************************************************************)
(* Outbox implements DeliveryPromise, for any number of drafts and         *)
(* processes and any bounds; no draft is delivered again except after an   *)
(* unconfirmed immediate send; the row a sweep works on is frozen; and a   *)
(* claim nobody holds is inert.                                            *)
(*                                                                         *)
(* The proofs do not look at the actions one by one.  Each process is      *)
(* first shown to have one of a few effects on rows, deliveries and leases *)
(* (SweepEffect, SendEffect, OtherEffect), and everything else follows     *)
(* from the effects.                                                       *)
(***************************************************************************)
EXTENDS OutboxProofs, SequenceTheorems

Over == {"sent", "delivery_uncertain"}

\* What a process leaves alone.
SweepersKept(s) == \A o \in Sweeper \ {s} : sweeper'[o] = sweeper[o]
SendersKept(c) == \A o \in Sender \ {c} : sender'[o] = sender[o]

\* A message of the given kind was taken for d.
Delivered(d, m) == deliveries' = [deliveries EXCEPT ![d] = Append(@, m)]

\* A step of sweep s: it stays with its lease, goes on without one, claims a due
\* draft, transmits, releases before transmitting, or closes after.
SweepStays(s) ==
    /\ UNCHANGED <<drafts, deliveries>>
    /\ sweeper[s].lease # NoToken
    /\ sweeper'[s].draft = sweeper[s].draft /\ sweeper'[s].lease = sweeper[s].lease
    /\ \/ sweeper[s].pc = "claimed" /\ sweeper'[s].snap = drafts[sweeper[s].draft]
       \/ sweeper[s].pc \in {"loaded", "sending"} /\ sweeper'[s].snap = sweeper[s].snap

SweepDrops(s) == UNCHANGED <<drafts, deliveries>> /\ sweeper'[s].lease = NoToken

SweepClaims(s, d) ==
    /\ sweeper[s].lease = NoToken
    /\ sweeper'[s].draft = d /\ sweeper'[s].pc = "claimed"
    /\ drafts[d].status = "draft" /\ drafts'[d].status = "sending"
    /\ drafts'[d].sendAfter = "due"
    /\ OthersKept(d) /\ UNCHANGED deliveries

SweepSends(s) ==
    /\ UNCHANGED drafts
    /\ sweeper[s].pc = "sending" /\ sweeper'[s].pc \in {"accepted", "uncertain"}
    /\ sweeper'[s].draft = sweeper[s].draft /\ sweeper'[s].lease = sweeper[s].lease
    /\ sweeper'[s].snap = sweeper[s].snap
    /\ \E m \in Delivery : m.by = "sweep" /\ Delivered(sweeper[s].draft, m)

SweepReleases(s) ==
    /\ sweeper[s].pc \in {"claimed", "loaded"} /\ sweeper'[s].lease = NoToken
    /\ drafts'[sweeper[s].draft].status \in Editable
    /\ OthersKept(sweeper[s].draft) /\ UNCHANGED deliveries

SweepCloses(s) ==
    /\ sweeper[s].pc \in {"accepted", "uncertain"} /\ sweeper'[s].lease = NoToken
    /\ drafts'[sweeper[s].draft].status \in Over
    /\ OthersKept(sweeper[s].draft) /\ UNCHANGED deliveries

SweepEffect(s) ==
    /\ SweepersKept(s) /\ UNCHANGED sender
    /\ \/ SweepStays(s)
       \/ SweepDrops(s)
       \/ \E d \in Draft : SweepClaims(s, d)
       \/ SweepSends(s)
       \/ SweepReleases(s)
       \/ SweepCloses(s)

\* The same for an immediate send.
SendStays(c) ==
    /\ UNCHANGED <<drafts, deliveries>>
    /\ sender[c].pc # "accepted"
    /\ sender'[c].draft = sender[c].draft /\ sender'[c].lease = sender[c].lease

SendDrops(c) == UNCHANGED <<drafts, deliveries>> /\ sender'[c].lease = NoToken

SendClaims(c, d) ==
    /\ sender[c].lease = NoToken
    /\ sender'[c].draft = d
    /\ drafts[d].status = "draft" /\ drafts'[d].status = "sending"
    /\ OthersKept(d) /\ UNCHANGED deliveries

SendSends(c) ==
    /\ UNCHANGED drafts
    /\ sender[c].pc = "sending"
    /\ sender'[c].draft = sender[c].draft /\ sender'[c].lease = sender[c].lease
    /\ \E m \in Delivery : /\ m.by = "immediate"
                           /\ m.acknowledged => sender'[c].pc = "accepted"
                           /\ Delivered(sender[c].draft, m)

SendReleases(c) ==
    /\ sender[c].pc = "bail" /\ sender'[c].lease = NoToken
    /\ drafts'[sender[c].draft].status \in Editable
    /\ OthersKept(sender[c].draft) /\ UNCHANGED deliveries

SendCloses(c) ==
    /\ sender[c].pc = "accepted" /\ sender'[c].lease = NoToken
    /\ drafts'[sender[c].draft].status \in Over
    /\ OthersKept(sender[c].draft) /\ UNCHANGED deliveries

SendEffect(c) ==
    /\ SendersKept(c) /\ UNCHANGED sweeper
    /\ \/ SendStays(c)
       \/ SendDrops(c)
       \/ \E d \in Draft : SendClaims(c, d)
       \/ SendSends(c)
       \/ SendReleases(c)
       \/ SendCloses(c)

\* Everybody else transmits nothing and touches no row a sender holds: an open
\* row that no claim is on may be written, claimed or discarded, the holder of
\* a sync lease writes or gives back its row, and a schedule comes due.
OpenWritten(d) ==
    \/ drafts[d].status \in Editable /\ drafts'[d].status \in Editable \cup {"syncing"}
    \/ drafts[d].status \in Discardable /\ drafts'[d].status = "discarded"

SyncWritten(d) ==
    /\ \E m \in Syncer : SyncerHolds(m, d)
    /\ drafts[d].status = "syncing" /\ drafts'[d].status \in Editable \cup {"syncing"}

FellDue(d) == BecomeDue(d)

OtherEffect ==
    /\ UNCHANGED <<sweeper, sender, deliveries>>
    /\ \/ UNCHANGED drafts
       \/ \E d \in Draft : OthersKept(d) /\ (OpenWritten(d) \/ SyncWritten(d) \/ FellDue(d))

-----------------------------------------------------------------------------
(* Every step has one of these effects.                                    *)

LEMMA SweepHasEffect ==
    ASSUME IInv, NEW s \in Sweeper, SweeperStep(s),
           UNCHANGED <<sender, syncer, cockpitVars>>
    PROVE  SweepEffect(s)
<1>1. /\ drafts \in [Draft -> Row]
      /\ sweeper \in [Sweeper -> SweeperState] /\ sweeper[s] \in SweeperState
      /\ SweeperOK(sweeper[s])
      /\ deliveries \in [Draft -> Seq(Delivery)]
  BY DEF IInv, TypeOK, DraftStoreTypeOK, SweepTypeOK, MailServerTypeOK, LocalsOK
<1>2. NoToken \notin Token
  BY NoTokenAssumption
<1> DEFINE d == sweeper[s].draft
           t == sweeper[s].lease
           snap == sweeper[s].snap
<1>3. StoreOK
  BY DEF IInv, TypeOK, StoreOK
<1>4. \A todo : After(todo).lease = NoToken
  BY DEF After, Idle
<1>5. NextDraft(s) => SweepersKept(s) /\ sweeper'[s].lease = NoToken
  BY <1>1, <1>4 DEF NextDraft, SweepersKept
<1>6. ASSUME Stranded(s), UNCHANGED mailVars
      PROVE  SweepersKept(s) /\ SweepDrops(s)
  BY <1>5, <1>6 DEF Stranded, SweepDrops, storeVars, mailVars
<1>7. CASE Scan(s) \/ SweeperCrash(s) \/ (\E e \in Draft, rev \in Rev : ClaimLost(s, e, rev))
  <2>1. PICK q \in {Idle} \cup {After(todo) : todo \in SUBSET (Draft \X Rev)} :
            sweeper' = [sweeper EXCEPT ![s] = q]
    <3>1. CASE Scan(s)
      <4> DEFINE todo == {<<e, drafts[e].rev>> : e \in DueForSend}
      <4>1. todo \in SUBSET (Draft \X Rev)
        BY <1>1 DEF Row, DueForSend
      <4>2. sweeper' = [sweeper EXCEPT ![s] = After(todo)]
        BY <3>1 DEF Scan
      <4> HIDE DEF todo
      <4> QED
        BY <4>1, <4>2
    <3>2. CASE SweeperCrash(s)
      BY <3>2 DEF SweeperCrash
    <3>3. ASSUME NEW e \in Draft, NEW rev \in Rev, ClaimLost(s, e, rev)
          PROVE  \E q \in {Idle} \cup {After(todo) : todo \in SUBSET (Draft \X Rev)} :
                     sweeper' = [sweeper EXCEPT ![s] = q]
      <4>1. sweeper[s].todo \ {<<e, rev>>} \in SUBSET (Draft \X Rev)
        BY <1>1 DEF SweeperState
      <4> QED
        BY <3>3, <4>1 DEF ClaimLost
    <3> QED
      BY <1>7, <3>1, <3>2, <3>3
  <2>2. q.lease = NoToken
    BY <1>4 DEF Idle
  <2>3. sweeper'[s].lease = NoToken /\ SweepersKept(s)
    BY <1>1, <2>1, <2>2 DEF SweepersKept
  <2> QED
    BY <1>7, <2>3 DEF Scan, SweeperCrash, ClaimLost, SweepEffect, SweepDrops, storeVars, mailVars
<1>8. ASSUME NEW e \in Draft, NEW rev \in Rev, ClaimWon(s, e, rev)
      PROVE  SweepEffect(s)
  <2>1. PICK u \in Token :
          /\ ClaimForSending(e, rev, u)
          /\ sweeper' = [sweeper EXCEPT
                ![s] = [Idle EXCEPT !.pc = "claimed", !.todo = sweeper[s].todo \ {<<e, rev>>},
                                    !.draft = e, !.lease = u]]
    BY <1>8 DEF ClaimWon
  <2>2. sweeper'[s].draft = e /\ sweeper'[s].pc = "claimed" /\ SweepersKept(s)
    BY <1>1, <2>1 DEF Idle, SweepersKept
  <2>3. sweeper[s].lease = NoToken
    BY <1>1, <1>8 DEF ClaimWon, SweeperOK
  <2>4. drafts[e].status = "draft" /\ drafts[e].sendAfter = "due"
    BY <2>1 DEF ClaimForSending, SendClaimable, Due
  <2>5. drafts'[e].status = "sending" /\ drafts'[e].sendAfter = "due" /\ OthersKept(e)
    BY <1>1, <2>1, <2>4 DEF ClaimForSending, OthersKept, Row
  <2>6. UNCHANGED deliveries
    BY <1>8 DEF ClaimWon, mailVars
  <2> QED
    BY <2>2, <2>3, <2>4, <2>5, <2>6 DEF SweepEffect, SweepClaims
<1>9. CASE Reload(s) \/ PassGate(s)
  <2>1. t # NoToken
    BY <1>1, <1>9 DEF Reload, PassGate, SweeperOK
  <2>2. SweepersKept(s) /\ sweeper'[s].draft = d /\ sweeper'[s].lease = t
    BY <1>1, <1>9 DEF Reload, PassGate, SweepersKept, SweeperState
  <2>3. \/ sweeper[s].pc = "claimed" /\ sweeper'[s].snap = drafts[d]
        \/ sweeper[s].pc = "loaded" /\ sweeper'[s].snap = snap
    BY <1>1, <1>9 DEF Reload, PassGate, SweeperState
  <2>4. UNCHANGED <<drafts, deliveries>>
    BY <1>9 DEF Reload, PassGate, storeVars, mailVars
  <2> QED
    BY <2>1, <2>2, <2>3, <2>4 DEF SweepEffect, SweepStays
\* Releases and parks before the transmission.
<1>10. CASE ReloadFailed(s) \/ PrepareFailed(s) \/ AttributionRefused(s) \/ GovernorRefused(s)
  <2>1. d \in Draft /\ sweeper[s].pc \in {"claimed", "loaded"} /\ UNCHANGED mailVars
    BY <1>1, <1>10 DEF ReloadFailed, PrepareFailed, AttributionRefused, GovernorRefused, SweeperOK
  <2>2. CASE Stranded(s)
    BY <1>6, <2>1, <2>2 DEF SweepEffect
  <2>3. ASSUME ~Stranded(s)
        PROVE  /\ NextDraft(s)
               /\ \/ \E to \in {"draft", "blocked"} : ReleaseSending(d, t, to)
                  \/ ParkForReview(d, t)
                  \/ ParkAttributionExhausted(d, t, FailedAttempt(snap))
                  \/ DeferAttributionRetry(d, t, FailedAttempt(snap))
    BY <1>10, <2>3 DEF ReloadFailed, PrepareFailed, AttributionRefused, GovernorRefused
  <2>4. CASE ~Stranded(s)
    <3>1. drafts'[d].status \in Editable /\ OthersKept(d)
      BY <1>1, <2>1, <2>3, <2>4 DEF ReleaseSending, ParkForReview, ParkAttributionExhausted,
         DeferAttributionRetry, OthersKept, Editable, Row
    <3> QED
      BY <1>5, <2>1, <2>3, <2>4, <3>1 DEF SweepEffect, SweepReleases, mailVars
  <2> QED
    BY <2>2, <2>4
<1>11. CASE Transmit(s) \/ TransmitInconclusive(s)
  <2>1. /\ d \in Draft /\ t # NoToken /\ snap \in Row
        /\ sweeper[s].pc = "sending" /\ sweeper[s].gate \in {"human", "governor"}
    BY <1>1, <1>11 DEF Transmit, TransmitInconclusive, SweeperOK, SweeperState, Gate
  <2>2. /\ SweepersKept(s) /\ sweeper'[s].pc \in {"accepted", "uncertain"}
        /\ sweeper'[s].draft = d /\ sweeper'[s].lease = t /\ sweeper'[s].snap = snap
    <3>1. PICK pc \in {"accepted", "uncertain"} : sweeper' = [sweeper EXCEPT ![s].pc = pc]
      BY <1>11 DEF Transmit, TransmitInconclusive
    <3> QED
      BY <1>1, <3>1 DEF SweepersKept, SweeperState
  <2>3. UNCHANGED drafts
    BY <1>11 DEF Transmit, TransmitInconclusive, storeVars
  <2>4. CASE UNCHANGED deliveries
    BY <2>1, <2>2, <2>3, <2>4 DEF SweepEffect, SweepStays
  <2>5. ASSUME NEW acked \in BOOLEAN,
               Accept(d, snap.content, sweeper[s].gate, "sweep", acked)
        PROVE  SweepEffect(s)
    <3> DEFINE m == [content |-> snap.content, gate |-> sweeper[s].gate, by |-> "sweep",
                     acknowledged |-> acked]
    <3>1. m \in Delivery /\ m.by = "sweep"
      BY <2>1 DEF Delivery, Row
    <3>2. Delivered(d, m)
      BY <2>5 DEF Accept, Delivered
    <3> HIDE DEF m
    <3> QED
      BY <2>1, <2>2, <2>3, <3>1, <3>2 DEF SweepEffect, SweepSends
  <2> QED
    BY <1>11, <2>4, <2>5 DEF Transmit, TransmitInconclusive, mailVars
<1>12. CASE RecordSent(s) \/ RecordSentFailed(s) \/ ParkUncertain(s)
  <2>1. /\ d \in Draft /\ sweeper[s].pc \in {"accepted", "uncertain"} /\ UNCHANGED mailVars
    BY <1>1, <1>12 DEF RecordSent, RecordSentFailed, ParkUncertain, SweeperOK
  <2>2. CASE Stranded(s)
    BY <1>6, <2>1, <2>2 DEF SweepEffect
  <2>3. CASE ~Stranded(s)
    <3>1. MarkSent(d, t) \/ ParkDeliveryUncertain(d, t)
      BY <1>12, <2>3 DEF RecordSent, RecordSentFailed, ParkUncertain
    <3>2. SweepersKept(s) /\ sweeper'[s].lease = NoToken
      BY <1>1, <1>5, <1>12, <2>3 DEF RecordSent, RecordSentFailed, ParkUncertain, SweepersKept,
         SweeperState
    <3>3. drafts'[d].status \in Over /\ OthersKept(d)
      BY <1>1, <2>1, <3>1 DEF MarkSent, ParkDeliveryUncertain, Over, OthersKept, Row
    <3> QED
      BY <2>1, <3>2, <3>3 DEF SweepEffect, SweepCloses, mailVars
  <2> QED
    BY <2>2, <2>3
<1>13. CASE Cleanup(s)
  BY <1>5, <1>13 DEF Cleanup, RemoveCopies, SweepEffect, SweepDrops, storeVars, mailVars
<1> QED
  BY <1>7, <1>8, <1>9, <1>10, <1>11, <1>12, <1>13 DEF SweeperStep

LEMMA SendHasEffect ==
    ASSUME IInv, NEW c \in Sender, SenderStep(c),
           UNCHANGED <<sweeper, syncer, cockpitVars>>
    PROVE  SendEffect(c)
<1>1. /\ drafts \in [Draft -> Row]
      /\ sender \in [Sender -> SenderState] /\ sender[c] \in SenderState
      /\ SenderOK(sender[c])
      /\ deliveries \in [Draft -> Seq(Delivery)]
  BY DEF IInv, TypeOK, DraftStoreTypeOK, ImmediateTypeOK, MailServerTypeOK, LocalsOK
<1> DEFINE d == sender[c].draft
           t == sender[c].lease
<1>2. FinishSend(c) => SendersKept(c) /\ sender'[c].lease = NoToken
  BY <1>1 DEF FinishSend, NotSending, SendersKept
<1>3. ASSUME NEW pc, SenderAt(c, pc)
      PROVE  /\ SendersKept(c) /\ sender'[c].pc = pc
             /\ sender'[c].draft = d /\ sender'[c].lease = t
  BY <1>1, <1>3 DEF SenderAt, SendersKept, SenderState
<1>4. CASE ImmediateClaimLost(c) \/ CleanupNow(c) \/ SenderCrash(c)
  BY <1>2, <1>4 DEF ImmediateClaimLost, CleanupNow, SenderCrash, RemoveCopies, SendEffect, SendDrops,
     storeVars, mailVars
<1>5. ASSUME NEW e \in Draft, ReadDraft(c, e)
      PROVE  SendEffect(c)
  <2>1. SendersKept(c) /\ sender'[c].lease = NoToken
    BY <1>1, <1>5 DEF ReadDraft, NotSending, SendersKept
  <2> QED
    BY <1>5, <2>1 DEF ReadDraft, SendEffect, SendDrops, storeVars, mailVars
<1>6. CASE ImmediateClaim(c)
  <2>1. PICK u \in Token : /\ ClaimForImmediateSend(d, sender[c].rev, u)
                           /\ sender' = [sender EXCEPT ![c].pc = "claimed", ![c].lease = u]
    BY <1>6 DEF ImmediateClaim
  <2>2. d \in Draft /\ t = NoToken
    BY <1>1, <1>6 DEF ImmediateClaim, SenderOK
  <2>3. sender'[c].draft = d /\ SendersKept(c)
    BY <1>1, <2>1 DEF SenderState, SendersKept
  <2>4. /\ drafts[d].status = "draft" /\ drafts'[d].status = "sending" /\ OthersKept(d)
    BY <1>1, <2>1, <2>2 DEF ClaimForImmediateSend, ImmediateClaimable, OthersKept, Row
  <2> QED
    BY <1>6, <2>2, <2>3, <2>4 DEF ImmediateClaim, SendEffect, SendClaims, mailVars
<1>7. CASE ReloadClaimed(c) \/ LoadContent(c)
  <2>1. SendersKept(c) /\ sender'[c].draft = d /\ sender'[c].lease = t /\ sender[c].pc # "accepted"
    BY <1>1, <1>7 DEF ReloadClaimed, LoadContent, SenderState, SendersKept
  <2> QED
    BY <1>7, <2>1 DEF ReloadClaimed, LoadContent, SendEffect, SendStays, storeVars, mailVars
<1>8. CASE LoadFailed(c) \/ PassImmediateGate(c) \/ RefusedImmediately(c)
  <2>1. SendersKept(c) /\ sender'[c].draft = d /\ sender'[c].lease = t /\ sender[c].pc # "accepted"
    BY <1>3, <1>8 DEF LoadFailed, PassImmediateGate, RefusedImmediately
  <2> QED
    BY <1>8, <2>1 DEF LoadFailed, PassImmediateGate, RefusedImmediately, SendEffect, SendStays,
       storeVars, mailVars
<1>9. CASE TransmitNow(c) \/ TransmitNowFailed(c)
  <2>1. /\ d \in Draft /\ sender[c].pc = "sending" /\ sender[c].content \in Rev
        /\ UNCHANGED drafts
    BY <1>1, <1>9 DEF TransmitNow, TransmitNowFailed, SenderOK, storeVars
  <2>2. SendersKept(c) /\ sender'[c].draft = d /\ sender'[c].lease = t
    BY <1>3, <1>9 DEF TransmitNow, TransmitNowFailed
  <2>3. CASE UNCHANGED deliveries
    BY <2>1, <2>2, <2>3 DEF SendEffect, SendStays
  <2>4. ASSUME NEW acked \in BOOLEAN, acked => sender'[c].pc = "accepted",
               Accept(d, sender[c].content, "governor", "immediate", acked)
        PROVE  SendEffect(c)
    <3> DEFINE m == [content |-> sender[c].content, gate |-> "governor", by |-> "immediate",
                     acknowledged |-> acked]
    <3>1. m \in Delivery /\ m.by = "immediate" /\ m.acknowledged = acked
      BY <2>1 DEF Delivery
    <3>2. Delivered(d, m)
      BY <2>4 DEF Accept, Delivered
    <3> HIDE DEF m
    <3> QED
      BY <2>1, <2>2, <2>4, <3>1, <3>2 DEF SendEffect, SendSends
  <2>5. CASE TransmitNow(c)
    BY <1>3, <2>4, <2>5 DEF TransmitNow
  <2>6. CASE TransmitNowFailed(c)
    BY <2>3, <2>4, <2>6 DEF TransmitNowFailed, mailVars
  <2> QED
    BY <1>9, <2>5, <2>6
<1>10. CASE Bail(c)
  <2>1. d \in Draft /\ sender[c].pc = "bail" /\ UNCHANGED deliveries
    BY <1>1, <1>10 DEF Bail, SenderOK, mailVars
  <2>2. CASE UNCHANGED storeVars
    BY <1>2, <1>10, <2>1, <2>2 DEF Bail, SendEffect, SendDrops, storeVars
  <2>3. CASE ReleaseSending(d, t, "draft")
    <3>1. drafts'[d].status \in Editable /\ OthersKept(d)
      BY <1>1, <2>1, <2>3 DEF ReleaseSending, OthersKept, Editable, Row
    <3> QED
      BY <1>2, <1>10, <2>1, <3>1 DEF Bail, SendEffect, SendReleases
  <2> QED
    BY <1>10, <2>2, <2>3 DEF Bail
<1>11. CASE RecordSentNow(c)
  <2>1. d \in Draft /\ sender[c].pc = "accepted" /\ UNCHANGED deliveries
    BY <1>1, <1>11 DEF RecordSentNow, SenderOK, mailVars
  <2>2. SendersKept(c) /\ sender'[c].lease = NoToken
    BY <1>1, <1>2, <1>11 DEF RecordSentNow, SendersKept, SenderState
  <2>3. CASE UNCHANGED storeVars
    BY <2>1, <2>2, <2>3 DEF SendEffect, SendDrops, storeVars
  <2>4. CASE MarkSent(d, t) \/ ParkDeliveryUncertain(d, t)
    <3>1. drafts'[d].status \in Over /\ OthersKept(d)
      BY <1>1, <2>1, <2>4 DEF MarkSent, ParkDeliveryUncertain, Over, OthersKept, Row
    <3> QED
      BY <2>1, <2>2, <3>1 DEF SendEffect, SendCloses
  <2> QED
    BY <1>11, <2>3, <2>4 DEF RecordSentNow
<1> QED
  BY <1>4, <1>5, <1>6, <1>7, <1>8, <1>9, <1>10, <1>11 DEF SenderStep

\* A statement of the store on an open row.
LEMMA OpenRowWritten ==
    ASSUME drafts \in [Draft -> Row], NEW d \in Draft, UNCHANGED <<sweeper, sender, deliveries>>,
           NEW rev, NEW when, NEW uid, NEW t,
           \/ UpdateContent(d, rev) \/ ApproveRevision(d, rev)
           \/ QueueForSend(d, rev, when) \/ QueueWithHumanSend(d, rev, when)
           \/ QueueWithContextCorrection(d, rev, when)
           \/ HoldScheduled(d) \/ UpdateStatus(d, "blocked") \/ DiscardDraft(d)
           \/ RelinkUid(d, uid) \/ ClaimForSync(d, rev, t)
    PROVE  OtherEffect
<1>1. OthersKept(d)
  BY DEF OthersKept, UpdateContent, ApproveRevision, QueueForSend, QueueWithHumanSend,
         QueueWithContextCorrection, HoldScheduled, UpdateStatus, DiscardDraft, RelinkUid, ClaimForSync
<1>2. drafts[d] \in Row
  OBVIOUS
<1>3. OpenWritten(d)
  <2>1. CASE UpdateContent(d, rev) \/ ApproveRevision(d, rev) \/ ClaimForSync(d, rev, t)
    BY <1>2, <2>1 DEF UpdateContent, ApproveRevision, ClaimForSync, SyncClaimable, OpenWritten,
       Editable, Row
  <2>2. CASE QueueForSend(d, rev, when)
    BY <1>2, <2>2 DEF QueueForSend, Queueable, OpenWritten, Editable, Row
  <2>3. CASE QueueWithHumanSend(d, rev, when)
    BY <1>2, <2>3 DEF QueueWithHumanSend, Queueable, OpenWritten, Editable, Row
  <2>4. CASE QueueWithContextCorrection(d, rev, when)
    BY <1>2, <2>4 DEF QueueWithContextCorrection, OpenWritten, Editable, Row
  <2>5. CASE HoldScheduled(d) \/ UpdateStatus(d, "blocked") \/ DiscardDraft(d)
    BY <1>2, <2>5 DEF HoldScheduled, Queued, UpdateStatus, DiscardDraft, OpenWritten, Editable, Row
  <2>6. CASE RelinkUid(d, uid)
    <3>1. drafts'[d].status = drafts[d].status
      BY <1>2, <2>6 DEF RelinkUid, Row
    <3> QED
      BY <2>6, <3>1 DEF RelinkUid, OpenWritten
  <2> QED
    BY <2>1, <2>2, <2>3, <2>4, <2>5, <2>6
<1> QED
  BY <1>1, <1>3 DEF OtherEffect

LEMMA SyncHasEffect ==
    ASSUME IInv, NEW m \in Syncer, SyncerStep(m),
           UNCHANGED <<sweeper, sender, cockpitVars>>
    PROVE  OtherEffect
<1>1. /\ drafts \in [Draft -> Row]
      /\ syncer[m] \in SyncerState /\ SyncerOK(syncer[m])
      /\ syncer[m].pc # "idle" => drafts[syncer[m].draft] \in Row
  BY DEF IInv, TypeOK, DraftStoreTypeOK, SyncTypeOK, LocalsOK, SyncerOK
<1> DEFINE d == syncer[m].draft
           t == syncer[m].lease
<1>2. UNCHANGED deliveries
  BY DEF SyncerStep, ReadForModify, ReadForDiscard, FindCopy, SyncClaim, SyncClaimLost, ApplyEdit,
         ClearOldCopies, AppendReplacement, Finalize, ModifyError, SyncRelease, DeleteProviderCopy,
         DiscardLocal, LinkCopy, SyncerCrash, RemoveCopies, AppendCopy, mailVars
<1>3. CASE UNCHANGED storeVars
  BY <1>2, <1>3 DEF OtherEffect, storeVars
\* The statements under the sync lease.
<1>4. CASE ApplyEdit(m) \/ Finalize(m) \/ (SyncRelease(m) /\ ~UNCHANGED storeVars)
  <2>1. d \in Draft /\ t # NoToken /\ SyncerHolds(m, d) /\ syncer[m].prior \in Editable
    BY <1>1, <1>4 DEF ApplyEdit, Finalize, SyncRelease, SyncerOK, SyncerHolds
  <2>2. /\ drafts[d].status = "syncing" /\ OthersKept(d)
        /\ drafts'[d].status \in Editable \cup {"syncing"}
    <3>1. CASE ApplyEdit(m)
      BY <1>1, <2>1, <3>1 DEF ApplyEdit, ApplySyncedEdit, Owned, OthersKept, Row
    <3>2. CASE Finalize(m)
      BY <1>1, <2>1, <3>2 DEF Finalize, FinalizeSynced, Owned, OthersKept, Row
    <3>3. CASE SyncRelease(m) /\ ~UNCHANGED storeVars
      BY <1>1, <2>1, <3>3 DEF SyncRelease, ReleaseSyncing, Owned, OthersKept, Row
    <3> QED
      BY <1>4, <3>1, <3>2, <3>3
  <2> QED
    BY <1>2, <2>1, <2>2 DEF OtherEffect, SyncWritten
<1>5. CASE SyncClaim(m)
  <2>1. d \in Draft /\ \E rev, u : ClaimForSync(d, rev, u)
    BY <1>1, <1>5 DEF SyncClaim, SyncerOK
  <2> QED
    BY <1>1, <1>2, <2>1, OpenRowWritten
<1>6. CASE DiscardLocal(m) /\ ~UNCHANGED storeVars
  <2>1. d \in Draft /\ DiscardDraft(d)
    BY <1>1, <1>6 DEF DiscardLocal, SyncerOK
  <2> QED
    BY <1>1, <1>2, <2>1, OpenRowWritten
<1>7. CASE LinkCopy(m) /\ ~UNCHANGED storeVars
  <2>1. d \in Draft /\ \E uid : RelinkUid(d, uid)
    BY <1>1, <1>7 DEF LinkCopy, SyncerOK
  <2> QED
    BY <1>1, <1>2, <2>1, OpenRowWritten
<1> QED
  BY <1>3, <1>4, <1>5, <1>6, <1>7 DEF SyncerStep, ReadForModify, ReadForDiscard, FindCopy,
     SyncClaimLost, ClearOldCopies, AppendReplacement, ModifyError, DeleteProviderCopy, SyncerCrash

LEMMA DecisionHasEffect ==
    ASSUME IInv, NEW d \in Draft, HumanStep(d) \/ AgentStep(d),
           UNCHANGED <<sweeper, sender, syncer>>
    PROVE  OtherEffect
<1>1. drafts \in [Draft -> Row]
  BY DEF IInv, TypeOK, DraftStoreTypeOK
<1>2. UNCHANGED deliveries
  BY DEF HumanStep, AgentStep, View, Approve, HumanSend, Edit, Hold, Block, Discard, RetryWithContext,
         Precheck, AgentQueue, mailVars
<1>3. CASE View(d) \/ Precheck(d)
  BY <1>2, <1>3 DEF View, Precheck, OtherEffect, storeVars
<1>4. CASE Approve(d) \/ Edit(d)
  BY <1>1, <1>2, <1>4, OpenRowWritten DEF Approve, Edit
<1>5. CASE (\E when \in {"later", "due"} : HumanSend(d, when)) \/ AgentQueue(d) \/ RetryWithContext(d)
  BY <1>1, <1>2, <1>5, OpenRowWritten DEF HumanSend, AgentQueue, RetryWithContext
<1>6. CASE Hold(d) \/ Block(d) \/ Discard(d)
  BY <1>1, <1>2, <1>6, OpenRowWritten DEF Hold, Block, Discard
<1> QED
  BY <1>3, <1>4, <1>5, <1>6 DEF HumanStep, AgentStep

\* Every step is a sweep's, an immediate send's, or has no part in sending.
LEMMA StepHasEffect ==
    ASSUME IInv, [Next]_vars
    PROVE  \/ \E s \in Sweeper : SweepEffect(s)
           \/ \E c \in Sender : SendEffect(c)
           \/ OtherEffect
<1>1. CASE Sweeping
  BY <1>1, SweepHasEffect DEF Sweeping
<1>2. CASE SendingNow
  BY <1>2, SendHasEffect DEF SendingNow
<1>3. CASE Syncing
  BY <1>3, SyncHasEffect DEF Syncing
<1>4. CASE Deciding
  BY <1>4, DecisionHasEffect, AttendedAssumption, DelegatedAssumption DEF Deciding
<1>5. CASE Clock
  <2>1. PICK d \in Draft : BecomeDue(d)
    BY <1>5 DEF Clock
  <2>2. OthersKept(d)
    BY <2>1 DEF BecomeDue, OthersKept, IInv, TypeOK, DraftStoreTypeOK
  <2> QED
    BY <1>5, <2>1, <2>2 DEF Clock, OtherEffect, FellDue, mailVars
<1>6. CASE UNCHANGED vars
  BY <1>6 DEF vars, storeVars, mailVars, OtherEffect
<1> QED
  BY <1>1, <1>2, <1>3, <1>4, <1>5, <1>6 DEF Next

-----------------------------------------------------------------------------
(* Messages.                                                               *)

\* Whether d has a message that no sender may follow with another.
Settling(d) == \E i \in DOMAIN deliveries[d] : ~Unconfirmed(deliveries[d][i])

Received(d) == [i \in DOMAIN deliveries[d] |-> ~Unconfirmed(deliveries[d][i])]

LEMMA MessageAdded ==
    ASSUME deliveries \in [Draft -> Seq(Delivery)], NEW d \in Draft, NEW m \in Delivery,
           Delivered(d, m)
    PROVE  /\ \A e \in Draft \ {d} : deliveries'[e] = deliveries[e]
           /\ DOMAIN deliveries[d] = 1 .. Len(deliveries[d])
           /\ Len(deliveries[d]) \in Nat
           /\ Len(deliveries'[d]) = Len(deliveries[d]) + 1
           /\ DOMAIN deliveries'[d] = 1 .. Len(deliveries[d]) + 1
           /\ \A i \in 1 .. Len(deliveries[d]) : deliveries'[d][i] = deliveries[d][i]
           /\ deliveries'[d][Len(deliveries[d]) + 1] = m
<1> DEFINE q == deliveries[d]
           q1 == deliveries'[d]
<1>1. q \in Seq(Delivery)
  OBVIOUS
<1>2. q1 = Append(q, m) /\ \A e \in Draft \ {d} : deliveries'[e] = deliveries[e]
  BY DEF Delivered
<1>3. /\ q1 \in Seq(Delivery) /\ Len(q1) = Len(q) + 1
      /\ \A i \in 1 .. Len(q) : q1[i] = q[i]
      /\ q1[Len(q) + 1] = m
  BY <1>1, <1>2, AppendProperties
<1> HIDE DEF q, q1
<1>4. Len(q) \in Nat /\ DOMAIN q = 1 .. Len(q) /\ DOMAIN q1 = 1 .. Len(q) + 1
  BY <1>1, <1>3
<1> QED
  BY <1>2, <1>3, <1>4 DEF q, q1

LEMMA SettlingAfter ==
    ASSUME deliveries \in [Draft -> Seq(Delivery)], NEW d \in Draft, NEW m \in Delivery,
           Delivered(d, m)
    PROVE  /\ \A e \in Draft \ {d} : Settling(e)' <=> Settling(e)
           /\ Settling(d)' <=> Settling(d) \/ ~Unconfirmed(m)
<1>1. \A e \in Draft \ {d} : Settling(e)' <=> Settling(e)
  BY MessageAdded DEF Settling, Unconfirmed
<1> DEFINE n == Len(deliveries[d])
<1>2. /\ n \in Nat /\ DOMAIN deliveries[d] = 1 .. n /\ DOMAIN deliveries'[d] = 1 .. n + 1
      /\ \A i \in 1 .. n : deliveries'[d][i] = deliveries[d][i]
      /\ deliveries'[d][n + 1] = m
  BY MessageAdded
<1>3. (\E i \in 1 .. n + 1 : ~Unconfirmed(deliveries'[d][i]))
        <=> (\E i \in 1 .. n : ~Unconfirmed(deliveries[d][i])) \/ ~Unconfirmed(m)
  BY <1>2 DEF Unconfirmed
<1>4. Settling(d)' <=> (\E i \in 1 .. n + 1 : ~Unconfirmed(deliveries'[d][i]))
  BY <1>2 DEF Settling, Unconfirmed
<1> QED
  BY <1>1, <1>2, <1>3, <1>4 DEF Settling

LEMMA StillNoDuplicate ==
    ASSUME deliveries \in [Draft -> Seq(Delivery)], NEW d \in Draft, NEW m \in Delivery,
           Delivered(d, m), NoOtherDuplicate, ~Settling(d)
    PROVE  NoOtherDuplicate'
<1>1. SUFFICES ASSUME NEW e \in Draft, NEW i \in DOMAIN deliveries'[e],
                      i < Len(deliveries'[e])
               PROVE  Unconfirmed(deliveries'[e][i])
  BY DEF NoOtherDuplicate, Unconfirmed
<1>2. CASE e # d
  BY <1>1, <1>2, MessageAdded DEF NoOtherDuplicate
<1>3. CASE e = d
  <2>1. i \in 1 .. Len(deliveries[d]) /\ deliveries'[d][i] = deliveries[d][i]
    BY <1>1, <1>3, MessageAdded
  <2> QED
    BY <1>3, <2>1, MessageAdded DEF Settling
<1> QED
  BY <1>2, <1>3

LEMMA TableIsSeq ==
    ASSUME NEW S, NEW n \in Nat, NEW f \in [1 .. n -> S]
    PROVE  f \in Seq(S) /\ Len(f) = n
OBVIOUS

\* In the abstraction, one message is received.
LEMMA ReceivedAfter ==
    ASSUME deliveries \in [Draft -> Seq(Delivery)], NEW d \in Draft, NEW m \in Delivery,
           Delivered(d, m)
    PROVE  [e \in Draft |-> Received(e)]'
             = [[e \in Draft |-> Received(e)] EXCEPT ![d] = Append(@, ~Unconfirmed(m))]
<1> DEFINE n == Len(deliveries[d])
           before == Received(d)
           after == [i \in DOMAIN deliveries'[d] |-> ~Unconfirmed(deliveries'[d][i])]
<1>1. /\ n \in Nat /\ DOMAIN deliveries[d] = 1 .. n /\ DOMAIN deliveries'[d] = 1 .. n + 1
      /\ \A i \in 1 .. n : deliveries'[d][i] = deliveries[d][i]
      /\ deliveries'[d][n + 1] = m
  BY MessageAdded
<1>2. \A x : (~Unconfirmed(x)) \in BOOLEAN
  BY DEF Unconfirmed
<1>3. before \in [1 .. n -> BOOLEAN] /\ after \in [1 .. n + 1 -> BOOLEAN]
  BY <1>1, <1>2 DEF Received
<1>4. before \in Seq(BOOLEAN) /\ Len(before) = n /\ after \in Seq(BOOLEAN) /\ Len(after) = n + 1
  <2> HIDE DEF before, after, n
  <2>1. n + 1 \in Nat
    BY <1>1
  <2> QED
    BY <1>1, <1>3, <2>1, TableIsSeq
<1> DEFINE b == ~Unconfirmed(m)
<1>5. b \in BOOLEAN
  BY <1>2
<1>6. /\ Append(before, b) \in Seq(BOOLEAN) /\ Len(Append(before, b)) = n + 1
      /\ \A i \in 1 .. n : Append(before, b)[i] = before[i]
      /\ Append(before, b)[n + 1] = b
  BY <1>4, <1>5, AppendProperties
<1>7. \A i \in 1 .. n : after[i] = before[i]
  BY <1>1 DEF Received
<1>8. after[n + 1] = b
  BY <1>1
<1> HIDE DEF before, after, b, n
<1>9. \A i \in 1 .. n + 1 : after[i] = Append(before, b)[i]
  BY <1>1, <1>6, <1>7, <1>8
<1>10. after = Append(before, b)
  BY <1>1, <1>4, <1>6, <1>9, SeqEqual
<1>11. Received(d)' = Append(Received(d), b)
  BY <1>10 DEF before, after, Received, Unconfirmed
<1>12. ASSUME NEW e \in Draft
       PROVE  Received(e)' = IF e = d THEN Append(Received(e), b) ELSE Received(e)
  <2>1. CASE e = d
    BY <1>11, <2>1
  <2>2. CASE e # d
    BY <2>2, MessageAdded DEF Received, Unconfirmed
  <2> QED
    BY <2>1, <2>2
<1>13. [e \in Draft |-> Received(e)']
          = [e \in Draft |-> IF e = d THEN Append(Received(e), b) ELSE Received(e)]
  BY <1>12
<1>14. [e \in Draft |-> IF e = d THEN Append(Received(e), b) ELSE Received(e)]
          = [[e \in Draft |-> Received(e)] EXCEPT ![d] = Append(@, b)]
  BY Zenon
<1> QED
  BY <1>13, <1>14 DEF b

-----------------------------------------------------------------------------
(* The invariants.                                                         *)

\* What is settled stays claimed until it is closed, and its holder is past the
\* transmission.
SettledInv ==
    /\ \A d \in Draft :
          Settling(d) => drafts[d].status \in {"sending", "discarded"} \cup Over
    /\ \A s \in Sweeper, d \in Draft :
          SweepHolds(s, d) /\ Settling(d) => sweeper[s].pc \in {"accepted", "uncertain"}
    /\ \A c \in Sender, d \in Draft :
          SenderHolds(c, d) /\ Settling(d) => sender[c].pc = "accepted"
    /\ NoOtherDuplicate

\* The clock, the one writer that minds no claim, finds nothing to do on the row
\* of a sweep: its draft was due when it was claimed.
FrozenInv ==
    /\ \A s \in Sweeper, d \in Draft : SweepHolds(s, d) => drafts[d].sendAfter = "due"
    /\ ClaimFreezesRow

Kept(d) == drafts'[d] = drafts[d] /\ deliveries'[d] = deliveries[d]

LEMMA SweepTouches ==
    ASSUME IInv, NEW s \in Sweeper, SweepEffect(s), NEW d \in Draft
    PROVE  Kept(d) \/ SweepHolds(s, d) \/ (drafts[d].status = "draft" /\ UNCHANGED deliveries)
<1>1. SweeperOK(sweeper[s])
  BY DEF IInv, LocalsOK
<1>2. CASE SweepStays(s) \/ SweepDrops(s) \/ \E e \in Draft : SweepClaims(s, e)
  BY <1>2 DEF SweepStays, SweepDrops, SweepClaims, OthersKept, Kept
<1>3. CASE SweepSends(s) \/ SweepReleases(s) \/ SweepCloses(s)
  <2>1. sweeper[s].lease # NoToken /\ sweeper[s].draft \in Draft
    BY <1>1, <1>3 DEF SweepSends, SweepReleases, SweepCloses, SweeperOK
  <2>2. d # sweeper[s].draft => Kept(d)
    BY <1>3, <2>1, MessageAdded DEF SweepSends, SweepReleases, SweepCloses, OthersKept, Kept,
       IInv, TypeOK, MailServerTypeOK
  <2> QED
    BY <2>1, <2>2 DEF SweepHolds
<1> QED
  BY <1>2, <1>3 DEF SweepEffect

LEMMA SendTouches ==
    ASSUME IInv, NEW c \in Sender, SendEffect(c), NEW d \in Draft
    PROVE  Kept(d) \/ SenderHolds(c, d) \/ (drafts[d].status = "draft" /\ UNCHANGED deliveries)
<1>1. SenderOK(sender[c])
  BY DEF IInv, LocalsOK
<1>2. CASE SendStays(c) \/ SendDrops(c) \/ \E e \in Draft : SendClaims(c, e)
  BY <1>2 DEF SendStays, SendDrops, SendClaims, OthersKept, Kept
<1>3. CASE SendSends(c) \/ SendReleases(c) \/ SendCloses(c)
  <2>1. sender[c].lease # NoToken /\ sender[c].draft \in Draft
    BY <1>1, <1>3 DEF SendSends, SendReleases, SendCloses, SenderOK
  <2>2. d # sender[c].draft => Kept(d)
    BY <1>3, <2>1, MessageAdded DEF SendSends, SendReleases, SendCloses, OthersKept, Kept,
       IInv, TypeOK, MailServerTypeOK
  <2> QED
    BY <2>1, <2>2 DEF SenderHolds
<1> QED
  BY <1>2, <1>3 DEF SendEffect

\* A lease stands for a row in `sending`, which nobody else holds.
LEMMA SweepHolding ==
    ASSUME IInv, NEW s \in Sweeper, sweeper[s].lease # NoToken
    PROVE  LET d == sweeper[s].draft
           IN  /\ d \in Draft /\ SweepHolds(s, d) /\ drafts[d].status = "sending"
               /\ \A o \in Sweeper \ {s} : ~SweepHolds(o, d)
               /\ \A c \in Sender : ~SenderHolds(c, d)
<1>1. sweeper[s].draft \in Draft
  BY DEF IInv, LocalsOK, SweeperOK
<1> QED
  BY <1>1 DEF IInv, ClaimsExclude, LeasesAreOwned, Owned, SweepHolds

LEMMA SenderHolding ==
    ASSUME IInv, NEW c \in Sender, sender[c].lease # NoToken
    PROVE  LET d == sender[c].draft
           IN  /\ d \in Draft /\ SenderHolds(c, d) /\ drafts[d].status = "sending"
               /\ \A s \in Sweeper : ~SweepHolds(s, d)
               /\ \A o \in Sender \ {c} : ~SenderHolds(o, d)
<1>1. sender[c].draft \in Draft
  BY DEF IInv, LocalsOK, SenderOK
<1> QED
  BY <1>1 DEF IInv, ClaimsExclude, LeasesAreOwned, Owned, SenderHolds

LEMMA HeldIsSending ==
    ASSUME IInv, NEW d \in Draft,
           (\E s \in Sweeper : SweepHolds(s, d)) \/ (\E c \in Sender : SenderHolds(c, d))
    PROVE  drafts[d].status = "sending" /\ \A m \in Syncer : ~SyncerHolds(m, d)
BY DEF IInv, ClaimsExclude, LeasesAreOwned, Owned

LEMMA SameMessages ==
    ASSUME UNCHANGED deliveries
    PROVE  (\A d : Settling(d)' <=> Settling(d)) /\ (NoOtherDuplicate' <=> NoOtherDuplicate)
BY DEF Settling, Unconfirmed, NoOtherDuplicate

LEMMA SweepSettled ==
    ASSUME IInv, IInv', SettledInv, NEW s \in Sweeper, SweepEffect(s)
    PROVE  SettledInv'
<1> DEFINE h == sweeper[s].draft
<1>1. SweeperOK(sweeper[s]) /\ deliveries \in [Draft -> Seq(Delivery)]
  BY DEF IInv, LocalsOK, TypeOK, MailServerTypeOK
<1>2. \A c \in Sender, d \in Draft : SenderHolds(c, d)' <=> SenderHolds(c, d)
  BY DEF SweepEffect, SenderHolds
<1>3. \A o \in Sweeper \ {s}, d \in Draft :
         (SweepHolds(o, d)' <=> SweepHolds(o, d)) /\ sweeper'[o].pc = sweeper[o].pc
  BY DEF SweepEffect, SweepersKept, SweepHolds
<1>4. UNCHANGED sender
  BY DEF SweepEffect
<1>5. CASE SweepStays(s) \/ SweepDrops(s)
  <2>1. UNCHANGED <<drafts, deliveries>>
    BY <1>5 DEF SweepStays, SweepDrops
  <2>2. \A d \in Draft : SweepHolds(s, d)' => ~Settling(d)
    BY <1>5 DEF SweepStays, SweepDrops, SweepHolds, SettledInv
  <2> QED
    BY <1>2, <1>3, <1>4, <2>1, <2>2, SameMessages DEF SettledInv
<1>6. ASSUME NEW e \in Draft, SweepClaims(s, e)
      PROVE  SettledInv'
  <2>1. UNCHANGED deliveries /\ ~Settling(e) /\ OthersKept(e)
    BY <1>6 DEF SweepClaims, SettledInv, Over
  <2>2. \A d \in Draft : SweepHolds(s, d)' => d = e
    BY <1>6 DEF SweepClaims, SweepHolds
  <2> QED
    BY <1>2, <1>3, <1>4, <2>1, <2>2, SameMessages DEF SettledInv, OthersKept
<1>7. CASE SweepSends(s)
  <2>1. sweeper[s].lease # NoToken
    BY <1>1, <1>7 DEF SweepSends, SweeperOK
  <2>2. PICK m \in Delivery : Delivered(h, m)
    BY <1>7 DEF SweepSends
  <2>3. ~Settling(h)
    BY <1>7, <2>1, SweepHolding DEF SweepSends, SettledInv
  <2>4. \A d \in Draft \ {h} : Settling(d)' <=> Settling(d)
    BY <1>1, <2>1, <2>2, SettlingAfter, SweepHolding
  <2>5. NoOtherDuplicate'
    BY <1>1, <2>1, <2>2, <2>3, StillNoDuplicate, SweepHolding DEF SettledInv
  <2>6. UNCHANGED drafts /\ drafts[h].status = "sending"
    BY <1>7, <2>1, SweepHolding DEF SweepSends
  <2>7. \A d \in Draft : /\ SweepHolds(s, d)' <=> SweepHolds(s, d)
                         /\ SweepHolds(s, d)' => d = h
    BY <1>7 DEF SweepSends, SweepHolds
  <2>8. \A o \in Sweeper \ {s} : ~SweepHolds(o, h)
    BY <2>1, SweepHolding
  <2>9. \A c \in Sender : ~SenderHolds(c, h)
    BY <2>1, SweepHolding
  <2>10. sweeper'[s].pc \in {"accepted", "uncertain"}
    BY <1>7 DEF SweepSends
  <2> QED
    BY <1>2, <1>3, <1>4, <2>4, <2>5, <2>6, <2>7, <2>8, <2>9, <2>10 DEF SettledInv
<1>8. CASE SweepReleases(s) \/ SweepCloses(s)
  <2>1. sweeper[s].lease # NoToken
    BY <1>1, <1>8 DEF SweepReleases, SweepCloses, SweeperOK
  <2>2. UNCHANGED deliveries /\ OthersKept(h)
    BY <1>8 DEF SweepReleases, SweepCloses
  <2>3. drafts'[h].status \in Over \/ ~Settling(h)
    BY <1>8, <2>1, SweepHolding DEF SweepReleases, SweepCloses, SettledInv
  <2>4. \A d \in Draft : ~SweepHolds(s, d)'
    BY <1>8 DEF SweepReleases, SweepCloses, SweepHolds
  <2>5. h \in Draft
    BY <2>1, SweepHolding
  <2> QED
    BY <1>2, <1>3, <1>4, <2>2, <2>3, <2>4, <2>5, SameMessages DEF SettledInv, OthersKept
<1> QED
  BY <1>5, <1>6, <1>7, <1>8 DEF SweepEffect

LEMMA SendSettled ==
    ASSUME IInv, IInv', SettledInv, NEW c \in Sender, SendEffect(c)
    PROVE  SettledInv'
<1> DEFINE h == sender[c].draft
<1>1. SenderOK(sender[c]) /\ deliveries \in [Draft -> Seq(Delivery)]
  BY DEF IInv, LocalsOK, TypeOK, MailServerTypeOK
<1>2. \A s \in Sweeper, d \in Draft : SweepHolds(s, d)' <=> SweepHolds(s, d)
  BY DEF SendEffect, SweepHolds
<1>3. \A o \in Sender \ {c}, d \in Draft :
         (SenderHolds(o, d)' <=> SenderHolds(o, d)) /\ sender'[o].pc = sender[o].pc
  BY DEF SendEffect, SendersKept, SenderHolds
<1>4. UNCHANGED sweeper
  BY DEF SendEffect
<1>5. CASE SendStays(c) \/ SendDrops(c)
  <2>1. UNCHANGED <<drafts, deliveries>>
    BY <1>5 DEF SendStays, SendDrops
  <2>2. \A d \in Draft : SenderHolds(c, d)' => ~Settling(d)
    BY <1>5 DEF SendStays, SendDrops, SenderHolds, SettledInv
  <2> QED
    BY <1>2, <1>3, <1>4, <2>1, <2>2, SameMessages DEF SettledInv
<1>6. ASSUME NEW e \in Draft, SendClaims(c, e)
      PROVE  SettledInv'
  <2>1. UNCHANGED deliveries /\ ~Settling(e) /\ OthersKept(e)
    BY <1>6 DEF SendClaims, SettledInv, Over
  <2>2. \A d \in Draft : SenderHolds(c, d)' => d = e
    BY <1>6 DEF SendClaims, SenderHolds
  <2> QED
    BY <1>2, <1>3, <1>4, <2>1, <2>2, SameMessages DEF SettledInv, OthersKept
<1>7. CASE SendSends(c)
  <2>1. sender[c].lease # NoToken
    BY <1>1, <1>7 DEF SendSends, SenderOK
  <2>2. PICK m \in Delivery : /\ m.by = "immediate" /\ Delivered(h, m)
                              /\ m.acknowledged => sender'[c].pc = "accepted"
    BY <1>7 DEF SendSends
  <2>3. ~Settling(h)
    BY <1>7, <2>1, SenderHolding DEF SendSends, SettledInv
  <2>4. \A d \in Draft \ {h} : Settling(d)' <=> Settling(d)
    BY <1>1, <2>1, <2>2, SettlingAfter, SenderHolding
  <2>5. NoOtherDuplicate'
    BY <1>1, <2>1, <2>2, <2>3, StillNoDuplicate, SenderHolding DEF SettledInv
  <2>6. UNCHANGED drafts /\ drafts[h].status = "sending"
    BY <1>7, <2>1, SenderHolding DEF SendSends
  <2>7. \A d \in Draft : /\ SenderHolds(c, d)' <=> SenderHolds(c, d)
                         /\ SenderHolds(c, d)' => d = h
    BY <1>7 DEF SendSends, SenderHolds
  <2>8. \A o \in Sender \ {c} : ~SenderHolds(o, h)
    BY <2>1, SenderHolding
  <2>9. \A s \in Sweeper : ~SweepHolds(s, h)
    BY <2>1, SenderHolding
  <2>10. PICK e \in Draft : e = h
    BY <2>1, SenderHolding
  <2>11. Settling(e)' => sender'[c].pc = "accepted"
    <3>1. Settling(e)' <=> ~Unconfirmed(m)
      BY <1>1, <2>2, <2>3, <2>10, SettlingAfter
    <3> QED
      BY <2>2, <3>1 DEF Unconfirmed
  <2> QED
    BY <1>2, <1>3, <1>4, <2>4, <2>5, <2>6, <2>7, <2>8, <2>9, <2>10, <2>11 DEF SettledInv
<1>8. CASE SendReleases(c) \/ SendCloses(c)
  <2>1. sender[c].lease # NoToken
    BY <1>1, <1>8 DEF SendReleases, SendCloses, SenderOK
  <2>2. UNCHANGED deliveries /\ OthersKept(h)
    BY <1>8 DEF SendReleases, SendCloses
  <2>3. drafts'[h].status \in Over \/ ~Settling(h)
    BY <1>8, <2>1, SenderHolding DEF SendReleases, SendCloses, SettledInv
  <2>4. \A d \in Draft : ~SenderHolds(c, d)'
    BY <1>8 DEF SendReleases, SendCloses, SenderHolds
  <2>5. h \in Draft
    BY <2>1, SenderHolding
  <2> QED
    BY <1>2, <1>3, <1>4, <2>2, <2>3, <2>4, <2>5, SameMessages DEF SettledInv, OthersKept
<1> QED
  BY <1>5, <1>6, <1>7, <1>8 DEF SendEffect

LEMMA OtherSettled ==
    ASSUME IInv, SettledInv, OtherEffect
    PROVE  SettledInv'
<1>1. UNCHANGED <<sweeper, sender, deliveries>>
  BY DEF OtherEffect
<1>2. ASSUME NEW d \in Draft, OpenWritten(d) \/ SyncWritten(d) \/ FellDue(d)
      PROVE  \/ drafts'[d].status = drafts[d].status
             \/ ~Settling(d)
             \/ drafts'[d].status = "discarded"
  <2>1. CASE OpenWritten(d) \/ SyncWritten(d)
    BY <2>1 DEF OpenWritten, SyncWritten, SettledInv, Over, Editable
  <2>2. CASE FellDue(d)
    BY <2>2 DEF FellDue, BecomeDue, IInv, TypeOK, DraftStoreTypeOK, Row
  <2> QED
    BY <1>2, <2>1, <2>2
<1>3. \A d \in Draft : \/ drafts'[d].status = drafts[d].status
                       \/ ~Settling(d)
                       \/ drafts'[d].status = "discarded"
  BY <1>2 DEF OtherEffect, OthersKept
<1>4. /\ \A s \in Sweeper, d \in Draft : SweepHolds(s, d)' <=> SweepHolds(s, d)
      /\ \A c \in Sender, d \in Draft : SenderHolds(c, d)' <=> SenderHolds(c, d)
  BY <1>1 DEF SweepHolds, SenderHolds
<1> QED
  BY <1>1, <1>3, <1>4, SameMessages DEF SettledInv

LEMMA SettledKept ==
    ASSUME IInv, IInv', SettledInv, [Next]_vars
    PROVE  SettledInv'
BY StepHasEffect, SweepSettled, SendSettled, OtherSettled

-----------------------------------------------------------------------------
(* The row a sweep holds.                                                  *)

LEMMA OtherTouches ==
    ASSUME IInv, OtherEffect, NEW d \in Draft
    PROVE  \/ Kept(d)
           \/ FellDue(d) /\ deliveries'[d] = deliveries[d]
           \/ drafts[d].status # "sending" /\ \/ drafts[d].status # "syncing"
                                              \/ \E m \in Syncer : SyncerHolds(m, d)
BY DEF OtherEffect, OthersKept, OpenWritten, SyncWritten, Kept, Editable, Discardable

\* A row held by a process that does not move is not written, except by the clock.
LEMMA HeldRowKept ==
    ASSUME IInv, [Next]_vars, NEW s \in Sweeper, NEW d \in Draft, SweepHolds(s, d)
    PROVE  Kept(d) \/ FellDue(d) \/ SweepEffect(s)
<1>1. drafts[d].status = "sending"
  BY HeldIsSending
<1>2. ASSUME NEW o \in Sweeper \ {s}, SweepEffect(o)
      PROVE  Kept(d)
  <2>1. ~SweepHolds(o, d)
    BY DEF IInv, ClaimsExclude
  <2> QED
    BY <1>1, <1>2, <2>1, SweepTouches
<1>3. ASSUME NEW c \in Sender, SendEffect(c)
      PROVE  Kept(d)
  <2>1. ~SenderHolds(c, d)
    BY DEF IInv, ClaimsExclude
  <2> QED
    BY <1>1, <1>3, <2>1, SendTouches
<1>4. CASE OtherEffect
  BY <1>1, <1>4, OtherTouches
<1> QED
  BY <1>2, <1>3, <1>4, StepHasEffect

LEMMA FrozenKept ==
    ASSUME IInv, IInv', FrozenInv, [Next]_vars
    PROVE  FrozenInv'
<1>1. ASSUME NEW s \in Sweeper, SweepEffect(s)
      PROVE  /\ \A d \in Draft : SweepHolds(s, d)' => drafts'[d].sendAfter = "due"
             /\ sweeper'[s].pc \in {"loaded", "sending", "accepted", "uncertain"}
                   => drafts'[sweeper'[s].draft] = sweeper'[s].snap
  <2>1. SweeperOK(sweeper[s]) /\ SweeperOK(sweeper'[s])
    BY DEF IInv, LocalsOK
  <2>2. CASE sweeper'[s].lease = NoToken
    BY <2>1, <2>2 DEF SweepHolds, SweeperOK
  <2>3. CASE SweepStays(s) /\ sweeper'[s].lease # NoToken
    <3>1. sweeper[s].lease # NoToken /\ UNCHANGED drafts /\ sweeper'[s].draft = sweeper[s].draft
      BY <2>3 DEF SweepStays
    <3>2. \A d \in Draft : SweepHolds(s, d)' => drafts'[d].sendAfter = "due"
      BY <2>3, <3>1 DEF SweepHolds, FrozenInv
    <3>3. drafts'[sweeper'[s].draft] = sweeper'[s].snap
      BY <2>3, <3>1 DEF SweepStays, FrozenInv, ClaimFreezesRow
    <3> QED
      BY <3>2, <3>3
  <2>4. ASSUME NEW e \in Draft, SweepClaims(s, e)
        PROVE  /\ \A d \in Draft : SweepHolds(s, d)' => drafts'[d].sendAfter = "due"
               /\ sweeper'[s].pc \notin {"loaded", "sending", "accepted", "uncertain"}
    BY <2>4 DEF SweepClaims, SweepHolds
  <2>5. CASE SweepSends(s)
    <3>1. sweeper[s].lease # NoToken /\ UNCHANGED drafts
      BY <2>1, <2>5 DEF SweepSends, SweeperOK
    <3>2. \A d \in Draft : SweepHolds(s, d)' => drafts'[d].sendAfter = "due"
      BY <2>5, <3>1 DEF SweepSends, SweepHolds, FrozenInv
    <3>3. drafts'[sweeper'[s].draft] = sweeper'[s].snap
      BY <2>5, <3>1 DEF SweepSends, FrozenInv, ClaimFreezesRow
    <3> QED
      BY <3>2, <3>3
  <2> QED
    BY <1>1, <2>2, <2>3, <2>4, <2>5 DEF SweepEffect, SweepDrops, SweepReleases, SweepCloses
<1>2. ASSUME NEW s \in Sweeper, sweeper'[s] = sweeper[s], ~SweepEffect(s)
      PROVE  /\ \A d \in Draft : SweepHolds(s, d)' => drafts'[d].sendAfter = "due"
             /\ sweeper'[s].pc \in {"loaded", "sending", "accepted", "uncertain"}
                   => drafts'[sweeper'[s].draft] = sweeper'[s].snap
  <2>1. ASSUME NEW d \in Draft, SweepHolds(s, d)
        PROVE  drafts'[d] = drafts[d]
    <3>1. drafts[d].sendAfter = "due"
      BY <2>1 DEF FrozenInv
    <3>2. ~FellDue(d)
      BY <3>1 DEF FellDue, BecomeDue
    <3> QED
      BY <1>2, <2>1, <3>2, HeldRowKept DEF Kept
  <2>2. SweeperOK(sweeper[s])
    BY DEF IInv, LocalsOK
  <2>3. \A d \in Draft : SweepHolds(s, d)' => drafts'[d].sendAfter = "due"
    BY <1>2, <2>1 DEF SweepHolds, FrozenInv
  <2>4. CASE sweeper[s].pc \in {"loaded", "sending", "accepted", "uncertain"}
    <3>1. sweeper[s].draft \in Draft /\ SweepHolds(s, sweeper[s].draft)
      BY <2>2, <2>4 DEF SweeperOK, SweepHolds
    <3> QED
      BY <1>2, <2>1, <2>3, <2>4, <3>1 DEF FrozenInv, ClaimFreezesRow
  <2> QED
    BY <1>2, <2>3, <2>4
<1>3. \A s \in Sweeper : SweepEffect(s) \/ sweeper'[s] = sweeper[s]
  BY StepHasEffect DEF SweepEffect, SweepersKept, SendEffect, OtherEffect
<1> QED
  BY <1>1, <1>2, <1>3 DEF FrozenInv, ClaimFreezesRow

-----------------------------------------------------------------------------
(* What a step may do.                                                     *)

\* A claim that nobody holds.
LEMMA OrphanKept ==
    ASSUME IInv, [Next]_vars, NEW d \in Draft, Orphaned(d)
    PROVE  /\ drafts'[d] \in {drafts[d], [drafts[d] EXCEPT !.sendAfter = "due"]}
           /\ deliveries'[d] = deliveries[d]
<1>1. Kept(d) \/ (FellDue(d) /\ deliveries'[d] = deliveries[d])
  <2>1. \A s \in Sweeper : SweepEffect(s) => Kept(d)
    BY SweepTouches DEF Orphaned
  <2>2. \A c \in Sender : SendEffect(c) => Kept(d)
    BY SendTouches DEF Orphaned
  <2>3. OtherEffect => Kept(d) \/ (FellDue(d) /\ deliveries'[d] = deliveries[d])
    BY OtherTouches DEF Orphaned
  <2> QED
    BY <2>1, <2>2, <2>3, StepHasEffect
<1>2. FellDue(d) => drafts'[d] = [drafts[d] EXCEPT !.sendAfter = "due"]
  BY DEF FellDue, BecomeDue, IInv, TypeOK, DraftStoreTypeOK
<1> QED
  BY <1>1, <1>2 DEF Kept

\* A closed row.
LEMMA ClosedKept ==
    ASSUME IInv, [Next]_vars, NEW d \in Draft
    PROVE  /\ drafts[d].status \in {"sent", "discarded"} => drafts'[d].status = drafts[d].status
           /\ drafts[d].status = "delivery_uncertain" =>
                 drafts'[d].status \in {"delivery_uncertain", "discarded"}
<1> SUFFICES ASSUME drafts[d].status \in {"sent", "discarded", "delivery_uncertain"}
             PROVE  \/ drafts'[d].status = drafts[d].status
                    \/ drafts[d].status = "delivery_uncertain" /\ drafts'[d].status = "discarded"
  OBVIOUS
<1>1. /\ \A s \in Sweeper : SweepEffect(s) => Kept(d)
      /\ \A c \in Sender : SendEffect(c) => Kept(d)
  BY SweepTouches, SendTouches, HeldIsSending
<1>2. FellDue(d) => drafts'[d].status = drafts[d].status
  BY DEF FellDue, BecomeDue, IInv, TypeOK, DraftStoreTypeOK, Row
<1>3. OpenWritten(d) => drafts[d].status = "delivery_uncertain" /\ drafts'[d].status = "discarded"
  BY DEF OpenWritten, Discardable, Editable
<1>4. ~SyncWritten(d)
  BY DEF SyncWritten
<1> QED
  BY <1>1, <1>2, <1>3, <1>4, StepHasEffect DEF OtherEffect, OthersKept, Kept

-----------------------------------------------------------------------------
(* The abstract promise.                                                   *)

PromisedStep == [Promised!Next]_(Promised!vars)

Phases == [d \in Draft |-> Phase(drafts[d].status)]
Inbox == [d \in Draft |-> Received(d)]

\* The abstract state, by name.
LEMMA Abstraction ==
    /\ Promised!vars = <<Phases, Inbox>>
    /\ \A d \in Draft : Promised!Settled(d) <=> Settling(d)
BY DEF Promised!vars, Promised!Settled, Phases, Inbox, Received, Settling

LEMMA PhaseSet ==
    ASSUME NEW d \in Draft, OthersKept(d), NEW to, Phase(drafts'[d].status) = to
    PROVE  Phases' = [Phases EXCEPT ![d] = to]
<1>1. \A e \in Draft : Phase(drafts'[e].status) = IF e = d THEN to ELSE Phase(drafts[e].status)
  BY DEF OthersKept
<1>2. [e \in Draft |-> Phase(drafts'[e].status)]
         = [e \in Draft |-> IF e = d THEN to ELSE Phase(drafts[e].status)]
  BY <1>1
<1>3. Phases' = [e \in Draft |-> Phase(drafts'[e].status)]
  BY DEF Phases, Phase
<1> QED
  BY <1>2, <1>3 DEF Phases

LEMMA PhaseKept ==
    ASSUME \A d \in Draft : Phase(drafts'[d].status) = Phase(drafts[d].status)
    PROVE  UNCHANGED Phases
BY DEF Phases, Phase

LEMMA InboxKept ==
    ASSUME UNCHANGED deliveries
    PROVE  UNCHANGED Inbox
BY DEF Inbox, Received, Unconfirmed

LEMMA AbstractlyNothing ==
    ASSUME UNCHANGED <<Phases, Inbox>>
    PROVE  PromisedStep
BY DEF PromisedStep, Promised!vars, Phases, Inbox, Received

\* The abstract actions, over the abstract state.
LEMMA Abstractly ==
    ASSUME NEW d \in Draft
    PROVE  /\ Phases[d] = "open" /\ Phases' = [Phases EXCEPT ![d] = "claimed"] /\ UNCHANGED Inbox
                => PromisedStep
           /\ \A b \in BOOLEAN :
                 Phases[d] = "claimed" /\ ~Settling(d)
                   /\ Inbox' = [Inbox EXCEPT ![d] = Append(@, b)] /\ UNCHANGED Phases
                => PromisedStep
           /\ Phases[d] = "claimed" /\ ~Settling(d)
                /\ Phases' = [Phases EXCEPT ![d] = "open"] /\ UNCHANGED Inbox
                => PromisedStep
           /\ Phases' = [Phases EXCEPT ![d] = "closed"] /\ UNCHANGED Inbox => PromisedStep
<1>1. Phases[d] = "open" /\ Phases' = [Phases EXCEPT ![d] = "claimed"] /\ UNCHANGED Inbox
         => Promised!Claim(d)
  BY DEF Promised!Claim, Phases, Inbox, Received
<1>2. ASSUME NEW b \in BOOLEAN, Phases[d] = "claimed", ~Settling(d),
             Inbox' = [Inbox EXCEPT ![d] = Append(@, b)], UNCHANGED Phases
      PROVE  Promised!Deliver(d, b)
  BY <1>2, Abstraction DEF Promised!Deliver, Phases, Inbox, Received
<1>3. Phases[d] = "claimed" /\ ~Settling(d)
        /\ Phases' = [Phases EXCEPT ![d] = "open"] /\ UNCHANGED Inbox
         => Promised!Release(d)
  BY Abstraction DEF Promised!Release, Phases, Inbox, Received
<1>4. Phases' = [Phases EXCEPT ![d] = "closed"] /\ UNCHANGED Inbox => Promised!Close(d)
  BY DEF Promised!Close, Phases, Inbox, Received
<1> QED
  BY <1>1, <1>2, <1>3, <1>4 DEF PromisedStep, Promised!Next

LEMMA SweepPromised ==
    ASSUME IInv, SettledInv, NEW s \in Sweeper, SweepEffect(s)
    PROVE  PromisedStep
<1>1. SweeperOK(sweeper[s]) /\ deliveries \in [Draft -> Seq(Delivery)]
  BY DEF IInv, LocalsOK, TypeOK, MailServerTypeOK
<1>2. CASE SweepStays(s) \/ SweepDrops(s)
  BY <1>2, PhaseKept, InboxKept, AbstractlyNothing DEF SweepStays, SweepDrops
<1>3. ASSUME NEW d \in Draft, SweepClaims(s, d)
      PROVE  PromisedStep
  <2>1. Phases[d] = "open"
    BY <1>3 DEF SweepClaims, Phases, Phase
  <2>2. Phases' = [Phases EXCEPT ![d] = "claimed"] /\ UNCHANGED Inbox
    BY <1>3, PhaseSet, InboxKept DEF SweepClaims, Phase
  <2> QED
    BY <2>1, <2>2, Abstractly
<1>4. CASE SweepSends(s) \/ SweepReleases(s) \/ SweepCloses(s)
  <2>1. PICK d \in Draft : d = sweeper[s].draft /\ drafts[d].status = "sending" /\ SweepHolds(s, d)
    BY <1>1, <1>4, SweepHolding DEF SweepSends, SweepReleases, SweepCloses, SweeperOK
  <2>2. Phases[d] = "claimed"
    BY <2>1 DEF Phases, Phase
  <2>3. CASE SweepSends(s)
    <3>1. PICK m \in Delivery : Delivered(d, m)
      BY <2>1, <2>3 DEF SweepSends
    <3>2. Inbox' = [Inbox EXCEPT ![d] = Append(@, ~Unconfirmed(m))]
      BY <1>1, <3>1, ReceivedAfter DEF Inbox
    <3>3. ~Settling(d) /\ UNCHANGED Phases
      BY <2>1, <2>3, PhaseKept DEF SweepSends, SettledInv
    <3>4. (~Unconfirmed(m)) \in BOOLEAN
      BY DEF Unconfirmed
    <3> QED
      BY <2>2, <3>2, <3>3, <3>4, Abstractly
  <2>4. CASE SweepReleases(s)
    <3>1. ~Settling(d) /\ UNCHANGED Inbox
      BY <2>1, <2>4, InboxKept DEF SweepReleases, SettledInv
    <3>2. Phases' = [Phases EXCEPT ![d] = "open"]
      BY <2>1, <2>4, PhaseSet DEF SweepReleases, Phase, Editable
    <3> QED
      BY <2>2, <3>1, <3>2, Abstractly
  <2>5. CASE SweepCloses(s)
    <3>1. Phases' = [Phases EXCEPT ![d] = "closed"] /\ UNCHANGED Inbox
      BY <2>1, <2>5, PhaseSet, InboxKept DEF SweepCloses, Phase, Over
    <3> QED
      BY <3>1, Abstractly
  <2> QED
    BY <1>4, <2>3, <2>4, <2>5
<1> QED
  BY <1>2, <1>3, <1>4 DEF SweepEffect

LEMMA SendPromised ==
    ASSUME IInv, SettledInv, NEW c \in Sender, SendEffect(c)
    PROVE  PromisedStep
<1>1. SenderOK(sender[c]) /\ deliveries \in [Draft -> Seq(Delivery)]
  BY DEF IInv, LocalsOK, TypeOK, MailServerTypeOK
<1>2. CASE SendStays(c) \/ SendDrops(c)
  BY <1>2, PhaseKept, InboxKept, AbstractlyNothing DEF SendStays, SendDrops
<1>3. ASSUME NEW d \in Draft, SendClaims(c, d)
      PROVE  PromisedStep
  <2>1. Phases[d] = "open"
    BY <1>3 DEF SendClaims, Phases, Phase
  <2>2. Phases' = [Phases EXCEPT ![d] = "claimed"] /\ UNCHANGED Inbox
    BY <1>3, PhaseSet, InboxKept DEF SendClaims, Phase
  <2> QED
    BY <2>1, <2>2, Abstractly
<1>4. CASE SendSends(c) \/ SendReleases(c) \/ SendCloses(c)
  <2>1. PICK d \in Draft : d = sender[c].draft /\ drafts[d].status = "sending" /\ SenderHolds(c, d)
    BY <1>1, <1>4, SenderHolding DEF SendSends, SendReleases, SendCloses, SenderOK
  <2>2. Phases[d] = "claimed"
    BY <2>1 DEF Phases, Phase
  <2>3. CASE SendSends(c)
    <3>1. PICK m \in Delivery : Delivered(d, m)
      BY <2>1, <2>3 DEF SendSends
    <3>2. Inbox' = [Inbox EXCEPT ![d] = Append(@, ~Unconfirmed(m))]
      BY <1>1, <3>1, ReceivedAfter DEF Inbox
    <3>3. ~Settling(d) /\ UNCHANGED Phases
      BY <2>1, <2>3, PhaseKept DEF SendSends, SettledInv
    <3>4. (~Unconfirmed(m)) \in BOOLEAN
      BY DEF Unconfirmed
    <3> QED
      BY <2>2, <3>2, <3>3, <3>4, Abstractly
  <2>4. CASE SendReleases(c)
    <3>1. ~Settling(d) /\ UNCHANGED Inbox
      BY <2>1, <2>4, InboxKept DEF SendReleases, SettledInv
    <3>2. Phases' = [Phases EXCEPT ![d] = "open"]
      BY <2>1, <2>4, PhaseSet DEF SendReleases, Phase, Editable
    <3> QED
      BY <2>2, <3>1, <3>2, Abstractly
  <2>5. CASE SendCloses(c)
    <3>1. Phases' = [Phases EXCEPT ![d] = "closed"] /\ UNCHANGED Inbox
      BY <2>1, <2>5, PhaseSet, InboxKept DEF SendCloses, Phase, Over
    <3> QED
      BY <3>1, Abstractly
  <2> QED
    BY <1>4, <2>3, <2>4, <2>5
<1> QED
  BY <1>2, <1>3, <1>4 DEF SendEffect

LEMMA OtherPromised ==
    ASSUME IInv, OtherEffect
    PROVE  PromisedStep
<1>1. UNCHANGED Inbox
  BY InboxKept DEF OtherEffect
<1>2. CASE UNCHANGED drafts
  BY <1>1, <1>2, PhaseKept, AbstractlyNothing
<1>3. ASSUME NEW d \in Draft, OthersKept(d), OpenWritten(d) \/ SyncWritten(d) \/ FellDue(d)
      PROVE  PromisedStep
  <2>1. FellDue(d) => drafts'[d].status = drafts[d].status
    BY DEF FellDue, BecomeDue, IInv, TypeOK, DraftStoreTypeOK, Row
  <2>2. CASE drafts'[d].status = "discarded"
    <3>1. Phases' = [Phases EXCEPT ![d] = "closed"]
      BY <1>3, <2>2, PhaseSet DEF Phase
    <3> QED
      BY <1>1, <3>1, Abstractly
  <2>3. CASE drafts'[d].status # "discarded"
    <3>1. Phase(drafts'[d].status) = Phase(drafts[d].status)
      BY <1>3, <2>1, <2>3 DEF OpenWritten, SyncWritten, Phase, Editable
    <3>2. UNCHANGED Phases
      BY <1>3, <3>1, PhaseKept DEF OthersKept
    <3> QED
      BY <1>1, <3>2, AbstractlyNothing
  <2> QED
    BY <2>2, <2>3
<1> QED
  BY <1>2, <1>3 DEF OtherEffect

LEMMA InitSettled ==
    ASSUME Init
    PROVE  SettledInv /\ FrozenInv /\ Promised!Init
<1>1. \A d \in Draft : deliveries[d] = <<>> /\ drafts[d].status = "draft"
  BY DEF Init, CreatedRow
<1>2. /\ \A s \in Sweeper : sweeper[s].lease = NoToken /\ sweeper[s].pc = "idle"
      /\ \A c \in Sender : sender[c].lease = NoToken
  BY DEF Init, SweepInit, ImmediateInit, Idle, NotSending
<1>3. SettledInv /\ FrozenInv
  BY <1>1, <1>2 DEF SettledInv, FrozenInv, ClaimFreezesRow, NoOtherDuplicate, Settling, SweepHolds,
     SenderHolds
<1>4. Promised!Init
  <2>1. \A d \in Draft : Received(d) = <<>> /\ Phase(drafts[d].status) = "open"
    BY <1>1 DEF Received, Phase
  <2>2. Phases = [d \in Draft |-> "open"] /\ Inbox = [d \in Draft |-> <<>>]
    BY <2>1 DEF Phases, Inbox
  <2> QED
    BY <2>2 DEF Promised!Init, Phases, Inbox, Received
<1> QED
  BY <1>3, <1>4

-----------------------------------------------------------------------------
(* The theorems.                                                           *)

\* The invariant behind the others: a settled draft stays claimed until it is
\* closed, by a holder that is past its transmission, and the row a sweep holds
\* is due and unchanged since it was loaded.
THEOREM SendingInvariance == Spec => [](SettledInv /\ FrozenInv)
<1>1. Init => SettledInv /\ FrozenInv
  BY InitSettled
<1>2. IInv /\ IInv' /\ SettledInv /\ FrozenInv /\ [Next]_vars => (SettledInv /\ FrozenInv)'
  BY SettledKept, FrozenKept
<1> QED
  BY <1>1, <1>2, Invariance, PTL DEF Spec

\* No recipient gets a draft twice, except after an immediate send whose SMTP
\* confirmation was lost: sweeps, immediate sends, crashes, failed writes and
\* decisions interleaved in any way, for any number of drafts and processes.
THEOREM NoDuplicates == Spec => []NoOtherDuplicate
<1>1. SettledInv => NoOtherDuplicate
  BY DEF SettledInv
<1> QED
  BY <1>1, SendingInvariance, PTL

\* What the attribution check and the Governor judged is what is transmitted
\* and recorded: from the reload to the end of the transmission nobody changes
\* the row (prepare_due_draft and send_due_draft work on the loaded row).
THEOREM ClaimsFreeze == Spec => []ClaimFreezesRow
<1>1. FrozenInv => ClaimFreezesRow
  BY DEF FrozenInv
<1> QED
  BY <1>1, SendingInvariance, PTL

\* A claim left by a dead process is inert: no statement of the store matches
\* its row any more, and no process transmits it again
\* (DraftStatus::Sending and ::Syncing in store/src/models.rs).
THEOREM OrphansStayInert == Spec => OrphansAreInert
<1>1. IInv /\ [Next]_vars =>
        [\A d \in Draft : Orphaned(d) =>
             /\ drafts'[d] \in {drafts[d], [drafts[d] EXCEPT !.sendAfter = "due"]}
             /\ deliveries'[d] = deliveries[d]]_vars
  BY OrphanKept
<1> QED
  BY <1>1, Invariance, PTL DEF Spec, OrphansAreInert

\* Sent and discarded are final, and an uncertain delivery can only be
\* discarded (DraftStatus in store/src/models.rs), whatever stale page, sync or
\* sweep still works on the draft.
THEOREM TerminalStays == Spec => TerminalIsFinal
<1>1. IInv /\ [Next]_vars =>
        [\A d \in Draft :
            /\ drafts[d].status \in {"sent", "discarded"} => drafts'[d].status = drafts[d].status
            /\ drafts[d].status = "delivery_uncertain" =>
                  drafts'[d].status \in {"delivery_uncertain", "discarded"}]_vars
  BY ClosedKept
<1> QED
  BY <1>1, Invariance, PTL DEF Spec, TerminalIsFinal

\* The whole outbox implements DeliveryPromise: messages leave a draft only
\* while it is claimed, and after a settling one there is no other and no way
\* back to open.
THEOREM OutboxImplementsPromise == Spec => KeepsDeliveryPromise
<1>1. Init => Promised!Init
  BY InitSettled
<1>2. IInv /\ SettledInv /\ [Next]_vars => PromisedStep
  BY StepHasEffect, SweepPromised, SendPromised, OtherPromised
<1> QED
  BY <1>1, <1>2, Invariance, SendingInvariance, PTL
     DEF Spec, KeepsDeliveryPromise, Promised!Spec, PromisedStep
=============================================================================
