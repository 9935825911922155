---------------------------- MODULE OutboxProofs ----------------------------
(***************************************************************************)
(* TypeOK and ClaimsExclude are invariants of Outbox, for any number of    *)
(* drafts, sweeps, immediate sends and modify commands, and any bounds.    *)
(*                                                                         *)
(* The inductive invariant adds to them what each control point says of    *)
(* its locals (LocalsOK) and that revision and content advance together    *)
(* (RowsOK).  A step is sorted by what it does to claims: it keeps every   *)
(* lease, or gives one up, or takes one on a free row.                     *)
(***************************************************************************)
EXTENDS Outbox, TLAPS

-----------------------------------------------------------------------------
(* One lemma per store method: it keeps the table well-typed, writes one   *)
(* row, and either takes a free row, or keeps the row's claim, or is made  *)
(* by the owner of the claim.                                              *)

StoreOK == DraftStoreTypeOK /\ RowsOK

Free(d) == drafts[d].status \notin {"sending", "syncing"}
KeepsClaim(d) ==
    drafts'[d].status = drafts[d].status /\ drafts'[d].token = drafts[d].token
OthersKept(d) == \A e \in Draft \ {d} : drafts'[e] = drafts[e]

-----------------------------------------------------------------------------
\* Every method below replaces one row.
LEMMA RowWritten ==
    ASSUME StoreOK, NEW d \in Draft, NEW row \in Row, row.rev = row.content,
           drafts' = [drafts EXCEPT ![d] = row],
           correction' \in [Draft -> RevOrNone]
    PROVE  StoreOK' /\ drafts'[d] = row /\ OthersKept(d)
BY DEF StoreOK, DraftStoreTypeOK, RowsOK, OthersKept

\* The three claims take a free row and put the new token on it.
LEMMA ClaimForSending_Row ==
    ASSUME StoreOK, NEW d \in Draft, NEW rev, NEW t \in Token,
           ClaimForSending(d, rev, t)
    PROVE  StoreOK' /\ OthersKept(d) /\ Free(d) /\ drafts'[d].status = "sending" /\ drafts'[d].token = t
<1> DEFINE row == [drafts[d] EXCEPT !.status = "sending", !.token = t]
<1>1. drafts[d] \in Row /\ drafts[d].rev = drafts[d].content
  BY DEF StoreOK, DraftStoreTypeOK, RowsOK
<1>2. row \in Row /\ row.rev = row.content
  BY <1>1 DEF ClaimForSending, Row, Status
<1>3. drafts' = [drafts EXCEPT ![d] = row]
  BY DEF ClaimForSending, StoreOK, DraftStoreTypeOK
<1>4. correction' \in [Draft -> RevOrNone]
  BY DEF ClaimForSending, StoreOK, DraftStoreTypeOK
<1>5. StoreOK' /\ drafts'[d] = row /\ OthersKept(d)
  BY <1>2, <1>3, <1>4, RowWritten
<1>6. row.status = "sending" /\ row.token = t
  BY <1>1 DEF Row
<1>7. Free(d)
  BY DEF ClaimForSending, Free, SendClaimable, Due
<1> QED
  BY <1>5, <1>6, <1>7

\* (See ClaimForSending_Row.)
LEMMA ClaimForImmediateSend_Row ==
    ASSUME StoreOK, NEW d \in Draft, NEW rev, NEW t \in Token,
           ClaimForImmediateSend(d, rev, t)
    PROVE  StoreOK' /\ OthersKept(d) /\ Free(d) /\ drafts'[d].status = "sending" /\ drafts'[d].token = t
<1> DEFINE row == [drafts[d] EXCEPT !.status = "sending", !.token = t]
<1>1. drafts[d] \in Row /\ drafts[d].rev = drafts[d].content
  BY DEF StoreOK, DraftStoreTypeOK, RowsOK
<1>2. row \in Row /\ row.rev = row.content
  BY <1>1 DEF ClaimForImmediateSend, Row, Status
<1>3. drafts' = [drafts EXCEPT ![d] = row]
  BY DEF ClaimForImmediateSend, StoreOK, DraftStoreTypeOK
<1>4. correction' \in [Draft -> RevOrNone]
  BY DEF ClaimForImmediateSend, StoreOK, DraftStoreTypeOK
<1>5. StoreOK' /\ drafts'[d] = row /\ OthersKept(d)
  BY <1>2, <1>3, <1>4, RowWritten
<1>6. row.status = "sending" /\ row.token = t
  BY <1>1 DEF Row
<1>7. Free(d)
  BY DEF ClaimForImmediateSend, Free, ImmediateClaimable
<1> QED
  BY <1>5, <1>6, <1>7

\* (See ClaimForSending_Row.)
LEMMA ClaimForSync_Row ==
    ASSUME StoreOK, NEW d \in Draft, NEW rev, NEW t \in Token,
           ClaimForSync(d, rev, t)
    PROVE  StoreOK' /\ OthersKept(d) /\ Free(d) /\ drafts'[d].status = "syncing" /\ drafts'[d].token = t
<1> DEFINE row == [drafts[d] EXCEPT !.status = "syncing", !.token = t]
<1>1. drafts[d] \in Row /\ drafts[d].rev = drafts[d].content
  BY DEF StoreOK, DraftStoreTypeOK, RowsOK
<1>2. row \in Row /\ row.rev = row.content
  BY <1>1 DEF ClaimForSync, Row, Status
<1>3. drafts' = [drafts EXCEPT ![d] = row]
  BY DEF ClaimForSync, StoreOK, DraftStoreTypeOK
<1>4. correction' \in [Draft -> RevOrNone]
  BY DEF ClaimForSync, StoreOK, DraftStoreTypeOK
<1>5. StoreOK' /\ drafts'[d] = row /\ OthersKept(d)
  BY <1>2, <1>3, <1>4, RowWritten
<1>6. row.status = "syncing" /\ row.token = t
  BY <1>1 DEF Row
<1>7. Free(d)
  BY DEF ClaimForSync, Free, SyncClaimable, Editable
<1> QED
  BY <1>5, <1>6, <1>7

\* A release, a park and the sent state write the claimed row only.
LEMMA ReleaseSending_Row ==
    ASSUME StoreOK, NEW d \in Draft, NEW t, NEW to \in {"draft", "blocked"},
           ReleaseSending(d, t, to)
    PROVE  StoreOK' /\ OthersKept(d)
<1> DEFINE row == [drafts[d] EXCEPT !.status = to, !.token = NoToken]
<1>1. drafts[d] \in Row /\ drafts[d].rev = drafts[d].content
  BY DEF StoreOK, DraftStoreTypeOK, RowsOK
<1>2. row \in Row /\ row.rev = row.content
  BY <1>1 DEF ReleaseSending, Row, Status
<1>3. drafts' = [drafts EXCEPT ![d] = row]
  BY DEF ReleaseSending, StoreOK, DraftStoreTypeOK
<1>4. correction' \in [Draft -> RevOrNone]
  BY DEF ReleaseSending, StoreOK, DraftStoreTypeOK
<1>5. StoreOK' /\ drafts'[d] = row /\ OthersKept(d)
  BY <1>2, <1>3, <1>4, RowWritten
<1> QED
  BY <1>5

\* (See ReleaseSending_Row.)
LEMMA ReleaseSyncing_Row ==
    ASSUME StoreOK, NEW d \in Draft, NEW t, NEW to \in Editable,
           ReleaseSyncing(d, t, to)
    PROVE  StoreOK' /\ OthersKept(d)
<1> DEFINE row == [drafts[d] EXCEPT !.status = to, !.token = NoToken]
<1>1. drafts[d] \in Row /\ drafts[d].rev = drafts[d].content
  BY DEF StoreOK, DraftStoreTypeOK, RowsOK
<1>2. row \in Row /\ row.rev = row.content
  BY <1>1 DEF ReleaseSyncing, Row, Status, Editable
<1>3. drafts' = [drafts EXCEPT ![d] = row]
  BY DEF ReleaseSyncing, StoreOK, DraftStoreTypeOK
<1>4. correction' \in [Draft -> RevOrNone]
  BY DEF ReleaseSyncing, StoreOK, DraftStoreTypeOK
<1>5. StoreOK' /\ drafts'[d] = row /\ OthersKept(d)
  BY <1>2, <1>3, <1>4, RowWritten
<1> QED
  BY <1>5

\* (See ReleaseSending_Row.)
LEMMA MarkSent_Row ==
    ASSUME StoreOK, NEW d \in Draft, NEW t,
           MarkSent(d, t)
    PROVE  StoreOK' /\ OthersKept(d)
<1> DEFINE row == [drafts[d] EXCEPT !.status = "sent", !.token = NoToken, !.sendAfter = "none", !.imapUid = NoRev]
<1>1. drafts[d] \in Row /\ drafts[d].rev = drafts[d].content
  BY DEF StoreOK, DraftStoreTypeOK, RowsOK
<1>2. row \in Row /\ row.rev = row.content
  BY <1>1 DEF MarkSent, Row, Status, RevOrNone
<1>3. drafts' = [drafts EXCEPT ![d] = row]
  BY DEF MarkSent, StoreOK, DraftStoreTypeOK
<1>4. correction' \in [Draft -> RevOrNone]
  BY DEF MarkSent, StoreOK, DraftStoreTypeOK
<1>5. StoreOK' /\ drafts'[d] = row /\ OthersKept(d)
  BY <1>2, <1>3, <1>4, RowWritten
<1> QED
  BY <1>5

\* (See ReleaseSending_Row.)
LEMMA ParkDeliveryUncertain_Row ==
    ASSUME StoreOK, NEW d \in Draft, NEW t,
           ParkDeliveryUncertain(d, t)
    PROVE  StoreOK' /\ OthersKept(d)
<1> DEFINE row == [drafts[d] EXCEPT !.status = "delivery_uncertain", !.token = NoToken, !.sendAfter = "none"]
<1>1. drafts[d] \in Row /\ drafts[d].rev = drafts[d].content
  BY DEF StoreOK, DraftStoreTypeOK, RowsOK
<1>2. row \in Row /\ row.rev = row.content
  BY <1>1 DEF ParkDeliveryUncertain, Row, Status
<1>3. drafts' = [drafts EXCEPT ![d] = row]
  BY DEF ParkDeliveryUncertain, StoreOK, DraftStoreTypeOK
<1>4. correction' \in [Draft -> RevOrNone]
  BY DEF ParkDeliveryUncertain, StoreOK, DraftStoreTypeOK
<1>5. StoreOK' /\ drafts'[d] = row /\ OthersKept(d)
  BY <1>2, <1>3, <1>4, RowWritten
<1> QED
  BY <1>5

\* (See ReleaseSending_Row.)
LEMMA ParkForReview_Row ==
    ASSUME StoreOK, NEW d \in Draft, NEW t,
           ParkForReview(d, t)
    PROVE  StoreOK' /\ OthersKept(d)
<1> DEFINE row == [drafts[d] EXCEPT !.status = "pending_review", !.token = NoToken, !.sendAfter = "none", !.sendBlock = TRUE]
<1>1. drafts[d] \in Row /\ drafts[d].rev = drafts[d].content
  BY DEF StoreOK, DraftStoreTypeOK, RowsOK
<1>2. row \in Row /\ row.rev = row.content
  BY <1>1 DEF ParkForReview, Row, Status
<1>3. drafts' = [drafts EXCEPT ![d] = row]
  BY DEF ParkForReview, StoreOK, DraftStoreTypeOK
<1>4. correction' \in [Draft -> RevOrNone]
  BY DEF ParkForReview, StoreOK, DraftStoreTypeOK
<1>5. StoreOK' /\ drafts'[d] = row /\ OthersKept(d)
  BY <1>2, <1>3, <1>4, RowWritten
<1> QED
  BY <1>5

\* (See ReleaseSending_Row.)
LEMMA DeferAttributionRetry_Row ==
    ASSUME StoreOK, NEW d \in Draft, NEW t, NEW decl \in Declaration,
           DeferAttributionRetry(d, t, decl)
    PROVE  StoreOK' /\ OthersKept(d)
<1> DEFINE row == [drafts[d] EXCEPT !.status = "draft", !.token = NoToken, !.decl = decl]
<1>1. drafts[d] \in Row /\ drafts[d].rev = drafts[d].content
  BY DEF StoreOK, DraftStoreTypeOK, RowsOK
<1>2. row \in Row /\ row.rev = row.content
  BY <1>1 DEF DeferAttributionRetry, Row, Status
<1>3. drafts' = [drafts EXCEPT ![d] = row]
  BY DEF DeferAttributionRetry, StoreOK, DraftStoreTypeOK
<1>4. correction' \in [Draft -> RevOrNone]
  BY DEF DeferAttributionRetry, StoreOK, DraftStoreTypeOK
<1>5. StoreOK' /\ drafts'[d] = row /\ OthersKept(d)
  BY <1>2, <1>3, <1>4, RowWritten
<1> QED
  BY <1>5

\* (See ReleaseSending_Row.)
LEMMA ParkAttributionExhausted_Row ==
    ASSUME StoreOK, NEW d \in Draft, NEW t, NEW decl \in Declaration,
           ParkAttributionExhausted(d, t, decl)
    PROVE  StoreOK' /\ OthersKept(d)
<1> DEFINE row == [drafts[d] EXCEPT !.status = "pending_review", !.token = NoToken, !.sendAfter = "none", !.decl = decl]
<1>1. drafts[d] \in Row /\ drafts[d].rev = drafts[d].content
  BY DEF StoreOK, DraftStoreTypeOK, RowsOK
<1>2. row \in Row /\ row.rev = row.content
  BY <1>1 DEF ParkAttributionExhausted, Row, Status
<1>3. drafts' = [drafts EXCEPT ![d] = row]
  BY DEF ParkAttributionExhausted, StoreOK, DraftStoreTypeOK
<1>4. correction' \in [Draft -> RevOrNone]
  BY DEF ParkAttributionExhausted, StoreOK, DraftStoreTypeOK
<1>5. StoreOK' /\ drafts'[d] = row /\ OthersKept(d)
  BY <1>2, <1>3, <1>4, RowWritten
<1> QED
  BY <1>5

\* Edits and decisions write free rows only.
LEMMA UpdateContent_Row ==
    ASSUME StoreOK, NEW d \in Draft, NEW rev,
           UpdateContent(d, rev)
    PROVE  StoreOK' /\ OthersKept(d) /\ Free(d)
<1> DEFINE row == [drafts[d] EXCEPT !.rev = @ + 1, !.content = @ + 1, !.approval = NoRev, !.humanSend = NoRev]
<1>1. drafts[d] \in Row /\ drafts[d].rev = drafts[d].content
  BY DEF StoreOK, DraftStoreTypeOK, RowsOK
<1>2. row \in Row /\ row.rev = row.content
  <2>1. drafts[d].content + 1 \in Rev
    BY <1>1, MaxEditsAssumption DEF UpdateContent, Row, Rev
  <2>2. NoRev \in RevOrNone
    BY DEF RevOrNone
  <2> QED
    BY <1>1, <2>1, <2>2 DEF Row
<1>3. drafts' = [drafts EXCEPT ![d] = row]
  BY DEF UpdateContent, StoreOK, DraftStoreTypeOK
<1>4. correction' \in [Draft -> RevOrNone]
  BY DEF UpdateContent, StoreOK, DraftStoreTypeOK
<1>5. StoreOK' /\ drafts'[d] = row /\ OthersKept(d)
  BY <1>2, <1>3, <1>4, RowWritten
<1> QED
  BY <1>5 DEF UpdateContent, Free, SyncClaimable, Editable

\* (See UpdateContent_Row.)
LEMMA RelinkUid_Row ==
    ASSUME StoreOK, NEW d \in Draft, NEW uid \in RevOrNone,
           RelinkUid(d, uid)
    PROVE  StoreOK' /\ OthersKept(d) /\ Free(d)
<1> DEFINE row == [drafts[d] EXCEPT !.imapUid = uid]
<1>1. drafts[d] \in Row /\ drafts[d].rev = drafts[d].content
  BY DEF StoreOK, DraftStoreTypeOK, RowsOK
<1>2. row \in Row /\ row.rev = row.content
  BY <1>1 DEF RelinkUid, Row, Status
<1>3. drafts' = [drafts EXCEPT ![d] = row]
  BY DEF RelinkUid, StoreOK, DraftStoreTypeOK
<1>4. correction' \in [Draft -> RevOrNone]
  BY DEF RelinkUid, StoreOK, DraftStoreTypeOK
<1>5. StoreOK' /\ drafts'[d] = row /\ OthersKept(d)
  BY <1>2, <1>3, <1>4, RowWritten
<1> QED
  BY <1>5 DEF RelinkUid, Free, Editable

\* (See UpdateContent_Row.)
LEMMA UpdateStatus_Row ==
    ASSUME StoreOK, NEW d \in Draft, NEW to \in Editable,
           UpdateStatus(d, to)
    PROVE  StoreOK' /\ OthersKept(d) /\ Free(d)
<1> DEFINE row == [drafts[d] EXCEPT !.status = to]
<1>1. drafts[d] \in Row /\ drafts[d].rev = drafts[d].content
  BY DEF StoreOK, DraftStoreTypeOK, RowsOK
<1>2. row \in Row /\ row.rev = row.content
  BY <1>1 DEF UpdateStatus, Row, Status, Editable
<1>3. drafts' = [drafts EXCEPT ![d] = row]
  BY DEF UpdateStatus, StoreOK, DraftStoreTypeOK
<1>4. correction' \in [Draft -> RevOrNone]
  BY DEF UpdateStatus, StoreOK, DraftStoreTypeOK
<1>5. StoreOK' /\ drafts'[d] = row /\ OthersKept(d)
  BY <1>2, <1>3, <1>4, RowWritten
<1> QED
  BY <1>5 DEF UpdateStatus, Free, Editable

\* (See UpdateContent_Row.)
LEMMA DiscardDraft_Row ==
    ASSUME StoreOK, NEW d \in Draft, 
           DiscardDraft(d)
    PROVE  StoreOK' /\ OthersKept(d) /\ Free(d)
<1> DEFINE row == [drafts[d] EXCEPT !.status = "discarded"]
<1>1. drafts[d] \in Row /\ drafts[d].rev = drafts[d].content
  BY DEF StoreOK, DraftStoreTypeOK, RowsOK
<1>2. row \in Row /\ row.rev = row.content
  BY <1>1 DEF DiscardDraft, Row, Status
<1>3. drafts' = [drafts EXCEPT ![d] = row]
  BY DEF DiscardDraft, StoreOK, DraftStoreTypeOK
<1>4. correction' \in [Draft -> RevOrNone]
  BY DEF DiscardDraft, StoreOK, DraftStoreTypeOK
<1>5. StoreOK' /\ drafts'[d] = row /\ OthersKept(d)
  BY <1>2, <1>3, <1>4, RowWritten
<1> QED
  BY <1>5 DEF DiscardDraft, Free, Discardable, Editable

\* (See UpdateContent_Row.)
LEMMA HoldScheduled_Row ==
    ASSUME StoreOK, NEW d \in Draft, 
           HoldScheduled(d)
    PROVE  StoreOK' /\ OthersKept(d) /\ Free(d)
<1> DEFINE row == [drafts[d] EXCEPT !.sendAfter = "none", !.approval = NoRev, !.humanSend = NoRev]
<1>1. drafts[d] \in Row /\ drafts[d].rev = drafts[d].content
  BY DEF StoreOK, DraftStoreTypeOK, RowsOK
<1>2. row \in Row /\ row.rev = row.content
  BY <1>1 DEF HoldScheduled, Row, Status, Rev, RevOrNone, NoRev
<1>3. drafts' = [drafts EXCEPT ![d] = row]
  BY DEF HoldScheduled, StoreOK, DraftStoreTypeOK
<1>4. correction' \in [Draft -> RevOrNone]
  BY DEF HoldScheduled, StoreOK, DraftStoreTypeOK, Rev, RevOrNone, NoRev
<1>5. StoreOK' /\ drafts'[d] = row /\ OthersKept(d)
  BY <1>2, <1>3, <1>4, RowWritten
<1> QED
  BY <1>5 DEF HoldScheduled, Free, Queued

\* (See UpdateContent_Row.)
LEMMA ApproveRevision_Row ==
    ASSUME StoreOK, NEW d \in Draft, NEW rev,
           ApproveRevision(d, rev)
    PROVE  StoreOK' /\ OthersKept(d) /\ Free(d)
<1> DEFINE row == [drafts[d] EXCEPT !.status = "draft", !.approval = rev]
<1>1. drafts[d] \in Row /\ drafts[d].rev = drafts[d].content
  BY DEF StoreOK, DraftStoreTypeOK, RowsOK
<1>2. row \in Row /\ row.rev = row.content
  BY <1>1 DEF ApproveRevision, Row, Status, Rev, RevOrNone, NoRev, SyncClaimable
<1>3. drafts' = [drafts EXCEPT ![d] = row]
  BY DEF ApproveRevision, StoreOK, DraftStoreTypeOK
<1>4. correction' \in [Draft -> RevOrNone]
  BY DEF ApproveRevision, StoreOK, DraftStoreTypeOK
<1>5. StoreOK' /\ drafts'[d] = row /\ OthersKept(d)
  BY <1>2, <1>3, <1>4, RowWritten
<1> QED
  BY <1>5 DEF ApproveRevision, Free, SyncClaimable, Editable

\* (See UpdateContent_Row.)
LEMMA QueueForSend_Row ==
    ASSUME StoreOK, NEW d \in Draft, NEW rev, NEW when \in {"later", "due"},
           QueueForSend(d, rev, when)
    PROVE  StoreOK' /\ OthersKept(d) /\ Free(d)
<1> DEFINE row == [drafts[d] EXCEPT !.status = "draft", !.sendAfter = when, !.decl = BotDeclaration(rev), !.humanSend = NoRev]
<1>1. drafts[d] \in Row /\ drafts[d].rev = drafts[d].content
  BY DEF StoreOK, DraftStoreTypeOK, RowsOK
<1>2. row \in Row /\ row.rev = row.content
  BY <1>1 DEF QueueForSend, Row, Status, Rev, RevOrNone, NoRev, Declaration, BotDeclaration
<1>3. drafts' = [drafts EXCEPT ![d] = row]
  BY DEF QueueForSend, StoreOK, DraftStoreTypeOK
<1>4. correction' \in [Draft -> RevOrNone]
  BY DEF QueueForSend, StoreOK, DraftStoreTypeOK, Rev, RevOrNone, NoRev
<1>5. StoreOK' /\ drafts'[d] = row /\ OthersKept(d)
  BY <1>2, <1>3, <1>4, RowWritten
<1> QED
  BY <1>5 DEF QueueForSend, Free, Queueable

\* (See UpdateContent_Row.)
LEMMA QueueWithHumanSend_Row ==
    ASSUME StoreOK, NEW d \in Draft, NEW rev, NEW when \in {"later", "due"},
           QueueWithHumanSend(d, rev, when)
    PROVE  StoreOK' /\ OthersKept(d) /\ Free(d)
<1> DEFINE row == [drafts[d] EXCEPT !.status = "draft", !.sendAfter = when, !.approval = rev, !.humanSend = rev]
<1>1. drafts[d] \in Row /\ drafts[d].rev = drafts[d].content
  BY DEF StoreOK, DraftStoreTypeOK, RowsOK
<1>2. row \in Row /\ row.rev = row.content
  BY <1>1 DEF QueueWithHumanSend, Row, Status, Rev, RevOrNone, NoRev
<1>3. drafts' = [drafts EXCEPT ![d] = row]
  BY DEF QueueWithHumanSend, StoreOK, DraftStoreTypeOK
<1>4. correction' \in [Draft -> RevOrNone]
  BY DEF QueueWithHumanSend, StoreOK, DraftStoreTypeOK, Rev, RevOrNone, NoRev
<1>5. StoreOK' /\ drafts'[d] = row /\ OthersKept(d)
  BY <1>2, <1>3, <1>4, RowWritten
<1> QED
  BY <1>5 DEF QueueWithHumanSend, Free, Queueable

\* (See UpdateContent_Row.)
LEMMA QueueWithContextCorrection_Row ==
    ASSUME StoreOK, NEW d \in Draft, NEW rev, NEW when \in {"later", "due"},
           QueueWithContextCorrection(d, rev, when)
    PROVE  StoreOK' /\ OthersKept(d) /\ Free(d)
<1> DEFINE row == [drafts[d] EXCEPT !.status = "draft", !.sendAfter = when, !.decl = BotDeclaration(rev), !.sendBlock = FALSE]
<1>1. drafts[d] \in Row /\ drafts[d].rev = drafts[d].content
  BY DEF StoreOK, DraftStoreTypeOK, RowsOK
<1>2. row \in Row /\ row.rev = row.content
  BY <1>1 DEF QueueWithContextCorrection, Row, Status, Rev, RevOrNone, NoRev, Declaration, BotDeclaration
<1>3. drafts' = [drafts EXCEPT ![d] = row]
  BY DEF QueueWithContextCorrection, StoreOK, DraftStoreTypeOK
<1>4. correction' \in [Draft -> RevOrNone]
  BY DEF QueueWithContextCorrection, StoreOK, DraftStoreTypeOK, Rev, RevOrNone, NoRev, Row
<1>5. StoreOK' /\ drafts'[d] = row /\ OthersKept(d)
  BY <1>2, <1>3, <1>4, RowWritten
<1> QED
  BY <1>5 DEF QueueWithContextCorrection, Free

\* The writes under a sync lease and the passage of time keep the claim.
LEMMA ApplySyncedEdit_Row ==
    ASSUME StoreOK, NEW d \in Draft, NEW t, NEW snapshot \in Row,
           ApplySyncedEdit(d, t, snapshot)
    PROVE  StoreOK' /\ OthersKept(d) /\ KeepsClaim(d)
<1> DEFINE row == [drafts[d] EXCEPT !.rev = @ + 1, !.content = @ + 1, !.approval = NoRev, !.humanSend = NoRev, !.decl = snapshot.decl, !.sendBlock = snapshot.sendBlock, !.imapSynced = snapshot.imapSynced]
<1>1. drafts[d] \in Row /\ drafts[d].rev = drafts[d].content
  BY DEF StoreOK, DraftStoreTypeOK, RowsOK
<1>2. row \in Row /\ row.rev = row.content
  <2>1. drafts[d].content + 1 \in Rev
    BY <1>1, MaxEditsAssumption DEF ApplySyncedEdit, Row, Rev
  <2>2. NoRev \in RevOrNone
    BY DEF RevOrNone
  <2> QED
    BY <1>1, <2>1, <2>2 DEF Row
<1>3. drafts' = [drafts EXCEPT ![d] = row]
  BY DEF ApplySyncedEdit, StoreOK, DraftStoreTypeOK
<1>4. correction' \in [Draft -> RevOrNone]
  BY DEF ApplySyncedEdit, StoreOK, DraftStoreTypeOK
<1>5. StoreOK' /\ drafts'[d] = row /\ OthersKept(d)
  BY <1>2, <1>3, <1>4, RowWritten
<1>6. row.status = drafts[d].status /\ row.token = drafts[d].token
  BY <1>1 DEF Row
<1> QED
  BY <1>5, <1>6 DEF KeepsClaim

\* (See ApplySyncedEdit_Row.)
LEMMA FinalizeSynced_Row ==
    ASSUME StoreOK, NEW d \in Draft, NEW t, NEW uid \in RevOrNone, NEW synced \in BOOLEAN,
           FinalizeSynced(d, t, uid, synced)
    PROVE  StoreOK' /\ OthersKept(d) /\ KeepsClaim(d)
<1> DEFINE row == [drafts[d] EXCEPT !.imapUid = uid, !.imapSynced = synced]
<1>1. drafts[d] \in Row /\ drafts[d].rev = drafts[d].content
  BY DEF StoreOK, DraftStoreTypeOK, RowsOK
<1>2. row \in Row /\ row.rev = row.content
  BY <1>1 DEF FinalizeSynced, Row, Status
<1>3. drafts' = [drafts EXCEPT ![d] = row]
  BY DEF FinalizeSynced, StoreOK, DraftStoreTypeOK
<1>4. correction' \in [Draft -> RevOrNone]
  BY DEF FinalizeSynced, StoreOK, DraftStoreTypeOK
<1>5. StoreOK' /\ drafts'[d] = row /\ OthersKept(d)
  BY <1>2, <1>3, <1>4, RowWritten
<1>6. row.status = drafts[d].status /\ row.token = drafts[d].token
  BY <1>1 DEF Row
<1> QED
  BY <1>5, <1>6 DEF KeepsClaim

\* (See ApplySyncedEdit_Row.)
LEMMA BecomeDue_Row ==
    ASSUME StoreOK, NEW d \in Draft, 
           BecomeDue(d)
    PROVE  StoreOK' /\ OthersKept(d) /\ KeepsClaim(d)
<1> DEFINE row == [drafts[d] EXCEPT !.sendAfter = "due"]
<1>1. drafts[d] \in Row /\ drafts[d].rev = drafts[d].content
  BY DEF StoreOK, DraftStoreTypeOK, RowsOK
<1>2. row \in Row /\ row.rev = row.content
  BY <1>1 DEF BecomeDue, Row, Status
<1>3. drafts' = [drafts EXCEPT ![d] = row]
  BY DEF BecomeDue, StoreOK, DraftStoreTypeOK
<1>4. correction' \in [Draft -> RevOrNone]
  BY DEF BecomeDue, StoreOK, DraftStoreTypeOK
<1>5. StoreOK' /\ drafts'[d] = row /\ OthersKept(d)
  BY <1>2, <1>3, <1>4, RowWritten
<1>6. row.status = drafts[d].status /\ row.token = drafts[d].token
  BY <1>1 DEF Row
<1> QED
  BY <1>5, <1>6 DEF KeepsClaim

-----------------------------------------------------------------------------
(* The inductive invariant.                                                *)


IInv ==
    /\ TypeOK
    /\ LocalsOK
    /\ RowsOK
    /\ ClaimsExclude

-----------------------------------------------------------------------------
(* Claims.                                                                 *)

SameSweeper(s) ==
    sweeper'[s].draft = sweeper[s].draft /\ sweeper'[s].lease = sweeper[s].lease
SameSender(c) ==
    sender'[c].draft = sender[c].draft /\ sender'[c].lease = sender[c].lease
SameSyncer(m) ==
    syncer'[m].draft = syncer[m].draft /\ syncer'[m].lease = syncer[m].lease

\* Steps that keep all leases and change no claimed row's claim.
LEMMA LeasesKept ==
    ASSUME ClaimsExclude,
           \A s \in Sweeper : SameSweeper(s),
           \A c \in Sender : SameSender(c),
           \A m \in Syncer : SameSyncer(m),
           \A d \in Draft : Free(d) \/ KeepsClaim(d)
    PROVE  ClaimsExclude'
BY DEF ClaimsExclude, LeasesAreOwned, SweepHolds, SenderHolds, SyncerHolds, Owned,
       SameSweeper, SameSender, SameSyncer, Free, KeepsClaim

\* A sweep gives its lease up, and with it may change the row it held.
LEMMA SweeperReleases ==
    ASSUME ClaimsExclude, NEW s \in Sweeper,
           sweeper'[s].lease = NoToken,
           \A o \in Sweeper \ {s} : SameSweeper(o),
           \A c \in Sender : SameSender(c),
           \A m \in Syncer : SameSyncer(m),
           \A d \in Draft : Free(d) \/ KeepsClaim(d) \/ SweepHolds(s, d)
    PROVE  ClaimsExclude'
BY DEF ClaimsExclude, LeasesAreOwned, SweepHolds, SenderHolds, SyncerHolds, Owned,
       SameSweeper, SameSender, SameSyncer, Free, KeepsClaim

\* A sweep takes a free row.
LEMMA SweeperClaims ==
    ASSUME ClaimsExclude, NEW s \in Sweeper, NEW d \in Draft,
           sweeper[s].lease = NoToken,
           sweeper'[s].draft = d,
           Free(d), drafts'[d].status = "sending",
           drafts'[d].token = sweeper'[s].lease,
           OthersKept(d),
           \A o \in Sweeper \ {s} : SameSweeper(o),
           \A c \in Sender : SameSender(c),
           \A m \in Syncer : SameSyncer(m)
    PROVE  ClaimsExclude'
BY DEF ClaimsExclude, LeasesAreOwned, SweepHolds, SenderHolds, SyncerHolds, Owned,
       SameSweeper, SameSender, SameSyncer, Free, OthersKept

\* The same for an immediate send.
LEMMA SenderReleases ==
    ASSUME ClaimsExclude, NEW c \in Sender,
           sender'[c].lease = NoToken,
           \A s \in Sweeper : SameSweeper(s),
           \A o \in Sender \ {c} : SameSender(o),
           \A m \in Syncer : SameSyncer(m),
           \A d \in Draft : Free(d) \/ KeepsClaim(d) \/ SenderHolds(c, d)
    PROVE  ClaimsExclude'
BY DEF ClaimsExclude, LeasesAreOwned, SweepHolds, SenderHolds, SyncerHolds, Owned,
       SameSweeper, SameSender, SameSyncer, Free, KeepsClaim

LEMMA SenderClaims ==
    ASSUME ClaimsExclude, NEW c \in Sender, NEW d \in Draft,
           sender[c].lease = NoToken,
           sender'[c].draft = d,
           Free(d), drafts'[d].status = "sending",
           drafts'[d].token = sender'[c].lease,
           OthersKept(d),
           \A s \in Sweeper : SameSweeper(s),
           \A o \in Sender \ {c} : SameSender(o),
           \A m \in Syncer : SameSyncer(m)
    PROVE  ClaimsExclude'
BY DEF ClaimsExclude, LeasesAreOwned, SweepHolds, SenderHolds, SyncerHolds, Owned,
       SameSweeper, SameSender, SameSyncer, Free, OthersKept

\* The same for a modify command.
LEMMA SyncerReleases ==
    ASSUME ClaimsExclude, NEW m \in Syncer,
           syncer'[m].lease = NoToken,
           \A s \in Sweeper : SameSweeper(s),
           \A c \in Sender : SameSender(c),
           \A o \in Syncer \ {m} : SameSyncer(o),
           \A d \in Draft : Free(d) \/ KeepsClaim(d) \/ SyncerHolds(m, d)
    PROVE  ClaimsExclude'
BY DEF ClaimsExclude, LeasesAreOwned, SweepHolds, SenderHolds, SyncerHolds, Owned,
       SameSweeper, SameSender, SameSyncer, Free, KeepsClaim

LEMMA SyncerClaims ==
    ASSUME ClaimsExclude, NEW m \in Syncer, NEW d \in Draft,
           syncer[m].lease = NoToken,
           syncer'[m].draft = d,
           Free(d), drafts'[d].status = "syncing",
           drafts'[d].token = syncer'[m].lease,
           OthersKept(d),
           \A s \in Sweeper : SameSweeper(s),
           \A c \in Sender : SameSender(c),
           \A o \in Syncer \ {m} : SameSyncer(o)
    PROVE  ClaimsExclude'
BY DEF ClaimsExclude, LeasesAreOwned, SweepHolds, SenderHolds, SyncerHolds, Owned,
       SameSweeper, SameSender, SameSyncer, Free, OthersKept

-----------------------------------------------------------------------------
(* The tables a step leaves alone, and the mailbox.                        *)

LEMMA StoreUnchanged ==
    ASSUME StoreOK, UNCHANGED storeVars
    PROVE  StoreOK' /\ (\A d \in Draft : KeepsClaim(d) /\ OthersKept(d))
BY DEF StoreOK, DraftStoreTypeOK, RowsOK, storeVars, KeepsClaim, OthersKept

LEMMA MailUnchanged ==
    ASSUME MailServerTypeOK, UNCHANGED mailVars
    PROVE  MailServerTypeOK'
BY DEF MailServerTypeOK, mailVars

LEMMA AcceptOK ==
    ASSUME MailServerTypeOK, NEW d \in Draft, NEW content \in Rev,
           NEW gate \in {"human", "governor"}, NEW by \in {"sweep", "immediate"},
           NEW acked \in BOOLEAN, Accept(d, content, gate, by, acked)
    PROVE  MailServerTypeOK'
<1> DEFINE message == [content |-> content, gate |-> gate, by |-> by, acknowledged |-> acked]
<1>1. message \in Delivery
  BY DEF Delivery
<1>2. Append(deliveries[d], message) \in Seq(Delivery)
  BY <1>1 DEF MailServerTypeOK
<1>3. deliveries' = [deliveries EXCEPT ![d] = Append(deliveries[d], message)]
  BY DEF Accept, MailServerTypeOK
<1> HIDE DEF message
<1> QED
  BY <1>2, <1>3 DEF MailServerTypeOK, Accept

LEMMA CopiesOK ==
    ASSUME MailServerTypeOK, NEW d \in Draft,
           \/ \E gone : RemoveCopies(d, gone)
           \/ \E content \in Rev : AppendCopy(d, content)
    PROVE  MailServerTypeOK'
BY DEF MailServerTypeOK, RemoveCopies, AppendCopy

\* The block a failed attempt writes is a declaration.
LEMMA FailedAttemptOK ==
    ASSUME NEW row \in Row
    PROVE  FailedAttempt(row) \in Declaration
BY DEF FailedAttempt, PriorAttempts, Declared, DeclarationCurrent, Row, Declaration, RevOrNone

-----------------------------------------------------------------------------
(* The sweep.                                                              *)

\* What a step of a sweep must leave for the invariant to hold: well-typed
\* tables, locals that fit its control point, and claims that it kept, gave up
\* or took on a free row.
LEMMA SweeperResult ==
    ASSUME IInv, NEW s \in Sweeper, NEW p \in SweeperState, SweeperOK(p),
           sweeper' = [sweeper EXCEPT ![s] = p],
           UNCHANGED <<sender, syncer, cockpitVars>>,
           StoreOK', MailServerTypeOK',
           \/ /\ p.lease = sweeper[s].lease
              /\ p.draft = sweeper[s].draft
              /\ \A d \in Draft : Free(d) \/ KeepsClaim(d)
           \/ /\ p.lease = NoToken
              /\ \A d \in Draft : Free(d) \/ KeepsClaim(d) \/ SweepHolds(s, d)
           \/ /\ sweeper[s].lease = NoToken
              /\ p.draft \in Draft
              /\ Free(p.draft)
              /\ drafts'[p.draft].status = "sending"
              /\ drafts'[p.draft].token = p.lease
              /\ OthersKept(p.draft)
    PROVE  IInv'
<1>1. SweepTypeOK' /\ sweeper'[s] = p /\ \A o \in Sweeper \ {s} : sweeper'[o] = sweeper[o]
  BY DEF IInv, TypeOK, SweepTypeOK
<1>2. /\ \A o \in Sweeper \ {s} : SameSweeper(o)
      /\ \A c \in Sender : SameSender(c)
      /\ \A m \in Syncer : SameSyncer(m)
  BY <1>1 DEF SameSweeper, SameSender, SameSyncer
<1>3. ClaimsExclude'
  <2>1. CASE /\ p.lease = sweeper[s].lease
             /\ p.draft = sweeper[s].draft
             /\ \A d \in Draft : Free(d) \/ KeepsClaim(d)
    BY <1>1, <1>2, <2>1, LeasesKept DEF IInv, SameSweeper
  <2>2. CASE /\ p.lease = NoToken
             /\ \A d \in Draft : Free(d) \/ KeepsClaim(d) \/ SweepHolds(s, d)
    BY <1>1, <1>2, <2>2, SweeperReleases DEF IInv
  <2>3. CASE /\ sweeper[s].lease = NoToken
             /\ p.draft \in Draft
             /\ Free(p.draft)
             /\ drafts'[p.draft].status = "sending"
             /\ drafts'[p.draft].token = p.lease
             /\ OthersKept(p.draft)
    BY <1>1, <1>2, <2>3, SweeperClaims DEF IInv
  <2> QED
    BY <2>1, <2>2, <2>3
<1>4. \A o \in Sweeper : SweeperOK(sweeper'[o])
  BY <1>1 DEF IInv, LocalsOK
<1>5. LocalsOK'
  BY <1>4 DEF IInv, LocalsOK, cockpitVars
<1>6. ImmediateTypeOK' /\ SyncTypeOK' /\ CockpitTypeOK'
  BY DEF IInv, TypeOK, ImmediateTypeOK, SyncTypeOK, CockpitTypeOK, cockpitVars
<1> QED
  BY <1>1, <1>3, <1>5, <1>6 DEF IInv, TypeOK, StoreOK

LEMMA AfterOK ==
    ASSUME NEW todo \in SUBSET (Draft \X Rev)
    PROVE  After(todo) \in SweeperState /\ SweeperOK(After(todo)) /\ After(todo).lease = NoToken
BY DEF After, Idle, SweeperState, SweeperOK, Gate

\* A sweep that goes on with the next draft has released, parked or abandoned
\* the one it held.
LEMMA SweeperMovesOn ==
    ASSUME IInv, NEW s \in Sweeper, sweeper[s].lease # NoToken, NextDraft(s),
           UNCHANGED <<sender, syncer, cockpitVars>>,
           StoreOK', OthersKept(sweeper[s].draft), MailServerTypeOK'
    PROVE  IInv'
<1>1. sweeper[s] \in SweeperState
  BY DEF IInv, TypeOK, SweepTypeOK
<1>2. sweeper[s].todo \in SUBSET (Draft \X Rev)
  BY <1>1 DEF SweeperState
<1>3. sweeper' = [sweeper EXCEPT ![s] = After(sweeper[s].todo)]
  BY DEF NextDraft
<1>4. \A d \in Draft : Free(d) \/ KeepsClaim(d) \/ SweepHolds(s, d)
  BY DEF OthersKept, KeepsClaim, SweepHolds
<1> QED
  BY <1>2, <1>3, <1>4, AfterOK, SweeperResult

\* Every step of a sweep keeps the invariant.
LEMMA SweepingOK ==
    ASSUME IInv, Sweeping
    PROVE  IInv'
<1>1. PICK s \in Sweeper : SweeperStep(s) /\ UNCHANGED <<sender, syncer, cockpitVars>>
  BY DEF Sweeping
<1>2. StoreOK /\ MailServerTypeOK
  BY DEF IInv, TypeOK, StoreOK
<1>3. sweeper \in [Sweeper -> SweeperState] /\ sweeper[s] \in SweeperState /\ SweeperOK(sweeper[s])
  BY DEF IInv, TypeOK, SweepTypeOK, LocalsOK
<1> DEFINE d == sweeper[s].draft
           t == sweeper[s].lease
           snap == sweeper[s].snap
\* Steps that leave tables and lease alone.
<1>4. ASSUME NEW p \in SweeperState, SweeperOK(p), sweeper' = [sweeper EXCEPT ![s] = p],
             UNCHANGED storeVars, MailServerTypeOK',
             p.lease = NoToken \/ (p.lease = t /\ p.draft = d)
      PROVE  IInv'
  BY <1>1, <1>2, <1>4, StoreUnchanged, SweeperResult
\* Steps that end a claim.
<1>5. ASSUME t # NoToken, NextDraft(s), StoreOK', OthersKept(d), UNCHANGED mailVars
      PROVE  IInv'
  BY <1>1, <1>2, <1>5, MailUnchanged, SweeperMovesOn
<1>6. ASSUME t # NoToken, Stranded(s), UNCHANGED mailVars
      PROVE  IInv'
  <2>1. d \in Draft
    BY <1>3, <1>6 DEF SweeperOK
  <2> QED
    BY <1>2, <1>5, <1>6, <2>1, StoreUnchanged DEF Stranded
<1>7. CASE Scan(s)
  <2> DEFINE todo == {<<e, drafts[e].rev>> : e \in DueForSend}
  <2>1. todo \in SUBSET (Draft \X Rev)
    BY <1>2 DEF StoreOK, DraftStoreTypeOK, Row, DueForSend
  <2> QED
    BY <1>2, <1>4, <1>7, <2>1, AfterOK, MailUnchanged DEF Scan
<1>8. ASSUME NEW e \in Draft, NEW rev \in Rev, ClaimWon(s, e, rev)
      PROVE  IInv'
  <2>1. PICK u \in Token :
          /\ ClaimForSending(e, rev, u)
          /\ sweeper' = [sweeper EXCEPT
                ![s] = [Idle EXCEPT !.pc = "claimed", !.todo = sweeper[s].todo \ {<<e, rev>>},
                                    !.draft = e, !.lease = u]]
    BY <1>8 DEF ClaimWon
  <2> DEFINE p == [Idle EXCEPT !.pc = "claimed", !.todo = sweeper[s].todo \ {<<e, rev>>},
                               !.draft = e, !.lease = u]
  <2>2. p \in SweeperState /\ SweeperOK(p) /\ p.lease = u /\ p.draft = e
    BY <1>3, NoTokenAssumption DEF Idle, SweeperState, SweeperOK, Gate
  <2>3. t = NoToken
    BY <1>3, <1>8 DEF ClaimWon, SweeperOK
  <2>4. MailServerTypeOK'
    BY <1>2, <1>8, MailUnchanged DEF ClaimWon
  <2>5. /\ StoreOK' /\ OthersKept(e) /\ Free(e)
        /\ drafts'[e].status = "sending" /\ drafts'[e].token = u
    BY <1>2, <2>1, ClaimForSending_Row
  <2>6. sweeper' = [sweeper EXCEPT ![s] = p]
    BY <2>1
  <2> HIDE DEF p
  <2> QED
    BY <1>1, <2>2, <2>3, <2>4, <2>5, <2>6, SweeperResult
<1>9. ASSUME NEW e \in Draft, NEW rev \in Rev, ClaimLost(s, e, rev)
      PROVE  IInv'
  <2> DEFINE todo == sweeper[s].todo \ {<<e, rev>>}
  <2>1. todo \in SUBSET (Draft \X Rev)
    BY <1>3 DEF SweeperState
  <2> QED
    BY <1>2, <1>4, <1>9, <2>1, AfterOK, MailUnchanged DEF ClaimLost
<1>10. CASE Reload(s)
  <2> DEFINE p == [sweeper[s] EXCEPT !.pc = "loaded", !.snap = drafts[d]]
  <2>1. d \in Draft /\ t # NoToken
    BY <1>3, <1>10 DEF Reload, SweeperOK
  <2>2. drafts[d] \in Row
    BY <1>2, <2>1 DEF StoreOK, DraftStoreTypeOK
  <2>3. p \in SweeperState /\ SweeperOK(p) /\ p.lease = t /\ p.draft = d
    BY <1>3, <2>1, <2>2 DEF SweeperState, SweeperOK
  <2>4. sweeper' = [sweeper EXCEPT ![s] = p]
    BY <1>3, <1>10 DEF Reload
  <2> QED
    BY <1>2, <1>4, <1>10, <2>3, <2>4, MailUnchanged DEF Reload
<1>11. CASE ReloadFailed(s)
  <2>1. d \in Draft /\ t # NoToken
    BY <1>3, <1>11 DEF ReloadFailed, SweeperOK
  <2>2. CASE ReleaseSending(d, t, "draft") /\ NextDraft(s)
    BY <1>2, <1>5, <1>11, <2>1, <2>2, ReleaseSending_Row DEF ReloadFailed
  <2> QED
    BY <1>6, <1>11, <2>1, <2>2 DEF ReloadFailed
<1>12. CASE PrepareFailed(s)
  <2>1. d \in Draft /\ t # NoToken
    BY <1>3, <1>12 DEF PrepareFailed, SweeperOK
  <2>2. ASSUME NEW to \in {"draft", "blocked"}, ReleaseSending(d, t, to), NextDraft(s)
        PROVE  IInv'
    BY <1>2, <1>5, <1>12, <2>1, <2>2, ReleaseSending_Row DEF PrepareFailed
  <2> QED
    BY <1>6, <1>12, <2>1, <2>2 DEF PrepareFailed
<1>13. CASE PassGate(s)
  <2> DEFINE gate == IF HumanSendAuthorized(snap) THEN "human" ELSE "governor"
             p == [sweeper[s] EXCEPT !.pc = "sending", !.gate = gate]
  <2>1. d \in Draft /\ t # NoToken /\ snap \in Row
    BY <1>3, <1>13 DEF PassGate, SweeperOK
  <2>2. p \in SweeperState /\ SweeperOK(p) /\ p.lease = t /\ p.draft = d
    BY <1>3, <2>1 DEF SweeperState, SweeperOK, Gate
  <2>3. sweeper' = [sweeper EXCEPT ![s] = p]
    BY <1>3, <1>13 DEF PassGate
  <2> QED
    BY <1>2, <1>4, <1>13, <2>2, <2>3, MailUnchanged DEF PassGate
<1>14. CASE AttributionRefused(s)
  <2>1. d \in Draft /\ t # NoToken /\ FailedAttempt(snap) \in Declaration
    BY <1>3, <1>14, FailedAttemptOK DEF AttributionRefused, SweeperOK
  <2>2. CASE Stranded(s)
    BY <1>6, <1>14, <2>1, <2>2 DEF AttributionRefused
  <2>3. CASE /\ \/ ParkForReview(d, t)
                \/ ParkAttributionExhausted(d, t, FailedAttempt(snap))
                \/ DeferAttributionRetry(d, t, FailedAttempt(snap))
             /\ NextDraft(s)
    BY <1>2, <1>5, <1>14, <2>1, <2>3, ParkForReview_Row, ParkAttributionExhausted_Row,
       DeferAttributionRetry_Row DEF AttributionRefused
  <2> QED
    BY <1>14, <2>2, <2>3 DEF AttributionRefused
<1>15. CASE GovernorRefused(s)
  <2>1. d \in Draft /\ t # NoToken
    BY <1>3, <1>15 DEF GovernorRefused, SweeperOK
  <2>2. CASE (ParkForReview(d, t) \/ ReleaseSending(d, t, "draft")) /\ NextDraft(s)
    BY <1>2, <1>5, <1>15, <2>1, <2>2, ParkForReview_Row, ReleaseSending_Row DEF GovernorRefused
  <2> QED
    BY <1>6, <1>15, <2>1, <2>2 DEF GovernorRefused
<1>16. CASE Transmit(s) \/ TransmitInconclusive(s)
  <2>1. d \in Draft /\ t # NoToken /\ snap.content \in Rev /\ sweeper[s].gate \in {"human", "governor"}
    BY <1>3, <1>16 DEF Transmit, TransmitInconclusive, SweeperOK, SweeperState, Gate, Row
  <2>2. MailServerTypeOK'
    BY <1>2, <1>16, <2>1, AcceptOK, MailUnchanged DEF Transmit, TransmitInconclusive
  <2>3. PICK pc \in {"accepted", "uncertain"} : sweeper' = [sweeper EXCEPT ![s].pc = pc]
    BY <1>16 DEF Transmit, TransmitInconclusive
  <2> DEFINE p == [sweeper[s] EXCEPT !.pc = pc]
  <2>4. p \in SweeperState /\ SweeperOK(p) /\ p.lease = t /\ p.draft = d
    BY <1>3, <1>16, <2>1 DEF SweeperState, SweeperOK, Transmit, TransmitInconclusive
  <2>5. sweeper' = [sweeper EXCEPT ![s] = p]
    BY <1>3, <2>3
  <2> QED
    BY <1>4, <1>16, <2>2, <2>4, <2>5 DEF Transmit, TransmitInconclusive
<1>17. CASE RecordSent(s)
  <2> DEFINE p == [sweeper[s] EXCEPT !.pc = "cleanup", !.lease = NoToken]
  <2>1. d \in Draft /\ t # NoToken
    BY <1>3, <1>17 DEF RecordSent, SweeperOK
  <2>2. p \in SweeperState /\ SweeperOK(p) /\ p.lease = NoToken
    BY <1>3, <2>1 DEF SweeperState, SweeperOK
  <2>3. sweeper' = [sweeper EXCEPT ![s] = p]
    BY <1>3, <1>17 DEF RecordSent
  <2>4. StoreOK' /\ OthersKept(d)
    BY <1>2, <1>17, <2>1, MarkSent_Row DEF RecordSent
  <2>5. \A e \in Draft : Free(e) \/ KeepsClaim(e) \/ SweepHolds(s, e)
    BY <2>1, <2>4 DEF OthersKept, KeepsClaim, SweepHolds
  <2>6. MailServerTypeOK'
    BY <1>2, <1>17, MailUnchanged DEF RecordSent
  <2> QED
    BY <1>1, <2>2, <2>3, <2>4, <2>5, <2>6, SweeperResult
<1>18. CASE RecordSentFailed(s) \/ ParkUncertain(s)
  <2>1. d \in Draft /\ t # NoToken
    BY <1>3, <1>18 DEF RecordSentFailed, ParkUncertain, SweeperOK
  <2>2. CASE ParkDeliveryUncertain(d, t) /\ NextDraft(s)
    BY <1>2, <1>5, <1>18, <2>1, <2>2, ParkDeliveryUncertain_Row DEF RecordSentFailed, ParkUncertain
  <2> QED
    BY <1>6, <1>18, <2>1, <2>2 DEF RecordSentFailed, ParkUncertain
<1>19. CASE Cleanup(s)
  <2>1. d \in Draft
    BY <1>3, <1>19 DEF Cleanup, SweeperOK
  <2>2. MailServerTypeOK'
    BY <1>2, <1>19, <2>1, CopiesOK, MailUnchanged DEF Cleanup
  <2>3. sweeper[s].todo \in SUBSET (Draft \X Rev)
    BY <1>3 DEF SweeperState
  <2> QED
    BY <1>4, <1>19, <2>2, <2>3, AfterOK DEF Cleanup, NextDraft
<1>20. CASE SweeperCrash(s)
  <2>1. Idle \in SweeperState /\ SweeperOK(Idle) /\ Idle.lease = NoToken
    BY DEF Idle, SweeperState, SweeperOK, Gate
  <2> QED
    BY <1>2, <1>4, <1>20, <2>1, MailUnchanged DEF SweeperCrash
<1> QED
  BY <1>1, <1>7, <1>8, <1>9, <1>10, <1>11, <1>12, <1>13, <1>14, <1>15, <1>16, <1>17,
     <1>18, <1>19, <1>20 DEF SweeperStep

-----------------------------------------------------------------------------
(* Immediate sends.                                                        *)

\* The counterpart of SweeperResult.
LEMMA SenderResult ==
    ASSUME IInv, NEW c \in Sender, NEW p \in SenderState, SenderOK(p),
           sender' = [sender EXCEPT ![c] = p],
           UNCHANGED <<sweeper, syncer, cockpitVars>>,
           StoreOK', MailServerTypeOK',
           \/ /\ p.lease = sender[c].lease
              /\ p.draft = sender[c].draft
              /\ \A d \in Draft : Free(d) \/ KeepsClaim(d)
           \/ /\ p.lease = NoToken
              /\ \A d \in Draft : Free(d) \/ KeepsClaim(d) \/ SenderHolds(c, d)
           \/ /\ sender[c].lease = NoToken
              /\ p.draft \in Draft
              /\ Free(p.draft)
              /\ drafts'[p.draft].status = "sending"
              /\ drafts'[p.draft].token = p.lease
              /\ OthersKept(p.draft)
    PROVE  IInv'
<1>1. ImmediateTypeOK' /\ sender'[c] = p /\ \A o \in Sender \ {c} : sender'[o] = sender[o]
  BY DEF IInv, TypeOK, ImmediateTypeOK
<1>2. /\ \A s \in Sweeper : SameSweeper(s)
      /\ \A o \in Sender \ {c} : SameSender(o)
      /\ \A m \in Syncer : SameSyncer(m)
  BY <1>1 DEF SameSweeper, SameSender, SameSyncer
<1>3. ClaimsExclude'
  <2>1. CASE /\ p.lease = sender[c].lease
             /\ p.draft = sender[c].draft
             /\ \A d \in Draft : Free(d) \/ KeepsClaim(d)
    BY <1>1, <1>2, <2>1, LeasesKept DEF IInv, SameSender
  <2>2. CASE /\ p.lease = NoToken
             /\ \A d \in Draft : Free(d) \/ KeepsClaim(d) \/ SenderHolds(c, d)
    BY <1>1, <1>2, <2>2, SenderReleases DEF IInv
  <2>3. CASE /\ sender[c].lease = NoToken
             /\ p.draft \in Draft
             /\ Free(p.draft)
             /\ drafts'[p.draft].status = "sending"
             /\ drafts'[p.draft].token = p.lease
             /\ OthersKept(p.draft)
    BY <1>1, <1>2, <2>3, SenderClaims DEF IInv
  <2> QED
    BY <2>1, <2>2, <2>3
<1>4. \A o \in Sender : SenderOK(sender'[o])
  BY <1>1 DEF IInv, LocalsOK
<1>5. LocalsOK'
  BY <1>4 DEF IInv, LocalsOK, cockpitVars
<1>6. SweepTypeOK' /\ SyncTypeOK' /\ CockpitTypeOK'
  BY DEF IInv, TypeOK, SweepTypeOK, SyncTypeOK, CockpitTypeOK, cockpitVars
<1> QED
  BY <1>1, <1>3, <1>5, <1>6 DEF IInv, TypeOK, StoreOK

\* Every step of an immediate send keeps the invariant.
LEMMA SendingNowOK ==
    ASSUME IInv, SendingNow
    PROVE  IInv'
<1>1. PICK c \in Sender : SenderStep(c) /\ UNCHANGED <<sweeper, syncer, cockpitVars>>
  BY DEF SendingNow
<1>2. StoreOK /\ MailServerTypeOK
  BY DEF IInv, TypeOK, StoreOK
<1>3. sender \in [Sender -> SenderState] /\ sender[c] \in SenderState /\ SenderOK(sender[c])
  BY DEF IInv, TypeOK, ImmediateTypeOK, LocalsOK
<1> DEFINE d == sender[c].draft
           t == sender[c].lease
\* Steps that leave the table and the lease alone.
<1>4. ASSUME NEW p \in SenderState, SenderOK(p), sender' = [sender EXCEPT ![c] = p],
             UNCHANGED storeVars, MailServerTypeOK',
             p.lease = NoToken \/ (p.lease = t /\ p.draft = d)
      PROVE  IInv'
  BY <1>1, <1>2, <1>4, StoreUnchanged, SenderResult
<1>5. NotSending \in SenderState /\ SenderOK(NotSending) /\ NotSending.lease = NoToken
  BY DEF NotSending, SenderState, SenderOK, RevOrNone
\* Steps that end a claim, with or without a word to the row.
<1>6. ASSUME NEW p \in SenderState, SenderOK(p), sender' = [sender EXCEPT ![c] = p],
             t # NoToken, p.lease = NoToken, StoreOK', OthersKept(d), UNCHANGED mailVars
      PROVE  IInv'
  <2>1. \A e \in Draft : Free(e) \/ KeepsClaim(e) \/ SenderHolds(c, e)
    BY <1>6 DEF OthersKept, KeepsClaim, SenderHolds
  <2> QED
    BY <1>1, <1>2, <1>6, <2>1, MailUnchanged, SenderResult
\* Steps that only move the control point.
<1>7. ASSUME NEW pc \in {"bail", "sending", "accepted"}, SenderAt(c, pc),
             sender[c].pc \notin {"idle", "read", "cleanup"},
             pc = "sending" => sender[c].pc = "loaded",
             UNCHANGED storeVars, MailServerTypeOK'
      PROVE  IInv'
  <2> DEFINE p == [sender[c] EXCEPT !.pc = pc]
  <2>1. p \in SenderState /\ SenderOK(p) /\ p.lease = t /\ p.draft = d
    BY <1>3, <1>7 DEF SenderState, SenderOK
  <2>2. sender' = [sender EXCEPT ![c] = p]
    BY <1>3, <1>7 DEF SenderAt
  <2> HIDE DEF p
  <2> QED
    BY <1>4, <1>7, <2>1, <2>2
<1>8. ASSUME NEW e \in Draft, ReadDraft(c, e)
      PROVE  IInv'
  <2> DEFINE p == [NotSending EXCEPT !.pc = "read", !.draft = e, !.rev = drafts[e].rev,
                                     !.uid = drafts[e].imapUid]
  <2>1. p \in SenderState /\ SenderOK(p) /\ p.lease = NoToken
    BY <1>2 DEF NotSending, SenderState, SenderOK, RevOrNone, StoreOK, DraftStoreTypeOK, Row
  <2>2. sender' = [sender EXCEPT ![c] = p]
    BY <1>8 DEF ReadDraft
  <2> HIDE DEF p
  <2> QED
    BY <1>2, <1>4, <1>8, <2>1, <2>2, MailUnchanged DEF ReadDraft
<1>9. CASE ImmediateClaim(c)
  <2>1. PICK u \in Token :
          /\ ClaimForImmediateSend(d, sender[c].rev, u)
          /\ sender' = [sender EXCEPT ![c].pc = "claimed", ![c].lease = u]
    BY <1>9 DEF ImmediateClaim
  <2> DEFINE p == [sender[c] EXCEPT !.pc = "claimed", !.lease = u]
  <2>2. t = NoToken /\ d \in Draft
    BY <1>3, <1>9 DEF ImmediateClaim, SenderOK
  <2>3. p \in SenderState /\ SenderOK(p) /\ p.lease = u /\ p.draft = d
    BY <1>3, <2>2, NoTokenAssumption DEF SenderState, SenderOK
  <2>4. sender' = [sender EXCEPT ![c] = p]
    BY <1>3, <2>1
  <2>5. MailServerTypeOK'
    BY <1>2, <1>9, MailUnchanged DEF ImmediateClaim
  <2>6. /\ StoreOK' /\ OthersKept(d) /\ Free(d)
        /\ drafts'[d].status = "sending" /\ drafts'[d].token = u
    BY <1>2, <2>1, <2>2, ClaimForImmediateSend_Row
  <2> HIDE DEF p
  <2> QED
    BY <1>1, <2>2, <2>3, <2>4, <2>5, <2>6, SenderResult
<1>10. CASE ImmediateClaimLost(c) \/ SenderCrash(c)
  BY <1>2, <1>4, <1>5, <1>10, MailUnchanged DEF ImmediateClaimLost, SenderCrash, FinishSend
<1>11. CASE ReloadClaimed(c)
  <2> DEFINE p == [sender[c] EXCEPT !.pc = "reloaded", !.local = drafts[d].content]
  <2>1. t # NoToken /\ d \in Draft
    BY <1>3, <1>11 DEF ReloadClaimed, SenderOK
  <2>2. drafts[d].content \in Rev
    BY <1>2, <2>1 DEF StoreOK, DraftStoreTypeOK, Row
  <2>3. p \in SenderState /\ SenderOK(p) /\ p.lease = t /\ p.draft = d
    BY <1>3, <2>1, <2>2 DEF SenderState, SenderOK, RevOrNone
  <2>4. sender' = [sender EXCEPT ![c] = p]
    BY <1>3, <1>11 DEF ReloadClaimed
  <2> HIDE DEF p
  <2> QED
    BY <1>2, <1>4, <1>11, <2>3, <2>4, MailUnchanged DEF ReloadClaimed
<1>12. CASE LoadContent(c)
  <2> DEFINE content == IF sender[c].uid = NoRev THEN sender[c].local ELSE sender[c].uid
             p == [sender[c] EXCEPT !.pc = "loaded", !.content = content]
  <2>1. t # NoToken /\ d \in Draft /\ sender[c].local \in Rev
    BY <1>3, <1>12 DEF LoadContent, SenderOK
  <2>2. content \in Rev
    BY <1>3, <2>1 DEF SenderState, RevOrNone
  <2>3. p \in SenderState /\ SenderOK(p) /\ p.lease = t /\ p.draft = d
    BY <1>3, <2>1, <2>2 DEF SenderState, SenderOK, RevOrNone
  <2>4. sender' = [sender EXCEPT ![c] = p]
    BY <1>3, <1>12 DEF LoadContent
  <2> HIDE DEF p
  <2> QED
    BY <1>2, <1>4, <1>12, <2>3, <2>4, MailUnchanged DEF LoadContent
<1>13. CASE LoadFailed(c) \/ PassImmediateGate(c) \/ RefusedImmediately(c)
  BY <1>2, <1>7, <1>13, MailUnchanged DEF LoadFailed, PassImmediateGate, RefusedImmediately
<1>14. CASE TransmitNow(c) \/ TransmitNowFailed(c)
  <2>1. d \in Draft /\ sender[c].content \in Rev
    BY <1>3, <1>14 DEF TransmitNow, TransmitNowFailed, SenderOK
  <2>2. MailServerTypeOK'
    BY <1>2, <1>14, <2>1, AcceptOK, MailUnchanged DEF TransmitNow, TransmitNowFailed
  <2> QED
    BY <1>7, <1>14, <2>2 DEF TransmitNow, TransmitNowFailed
<1>15. CASE Bail(c)
  <2>1. t # NoToken /\ d \in Draft
    BY <1>3, <1>15 DEF Bail, SenderOK
  <2>2. StoreOK' /\ OthersKept(d)
    BY <1>2, <1>15, <2>1, ReleaseSending_Row, StoreUnchanged DEF Bail
  <2> QED
    BY <1>5, <1>6, <1>15, <2>1, <2>2 DEF Bail, FinishSend
<1>16. CASE RecordSentNow(c)
  <2>1. t # NoToken /\ d \in Draft
    BY <1>3, <1>16 DEF RecordSentNow, SenderOK
  <2>2. StoreOK' /\ OthersKept(d)
    BY <1>2, <1>16, <2>1, MarkSent_Row, ParkDeliveryUncertain_Row, StoreUnchanged DEF RecordSentNow
  <2>3. CASE FinishSend(c)
    BY <1>5, <1>6, <1>16, <2>1, <2>2, <2>3 DEF RecordSentNow, FinishSend
  <2>4. CASE sender' = [sender EXCEPT ![c].pc = "cleanup", ![c].lease = NoToken]
    <3> DEFINE p == [sender[c] EXCEPT !.pc = "cleanup", !.lease = NoToken]
    <3>1. p \in SenderState /\ SenderOK(p) /\ p.lease = NoToken
      BY <1>3, <2>1 DEF SenderState, SenderOK
    <3>2. sender' = [sender EXCEPT ![c] = p]
      BY <1>3, <2>4
    <3> HIDE DEF p
    <3> QED
      BY <1>6, <1>16, <2>1, <2>2, <3>1, <3>2 DEF RecordSentNow
  <2> QED
    BY <1>16, <2>3, <2>4 DEF RecordSentNow
<1>17. CASE CleanupNow(c)
  <2>1. d \in Draft
    BY <1>3, <1>17 DEF CleanupNow, SenderOK
  <2>2. MailServerTypeOK'
    BY <1>2, <1>17, <2>1, CopiesOK, MailUnchanged DEF CleanupNow
  <2> QED
    BY <1>4, <1>5, <1>17, <2>2 DEF CleanupNow, FinishSend
<1> QED
  BY <1>1, <1>8, <1>9, <1>10, <1>11, <1>12, <1>13, <1>14, <1>15, <1>16, <1>17 DEF SenderStep

-----------------------------------------------------------------------------
(* Modify and discard commands, and the repair of a UID.                   *)

\* The counterpart of SweeperResult.
LEMMA SyncerResult ==
    ASSUME IInv, NEW m \in Syncer, NEW p \in SyncerState, SyncerOK(p),
           syncer' = [syncer EXCEPT ![m] = p],
           UNCHANGED <<sweeper, sender, cockpitVars>>,
           StoreOK', MailServerTypeOK',
           \/ /\ p.lease = syncer[m].lease
              /\ p.draft = syncer[m].draft
              /\ \A d \in Draft : Free(d) \/ KeepsClaim(d)
           \/ /\ p.lease = NoToken
              /\ \A d \in Draft : Free(d) \/ KeepsClaim(d) \/ SyncerHolds(m, d)
           \/ /\ syncer[m].lease = NoToken
              /\ p.draft \in Draft
              /\ Free(p.draft)
              /\ drafts'[p.draft].status = "syncing"
              /\ drafts'[p.draft].token = p.lease
              /\ OthersKept(p.draft)
    PROVE  IInv'
<1>1. SyncTypeOK' /\ syncer'[m] = p /\ \A o \in Syncer \ {m} : syncer'[o] = syncer[o]
  BY DEF IInv, TypeOK, SyncTypeOK
<1>2. /\ \A s \in Sweeper : SameSweeper(s)
      /\ \A c \in Sender : SameSender(c)
      /\ \A o \in Syncer \ {m} : SameSyncer(o)
  BY <1>1 DEF SameSweeper, SameSender, SameSyncer
<1>3. ClaimsExclude'
  <2>1. CASE /\ p.lease = syncer[m].lease
             /\ p.draft = syncer[m].draft
             /\ \A d \in Draft : Free(d) \/ KeepsClaim(d)
    BY <1>1, <1>2, <2>1, LeasesKept DEF IInv, SameSyncer
  <2>2. CASE /\ p.lease = NoToken
             /\ \A d \in Draft : Free(d) \/ KeepsClaim(d) \/ SyncerHolds(m, d)
    BY <1>1, <1>2, <2>2, SyncerReleases DEF IInv
  <2>3. CASE /\ syncer[m].lease = NoToken
             /\ p.draft \in Draft
             /\ Free(p.draft)
             /\ drafts'[p.draft].status = "syncing"
             /\ drafts'[p.draft].token = p.lease
             /\ OthersKept(p.draft)
    BY <1>1, <1>2, <2>3, SyncerClaims DEF IInv
  <2> QED
    BY <2>1, <2>2, <2>3
<1>4. \A o \in Syncer : SyncerOK(syncer'[o])
  BY <1>1 DEF IInv, LocalsOK
<1>5. LocalsOK'
  BY <1>4 DEF IInv, LocalsOK, cockpitVars
<1>6. SweepTypeOK' /\ ImmediateTypeOK' /\ CockpitTypeOK'
  BY DEF IInv, TypeOK, SweepTypeOK, ImmediateTypeOK, CockpitTypeOK, cockpitVars
<1> QED
  BY <1>1, <1>3, <1>5, <1>6 DEF IInv, TypeOK, StoreOK

\* Every step of one of these commands keeps the invariant.
LEMMA SyncingOK ==
    ASSUME IInv, Syncing
    PROVE  IInv'
<1>1. PICK m \in Syncer : SyncerStep(m) /\ UNCHANGED <<sweeper, sender, cockpitVars>>
  BY DEF Syncing
<1>2. StoreOK /\ MailServerTypeOK
  BY DEF IInv, TypeOK, StoreOK
<1>3. syncer \in [Syncer -> SyncerState] /\ syncer[m] \in SyncerState /\ SyncerOK(syncer[m])
  BY DEF IInv, TypeOK, SyncTypeOK, LocalsOK
<1>a. \A d \in Draft : drafts[d] \in Row
  BY <1>2 DEF StoreOK, DraftStoreTypeOK
<1> DEFINE d == syncer[m].draft
           t == syncer[m].lease
           snap == syncer[m].snap
\* Steps that keep the lease, or have none.
<1>4. ASSUME NEW p \in SyncerState, SyncerOK(p), syncer' = [syncer EXCEPT ![m] = p],
             StoreOK', \A e \in Draft : Free(e) \/ KeepsClaim(e), MailServerTypeOK',
             p.lease = NoToken \/ (p.lease = t /\ p.draft = d)
      PROVE  IInv'
  BY <1>1, <1>4, SyncerResult
<1>5. NotSyncing \in SyncerState /\ SyncerOK(NotSyncing) /\ NotSyncing.lease = NoToken
  BY DEF NotSyncing, SyncerState, SyncerOK, RevOrNone
<1>6. ASSUME UNCHANGED storeVars
      PROVE  StoreOK' /\ (\A e \in Draft : Free(e) \/ KeepsClaim(e))
  BY <1>2, <1>6, StoreUnchanged
<1>7. ASSUME UNCHANGED mailVars
      PROVE  MailServerTypeOK'
  BY <1>2, <1>7, MailUnchanged
\* Steps under the lease that only move the control point.
<1>8. ASSUME NEW pc \in {"edited", "cleared", "final", "release"}, SyncerAt(m, pc), t # NoToken,
             StoreOK', \A e \in Draft : Free(e) \/ KeepsClaim(e), MailServerTypeOK'
      PROVE  IInv'
  <2> DEFINE p == [syncer[m] EXCEPT !.pc = pc]
  <2>1. p \in SyncerState /\ SyncerOK(p) /\ p.lease = t /\ p.draft = d
    BY <1>3, <1>8 DEF SyncerState, SyncerOK
  <2>2. syncer' = [syncer EXCEPT ![m] = p]
    BY <1>3, <1>8 DEF SyncerAt
  <2> HIDE DEF p
  <2> QED
    BY <1>4, <1>8, <2>1, <2>2
<1>9. ASSUME NEW e \in Draft, ReadForModify(m, e)
      PROVE  IInv'
  <2> DEFINE p == [NotSyncing EXCEPT !.pc = "read", !.draft = e, !.snap = drafts[e]]
  <2>1. p \in SyncerState /\ SyncerOK(p) /\ p.lease = NoToken
    BY <1>a DEF NotSyncing, SyncerState, SyncerOK, RevOrNone
  <2>2. syncer' = [syncer EXCEPT ![m] = p]
    BY <1>9 DEF ReadForModify
  <2> HIDE DEF p
  <2> QED
    BY <1>4, <1>6, <1>7, <1>9, <2>1, <2>2 DEF ReadForModify
<1>10. CASE SyncClaim(m)
  <2>1. PICK u \in Token :
          /\ ClaimForSync(d, snap.rev, u)
          /\ syncer' = [syncer EXCEPT ![m].pc = "claimed", ![m].lease = u,
                                      ![m].prior = drafts[d].status]
    BY <1>10 DEF SyncClaim
  <2> DEFINE p == [syncer[m] EXCEPT !.pc = "claimed", !.lease = u, !.prior = drafts[d].status]
  <2>2. t = NoToken /\ d \in Draft /\ snap \in Row
    BY <1>3, <1>10 DEF SyncClaim, SyncerOK
  <2>3. drafts[d].status \in Editable
    BY <2>1 DEF ClaimForSync, SyncClaimable
  <2>4. p \in SyncerState /\ SyncerOK(p) /\ p.lease = u /\ p.draft = d
    BY <1>3, <2>2, <2>3, NoTokenAssumption DEF SyncerState, SyncerOK
  <2>5. syncer' = [syncer EXCEPT ![m] = p]
    BY <1>3, <2>1
  <2>6. MailServerTypeOK'
    BY <1>7, <1>10 DEF SyncClaim
  <2>7. /\ StoreOK' /\ OthersKept(d) /\ Free(d)
        /\ drafts'[d].status = "syncing" /\ drafts'[d].token = u
    BY <1>2, <2>1, <2>2, ClaimForSync_Row
  <2> HIDE DEF p
  <2> QED
    BY <1>1, <2>2, <2>4, <2>5, <2>6, <2>7, SyncerResult
<1>11. CASE SyncClaimLost(m) \/ SyncerCrash(m)
  BY <1>4, <1>5, <1>6, <1>7, <1>11 DEF SyncClaimLost, SyncerCrash, FinishSync
<1>12. CASE ApplyEdit(m)
  <2>1. t # NoToken /\ d \in Draft /\ snap \in Row
    BY <1>3, <1>12 DEF ApplyEdit, SyncerOK
  <2>2. StoreOK' /\ \A e \in Draft : Free(e) \/ KeepsClaim(e)
    BY <1>2, <1>12, <2>1, ApplySyncedEdit_Row DEF ApplyEdit, OthersKept, KeepsClaim
  <2> QED
    BY <1>7, <1>8, <1>12, <2>1, <2>2 DEF ApplyEdit
<1>13. CASE ClearOldCopies(m)
  <2>1. t # NoToken /\ d \in Draft
    BY <1>3, <1>13 DEF ClearOldCopies, SyncerOK
  <2>2. MailServerTypeOK'
    BY <1>2, <1>13, <2>1, CopiesOK, MailUnchanged DEF ClearOldCopies
  <2>3. CASE SyncerAt(m, "cleared")
    BY <1>6, <1>8, <1>13, <2>1, <2>2, <2>3 DEF ClearOldCopies
  <2>4. CASE syncer' = [syncer EXCEPT ![m].pc = "cleared", ![m].cleared = TRUE]
    <3> DEFINE p == [syncer[m] EXCEPT !.pc = "cleared", !.cleared = TRUE]
    <3>1. p \in SyncerState /\ SyncerOK(p) /\ p.lease = t /\ p.draft = d
      BY <1>3, <2>1 DEF SyncerState, SyncerOK
    <3>2. syncer' = [syncer EXCEPT ![m] = p]
      BY <1>3, <2>4
    <3> HIDE DEF p
    <3> QED
      BY <1>4, <1>6, <1>13, <2>2, <3>1, <3>2 DEF ClearOldCopies
  <2> QED
    BY <1>13, <2>3, <2>4 DEF ClearOldCopies
<1>14. CASE AppendReplacement(m)
  <2>1. t # NoToken /\ d \in Draft
    BY <1>3, <1>14 DEF AppendReplacement, SyncerOK
  <2>2. drafts[d].content \in Rev
    BY <1>a, <2>1 DEF Row
  <2>3. MailServerTypeOK'
    BY <1>2, <1>14, <2>1, <2>2, CopiesOK, MailUnchanged DEF AppendReplacement
  <2>4. CASE SyncerAt(m, "final")
    BY <1>6, <1>8, <1>14, <2>1, <2>3, <2>4 DEF AppendReplacement
  <2>5. ASSUME NEW uid \in {drafts[d].content, syncer[m].uid},
               syncer' = [syncer EXCEPT ![m].pc = "final", ![m].synced = TRUE, ![m].uid = uid]
        PROVE  IInv'
    <3> DEFINE p == [syncer[m] EXCEPT !.pc = "final", !.synced = TRUE, !.uid = uid]
    <3>1. p \in SyncerState /\ SyncerOK(p) /\ p.lease = t /\ p.draft = d
      BY <1>3, <2>1, <2>2 DEF SyncerState, SyncerOK, RevOrNone
    <3>2. syncer' = [syncer EXCEPT ![m] = p]
      BY <1>3, <2>5
    <3> HIDE DEF p
    <3> QED
      BY <1>4, <1>6, <1>14, <2>3, <3>1, <3>2 DEF AppendReplacement
  <2>6. CASE syncer' = [syncer EXCEPT ![m].pc = "final", ![m].synced = TRUE]
    <3>1. syncer' = [syncer EXCEPT ![m].pc = "final", ![m].synced = TRUE,
                                   ![m].uid = syncer[m].uid]
      BY <1>3, <2>6 DEF SyncerState
    <3> QED
      BY <2>5, <3>1
  <2> QED
    BY <1>14, <2>4, <2>5, <2>6 DEF AppendReplacement
<1>15. CASE Finalize(m)
  <2>1. t # NoToken /\ d \in Draft
    BY <1>3, <1>15 DEF Finalize, SyncerOK
  <2>2. syncer[m].uid \in RevOrNone /\ syncer[m].synced \in BOOLEAN
    BY <1>3 DEF SyncerState
  <2>3. StoreOK' /\ \A e \in Draft : Free(e) \/ KeepsClaim(e)
    BY <1>2, <1>15, <2>1, <2>2, FinalizeSynced_Row DEF Finalize, OthersKept, KeepsClaim
  <2> QED
    BY <1>7, <1>8, <1>15, <2>1, <2>3 DEF Finalize
<1>16. CASE ModifyError(m)
  <2>1. t # NoToken
    BY <1>3, <1>16 DEF ModifyError, SyncerOK
  <2> QED
    BY <1>6, <1>7, <1>8, <1>16, <2>1 DEF ModifyError
<1>17. CASE SyncRelease(m)
  <2>1. t # NoToken /\ d \in Draft /\ syncer[m].prior \in Editable
    BY <1>3, <1>17 DEF SyncRelease, SyncerOK
  <2>2. StoreOK' /\ OthersKept(d)
    BY <1>2, <1>17, <2>1, ReleaseSyncing_Row, StoreUnchanged DEF SyncRelease
  <2>3. \A e \in Draft : Free(e) \/ KeepsClaim(e) \/ SyncerHolds(m, e)
    BY <2>1, <2>2 DEF OthersKept, KeepsClaim, SyncerHolds
  <2>4. MailServerTypeOK' /\ syncer' = [syncer EXCEPT ![m] = NotSyncing]
    BY <1>7, <1>17 DEF SyncRelease, FinishSync
  <2> QED
    BY <1>1, <1>5, <2>2, <2>3, <2>4, SyncerResult
<1>18. ASSUME NEW e \in Draft, ReadForDiscard(m, e)
      PROVE  IInv'
  <2> DEFINE p == [NotSyncing EXCEPT !.draft = e, !.uid = drafts[e].imapUid,
                      !.pc = IF drafts[e].imapUid # NoRev THEN "discard" ELSE "discardLocal"]
  <2>1. p \in SyncerState /\ SyncerOK(p) /\ p.lease = NoToken
    BY <1>a DEF NotSyncing, SyncerState, SyncerOK, Row
  <2>2. syncer' = [syncer EXCEPT ![m] = p]
    BY <1>18 DEF ReadForDiscard
  <2> HIDE DEF p
  <2> QED
    BY <1>4, <1>6, <1>7, <1>18, <2>1, <2>2 DEF ReadForDiscard
<1>19. CASE DeleteProviderCopy(m)
  <2>1. d \in Draft /\ t = NoToken
    BY <1>3, <1>19 DEF DeleteProviderCopy, SyncerOK
  <2> DEFINE p == [syncer[m] EXCEPT !.pc = "discardLocal"]
  <2>2. p \in SyncerState /\ SyncerOK(p) /\ p.lease = NoToken
    BY <1>3, <2>1 DEF SyncerState, SyncerOK
  <2>3. syncer' = [syncer EXCEPT ![m] = p]
    BY <1>3, <1>19 DEF DeleteProviderCopy, SyncerAt
  <2>4. MailServerTypeOK'
    BY <1>2, <1>19, <2>1, CopiesOK, MailUnchanged DEF DeleteProviderCopy
  <2> HIDE DEF p
  <2> QED
    BY <1>4, <1>6, <1>19, <2>2, <2>3, <2>4 DEF DeleteProviderCopy
<1>20. CASE DiscardLocal(m) \/ LinkCopy(m)
  <2>1. d \in Draft /\ syncer[m].uid \in RevOrNone
    BY <1>3, <1>20 DEF DiscardLocal, LinkCopy, SyncerOK, SyncerState
  <2>2. StoreOK' /\ \A e \in Draft : Free(e) \/ KeepsClaim(e)
    BY <1>2, <1>6, <1>20, <2>1, DiscardDraft_Row, RelinkUid_Row
       DEF DiscardLocal, LinkCopy, OthersKept, KeepsClaim
  <2> QED
    BY <1>4, <1>5, <1>7, <1>20, <2>2 DEF DiscardLocal, LinkCopy, FinishSync
<1>21. ASSUME NEW e \in Draft, FindCopy(m, e)
      PROVE  IInv'
  <2>1. PICK uid \in copies[e] :
          syncer' = [syncer EXCEPT ![m] = [NotSyncing EXCEPT !.pc = "found",
                                               !.draft = e, !.uid = uid]]
    BY <1>21 DEF FindCopy
  <2> DEFINE p == [NotSyncing EXCEPT !.pc = "found", !.draft = e, !.uid = uid]
  <2>2. uid \in Rev
    BY <1>2, <2>1 DEF MailServerTypeOK
  <2>3. p \in SyncerState /\ SyncerOK(p) /\ p.lease = NoToken
    BY <2>2 DEF NotSyncing, SyncerState, SyncerOK, RevOrNone
  <2>4. syncer' = [syncer EXCEPT ![m] = p]
    BY <2>1
  <2> HIDE DEF p
  <2> QED
    BY <1>4, <1>6, <1>7, <1>21, <2>3, <2>4 DEF FindCopy
<1> QED
  BY <1>1, <1>9, <1>10, <1>11, <1>12, <1>13, <1>14, <1>15, <1>16, <1>17, <1>18, <1>19,
     <1>20, <1>21 DEF SyncerStep

-----------------------------------------------------------------------------
(* The human, the agent and the clock.                                     *)

\* Nobody but the processes holds a lease; everybody else writes free rows.
LEMMA OutsiderResult ==
    ASSUME IInv, UNCHANGED <<sweeper, sender, syncer, mailVars>>,
           StoreOK', \A d \in Draft : Free(d) \/ KeepsClaim(d),
           CockpitTypeOK', \A d \in Draft : PageOK(view'[d]) /\ PageOK(plan'[d])
    PROVE  IInv'
<1>1. SweepTypeOK' /\ ImmediateTypeOK' /\ SyncTypeOK' /\ MailServerTypeOK'
  BY MailUnchanged DEF IInv, TypeOK, SweepTypeOK, ImmediateTypeOK, SyncTypeOK
<1>2. ClaimsExclude'
  BY LeasesKept DEF IInv, SameSweeper, SameSender, SameSyncer
<1>3. LocalsOK'
  BY DEF IInv, LocalsOK
<1> QED
  BY <1>1, <1>2, <1>3 DEF IInv, TypeOK, StoreOK

LEMMA DecidingOK ==
    ASSUME IInv, Deciding
    PROVE  IInv'
<1>1. PICK d \in Draft : (HumanStep(d) \/ AgentStep(d)) /\ UNCHANGED <<sweeper, sender, syncer>>
  BY AttendedAssumption, DelegatedAssumption DEF Deciding
<1>2. StoreOK
  BY DEF IInv, TypeOK, StoreOK
<1>3. /\ view \in [Draft -> Page] /\ plan \in [Draft -> Page]
      /\ ledger \in [Draft -> Decisions]
      /\ \A e \in Draft : PageOK(view[e]) /\ PageOK(plan[e])
      /\ ledger[d] \in Decisions /\ view[d] \in Page /\ plan[d] \in Page
  BY DEF IInv, TypeOK, CockpitTypeOK, LocalsOK
<1>4. drafts[d] \in Row /\ PageOf(drafts[d]) \in Page /\ PageOK(PageOf(drafts[d]))
  BY <1>2 DEF StoreOK, DraftStoreTypeOK, Row, PageOf, Page, PageOK, RevOrNone, Rev, NoRev
\* Only the revision on show can match the row's.
<1>5. /\ view[d].rev = drafts[d].rev => view[d].content \in Rev
      /\ plan[d].rev = drafts[d].rev => plan[d].content \in Rev
  <2>1. drafts[d].rev # NoRev
    BY <1>4 DEF Row, Rev, NoRev
  <2> QED
    BY <1>3, <2>1 DEF Page, PageOK, RevOrNone
\* Steps that write a free row, or none, and the ledger.
<1>6. ASSUME NEW entry \in Decisions, ledger' = [ledger EXCEPT ![d] = entry],
             UNCHANGED <<mailVars, view, plan>>, StoreOK', OthersKept(d), Free(d)
      PROVE  IInv'
  <2>1. \A e \in Draft : Free(e) \/ KeepsClaim(e)
    BY <1>6 DEF OthersKept, KeepsClaim
  <2>2. CockpitTypeOK' /\ \A e \in Draft : PageOK(view'[e]) /\ PageOK(plan'[e])
    BY <1>3, <1>6 DEF CockpitTypeOK
  <2> QED
    BY <1>1, <1>6, <2>1, <2>2, OutsiderResult
<1>7. ASSUME UNCHANGED <<mailVars, view, plan, ledger>>, StoreOK', OthersKept(d), Free(d)
      PROVE  IInv'
  <2>1. ledger' = [ledger EXCEPT ![d] = ledger[d]]
    BY <1>3, <1>7
  <2> QED
    BY <1>3, <1>6, <1>7, <2>1
\* Steps that look at the row.
<1>8. ASSUME UNCHANGED <<storeVars, mailVars, ledger>>,
             \/ view' = [view EXCEPT ![d] = PageOf(drafts[d])] /\ UNCHANGED plan
             \/ plan' = [plan EXCEPT ![d] = PageOf(drafts[d])] /\ UNCHANGED view
      PROVE  IInv'
  <2>1. CockpitTypeOK' /\ \A e \in Draft : PageOK(view'[e]) /\ PageOK(plan'[e])
    BY <1>3, <1>4, <1>8 DEF CockpitTypeOK
  <2> QED
    BY <1>1, <1>2, <1>8, <2>1, StoreUnchanged, OutsiderResult
<1>9. CASE View(d) \/ Precheck(d)
  BY <1>8, <1>9 DEF View, Precheck
<1>10. CASE Approve(d)
  <2> DEFINE entry == [ledger[d] EXCEPT !.approved = @ \cup {view[d].content}]
  <2>1. view[d].content \in Rev
    BY <1>5, <1>10 DEF Approve, ApproveRevision, SyncClaimable
  <2>2. entry \in Decisions
    BY <1>3, <2>1 DEF Decisions
  <2>3. ledger' = [ledger EXCEPT ![d] = entry]
    BY <1>3, <1>10 DEF Approve
  <2>4. StoreOK' /\ OthersKept(d) /\ Free(d)
    BY <1>2, <1>10, ApproveRevision_Row DEF Approve
  <2> HIDE DEF entry
  <2> QED
    BY <1>6, <1>10, <2>2, <2>3, <2>4 DEF Approve
<1>11. ASSUME NEW when \in {"later", "due"}, HumanSend(d, when)
       PROVE  IInv'
  <2> DEFINE entry == [ledger[d] EXCEPT !.approved = @ \cup {view[d].content},
                                        !.sent = view[d].content, !.held = FALSE]
  <2>1. view[d].content \in Rev
    BY <1>5, <1>11 DEF HumanSend, QueueWithHumanSend
  <2>2. entry \in Decisions
    BY <1>3, <2>1 DEF Decisions, RevOrNone
  <2>3. ledger' = [ledger EXCEPT ![d] = entry]
    BY <1>3, <1>11 DEF HumanSend
  <2>4. StoreOK' /\ OthersKept(d) /\ Free(d)
    BY <1>2, <1>11, QueueWithHumanSend_Row DEF HumanSend
  <2> HIDE DEF entry
  <2> QED
    BY <1>6, <1>11, <2>2, <2>3, <2>4 DEF HumanSend
<1>12. CASE Edit(d)
  <2>1. StoreOK' /\ OthersKept(d) /\ Free(d)
    BY <1>2, <1>12, UpdateContent_Row DEF Edit
  <2>2. PageOf(drafts'[d]) \in Page /\ PageOK(PageOf(drafts'[d]))
    BY <2>1 DEF StoreOK, DraftStoreTypeOK, Row, PageOf, Page, PageOK, RevOrNone, Rev, NoRev
  <2>3. CockpitTypeOK' /\ \A e \in Draft : PageOK(view'[e]) /\ PageOK(plan'[e])
    BY <1>3, <1>12, <2>2 DEF CockpitTypeOK, Edit
  <2>4. \A e \in Draft : Free(e) \/ KeepsClaim(e)
    BY <2>1 DEF OthersKept, KeepsClaim
  <2> QED
    BY <1>1, <1>12, <2>1, <2>3, <2>4, OutsiderResult DEF Edit
<1>13. CASE Hold(d)
  <2> DEFINE entry == [ledger[d] EXCEPT !.sent = NoRev, !.held = TRUE]
  <2>1. entry \in Decisions
    BY <1>3 DEF Decisions, RevOrNone
  <2>2. ledger' = [ledger EXCEPT ![d] = entry]
    BY <1>3, <1>13 DEF Hold
  <2>3. StoreOK' /\ OthersKept(d) /\ Free(d)
    BY <1>2, <1>13, HoldScheduled_Row DEF Hold
  <2> HIDE DEF entry
  <2> QED
    BY <1>6, <1>13, <2>1, <2>2, <2>3 DEF Hold
<1>14. CASE Block(d) \/ Discard(d)
  <2>1. StoreOK' /\ OthersKept(d) /\ Free(d)
    BY <1>2, <1>14, UpdateStatus_Row, DiscardDraft_Row DEF Block, Discard, Editable
  <2> QED
    BY <1>7, <1>14, <2>1 DEF Block, Discard
<1>15. CASE RetryWithContext(d)
  <2> DEFINE entry == [ledger[d] EXCEPT !.declared = @ \cup {view[d].content}, !.held = FALSE]
  <2>1. view[d].content \in Rev
    BY <1>5, <1>15 DEF RetryWithContext
  <2>2. entry \in Decisions
    BY <1>3, <2>1 DEF Decisions
  <2>3. ledger' = [ledger EXCEPT ![d] = entry]
    BY <1>3, <1>15 DEF RetryWithContext
  <2>4. StoreOK' /\ OthersKept(d) /\ Free(d)
    BY <1>2, <1>15, QueueWithContextCorrection_Row DEF RetryWithContext
  <2> HIDE DEF entry
  <2> QED
    BY <1>6, <1>15, <2>2, <2>3, <2>4 DEF RetryWithContext
<1>16. CASE AgentQueue(d)
  <2> DEFINE entry == [ledger[d] EXCEPT !.declared = @ \cup {plan[d].content},
                                        !.sent = NoRev, !.held = FALSE]
  <2>1. plan[d].content \in Rev
    BY <1>5, <1>16 DEF AgentQueue, QueueForSend
  <2>2. entry \in Decisions
    BY <1>3, <2>1 DEF Decisions, RevOrNone
  <2>3. ledger' = [ledger EXCEPT ![d] = entry]
    BY <1>3, <1>16 DEF AgentQueue
  <2>4. StoreOK' /\ OthersKept(d) /\ Free(d)
    BY <1>2, <1>16, QueueForSend_Row DEF AgentQueue
  <2> HIDE DEF entry
  <2> QED
    BY <1>6, <1>16, <2>2, <2>3, <2>4 DEF AgentQueue
<1> QED
  BY <1>1, <1>9, <1>10, <1>11, <1>12, <1>13, <1>14, <1>15, <1>16 DEF HumanStep, AgentStep

\* Time may make a claimed row's schedule due; the claim is not touched.
LEMMA ClockOK ==
    ASSUME IInv, Clock
    PROVE  IInv'
<1>1. PICK d \in Draft : BecomeDue(d)
  BY DEF Clock
<1>2. StoreOK' /\ OthersKept(d) /\ KeepsClaim(d)
  BY <1>1, BecomeDue_Row DEF IInv, TypeOK, StoreOK
<1>3. \A e \in Draft : Free(e) \/ KeepsClaim(e)
  BY <1>2 DEF OthersKept, KeepsClaim
<1>4. CockpitTypeOK' /\ \A e \in Draft : PageOK(view'[e]) /\ PageOK(plan'[e])
  BY DEF Clock, cockpitVars, IInv, TypeOK, CockpitTypeOK, LocalsOK
<1> QED
  BY <1>2, <1>3, <1>4, OutsiderResult DEF Clock

LEMMA StutterOK ==
    ASSUME IInv, UNCHANGED vars
    PROVE  IInv'
<1>1. StoreOK' /\ \A d \in Draft : Free(d) \/ KeepsClaim(d)
  BY StoreUnchanged DEF vars, IInv, TypeOK, StoreOK
<1>2. CockpitTypeOK' /\ \A e \in Draft : PageOK(view'[e]) /\ PageOK(plan'[e])
  BY DEF vars, cockpitVars, IInv, TypeOK, CockpitTypeOK, LocalsOK
<1> QED
  BY <1>1, <1>2, OutsiderResult DEF vars

-----------------------------------------------------------------------------
(* The initial states.                                                     *)

LEMMA InitOK ==
    ASSUME Init
    PROVE  IInv
<1>1. 0 \in Rev /\ NoRev \in RevOrNone /\ 0 \in RevOrNone
  BY MaxEditsAssumption DEF Rev, RevOrNone
<1>2. PICK by \in [Draft -> CreatedBy], made \in [Draft -> UNION {CopiesOf(d) : d \in Draft}] :
        /\ \A d \in Draft : made[d] \in CopiesOf(d)
        /\ drafts = [d \in Draft |-> CreatedRow(by[d], made[d][2], made[d][3])]
        /\ copies = [d \in Draft |-> made[d][1]]
  BY DEF Init
<1>3. \A d \in Draft : /\ made[d][1] \in SUBSET Rev
                       /\ made[d][2] \in RevOrNone
                       /\ made[d][3] \in BOOLEAN
  <2> TAKE d \in Draft
  <2>1. made[d] \in {<<{}, NoRev, FALSE>>, <<{0}, 0, TRUE>>, <<{0}, NoRev, TRUE>>,
                     <<{0}, NoRev, FALSE>>}
    BY <1>2 DEF CopiesOf, CreatedCopies
  <2>2. CASE made[d] = <<{}, NoRev, FALSE>>
    BY <1>1, <2>2
  <2>3. CASE made[d] = <<{0}, 0, TRUE>>
    BY <1>1, <2>3
  <2>4. CASE made[d] = <<{0}, NoRev, TRUE>>
    BY <1>1, <2>4
  <2>5. CASE made[d] = <<{0}, NoRev, FALSE>>
    BY <1>1, <2>5
  <2> QED
    BY <2>1, <2>2, <2>3, <2>4, <2>5
<1>4. NoDeclaration \in Declaration
  BY <1>1 DEF NoDeclaration, Declaration
<1>5. ASSUME NEW d \in Draft
      PROVE  drafts[d] \in Row /\ drafts[d].rev = drafts[d].content
  <2> DEFINE uid == made[d][2]
             synced == made[d][3]
             who == by[d]
  <2>1. uid \in RevOrNone /\ synced \in BOOLEAN /\ who \in CreatedBy
    BY <1>3
  <2>2. drafts[d] = CreatedRow(who, uid, synced)
    BY <1>2
  <2> HIDE DEF uid, synced, who
  <2> QED
    BY <1>1, <1>4, <2>1, <2>2 DEF CreatedRow, Row, Status
<1>6. StoreOK
  BY <1>1, <1>2, <1>5 DEF StoreOK, DraftStoreTypeOK, RowsOK, Init
<1>7. MailServerTypeOK
  <2>1. copies \in [Draft -> SUBSET Rev]
    BY <1>2, <1>3
  <2>2. <<>> \in Seq(Delivery)
    OBVIOUS
  <2> QED
    BY <2>1, <2>2 DEF MailServerTypeOK, Init
<1>8. /\ Idle \in SweeperState /\ SweeperOK(Idle) /\ Idle.lease = NoToken
      /\ NotSending \in SenderState /\ SenderOK(NotSending) /\ NotSending.lease = NoToken
      /\ NotSyncing \in SyncerState /\ SyncerOK(NotSyncing) /\ NotSyncing.lease = NoToken
  BY DEF Idle, SweeperState, SweeperOK, Gate, NotSending, SenderState, SenderOK,
         NotSyncing, SyncerState, SyncerOK, RevOrNone
<1>9. NoPage \in Page /\ PageOK(NoPage) /\ NoDecision \in Decisions
  BY <1>1 DEF NoPage, Page, PageOK, NoDecision, Decisions
<1>10. /\ sweeper = [s \in Sweeper |-> Idle]
       /\ sender = [c \in Sender |-> NotSending]
       /\ syncer = [m \in Syncer |-> NotSyncing]
       /\ view = [d \in Draft |-> NoPage]
       /\ plan = [d \in Draft |-> NoPage]
       /\ ledger = [d \in Draft |-> NoDecision]
  BY DEF Init, SweepInit, ImmediateInit, SyncInit, CockpitInit
<1>11. SweepTypeOK /\ ImmediateTypeOK /\ SyncTypeOK /\ CockpitTypeOK
  BY <1>8, <1>9, <1>10 DEF SweepTypeOK, ImmediateTypeOK, SyncTypeOK, CockpitTypeOK
<1>12. LocalsOK
  BY <1>8, <1>9, <1>10 DEF LocalsOK
<1>13. ClaimsExclude
  BY <1>8, <1>10 DEF ClaimsExclude, LeasesAreOwned, SweepHolds, SenderHolds, SyncerHolds
<1> QED
  BY <1>6, <1>7, <1>11, <1>12, <1>13 DEF IInv, TypeOK, StoreOK

-----------------------------------------------------------------------------
\* The strengthened invariant holds in every reachable state: the initial
\* states satisfy it and each process's steps keep it.
THEOREM Invariance == Spec => []IInv
<1>1. Init => IInv
  BY InitOK
<1>2. IInv /\ [Next]_vars => IInv'
  BY SweepingOK, SendingNowOK, SyncingOK, DecidingOK, ClockOK, StutterOK DEF Next
<1> QED
  BY <1>1, <1>2, PTL DEF Spec

\* Every table and every local of a process keeps its type, whatever the number
\* of drafts and processes: in particular the parks and releases write only
\* statuses and revisions the `drafts` table admits.
THEOREM TypeCorrect == Spec => []TypeOK
<1>1. IInv => TypeOK
  BY DEF IInv
<1> QED
  BY <1>1, Invariance, PTL

\* The three claim statements exclude each other: a process that believes it
\* holds a draft still owns the row under the matching status and its own
\* token, and no second sweep, immediate send or modify holds that draft.
THEOREM Exclusion == Spec => []ClaimsExclude
<1>1. IInv => ClaimsExclude
  BY DEF IInv
<1> QED
  BY <1>1, Invariance, PTL
=============================================================================
