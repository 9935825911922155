----------------------------- MODULE DraftStore -----------------------------
(***************************************************************************)
(* The `drafts` table of the SQLite store (crates/store/src/drafts.rs) and *)
(* the context-correction events that travel with it.                      *)
(*                                                                         *)
(* Every store method the send paths use is ONE guarded SQL statement, or  *)
(* one transaction, so each is one action here.  A method that matched no  *)
(* row changes nothing: its callers test the same guard, which is why the  *)
(* guards have names of their own (SendClaimable, SyncClaimable, Owned).   *)
(*                                                                         *)
(* Data is abstracted to what the send paths compare: recipients, bodies   *)
(* and attachments are one counter, `content`, that every material edit    *)
(* advances; a timestamp is "none", "later" or "due"; a lease token is a   *)
(* member of Token that no row carries (the code draws a fresh UUID).      *)
(***************************************************************************)
EXTENDS Integers, FiniteSets

CONSTANTS
    Draft,        \* draft ids
    Token,        \* owner lease tokens
    NoToken,      \* operation_token IS NULL
    CreatedBy,    \* classes of `created_by` a run starts from
    MaxEdits,     \* bound on the material edits of one draft
    MaxAttempts,  \* MAX_ATTRIBUTION_ATTEMPTS
    NoDraft,      \* a process with no draft in hand
    Faults        \* whether crashes, database and network errors happen

ASSUME NoTokenAssumption == NoToken \notin Token
ASSUME CreatedByAssumption == CreatedBy \subseteq {"human", "agent", "unknown"}
ASSUME MaxEditsAssumption == MaxEdits \in Nat
ASSUME MaxAttemptsAssumption == MaxAttempts \in Nat \ {0}
ASSUME NoDraftAssumption == NoDraft \notin Draft
ASSUME FaultsAssumption == Faults \in BOOLEAN

VARIABLES
    drafts,       \* [Draft -> Row]: the table
    correction    \* [Draft -> revision of the latest context_refined event
                  \*  not followed by an invalidation, or NoRev]

storeVars == <<drafts, correction>>

-----------------------------------------------------------------------------
(* Rows.                                                                   *)

NoRev == -1
Rev == 0 .. MaxEdits
RevOrNone == Rev \cup {NoRev}

Status == {"draft", "pending_review", "sending", "syncing", "blocked",
           "delivery_uncertain", "sent", "discarded"}

\* Mutant: an uncertain delivery counts as editable.
EditableWhenUncertain == {"draft", "pending_review", "blocked", "delivery_uncertain"}

Editable == {"draft", "pending_review", "blocked"}
Queueable == {"draft", "pending_review"}
Discardable == Editable \cup {"delivery_uncertain"}

\* The attribution block of the metadata: the revision it is stamped with, the
\* failed attempts it has recorded, and whether it declares valid facts.  Its
\* origin is always the bot: no production path persists a human block.
Declaration == [rev : RevOrNone, attempts : Nat, facts : BOOLEAN]
NoDeclaration == [rev |-> NoRev, attempts |-> 0, facts |-> FALSE]

Row == [status : Status, rev : Rev, content : Rev, createdBy : CreatedBy,
        sendAfter : {"none", "later", "due"}, token : Token \cup {NoToken},
        approval : RevOrNone, humanSend : RevOrNone, decl : Declaration,
        sendBlock : BOOLEAN, imapUid : RevOrNone, imapSynced : BOOLEAN]

\* A process with no snapshot in hand.
NoRow == [status |-> "none"]

\* A created draft: no schedule, no attestation.  Its provider copy, if the
\* account has one, is set up by the module that owns the mailbox.
CreatedRow(by, uid, synced) ==
    [status |-> "draft", rev |-> 0, content |-> 0, createdBy |-> by,
     sendAfter |-> "none", token |-> NoToken,
     approval |-> NoRev, humanSend |-> NoRev, decl |-> NoDeclaration,
     sendBlock |-> FALSE, imapUid |-> uid, imapSynced |-> synced]

-----------------------------------------------------------------------------
(* What a row means.  Each predicate recomputes validity from the row, as  *)
(* the code does: an attestation recorded at another revision is no        *)
(* attestation.                                                            *)

HumanApproved(row) == row.approval = row.rev
HumanSendCurrent(row) == row.humanSend = row.rev
HumanSendAuthorized(row) == HumanSendCurrent(row) /\ HumanApproved(row)

DeclarationCurrent(row) == row.decl.rev = row.rev
Declared(row) == DeclarationCurrent(row) /\ row.decl.facts
PriorAttempts(row) == IF DeclarationCurrent(row) THEN row.decl.attempts ELSE 0

ScheduledOrigin(row) ==
    IF DeclarationCurrent(row) \/ row.createdBy = "agent"
    THEN "bot" ELSE row.createdBy

RequireDeclaration(row) ==
    ~(ScheduledOrigin(row) = "human" /\ HumanApproved(row))

AttributionExhausted(row) == row.decl.attempts >= MaxAttempts

Queued(row) == row.status = "draft" /\ row.sendAfter # "none"
Due(row) == row.status = "draft" /\ row.sendAfter = "due"
DueForSend == {d \in Draft : Due(drafts[d])}

CorrectionCurrent(d) == correction[d] = drafts[d].rev

FreshToken(t) == t \in Token /\ \A d \in Draft : drafts[d].token # t

-----------------------------------------------------------------------------
(* Guards shared by a method and by the caller that sees it miss.          *)


\* Mutants: the due time, or the status, left out of a claim's WHERE clause.
SendClaimableUnqueued(d, rev) == drafts[d].rev = rev /\ drafts[d].status = "draft"
SendClaimableTwice(d, rev) == drafts[d].rev = rev /\ drafts[d].sendAfter = "due"
ImmediateClaimableTwice(d, rev) == drafts[d].rev = rev
SyncClaimableTwice(d, rev) == drafts[d].rev = rev

SendClaimable(d, rev) == drafts[d].rev = rev /\ Due(drafts[d])
ImmediateClaimable(d, rev) == drafts[d].rev = rev /\ drafts[d].status = "draft"
SyncClaimable(d, rev) == drafts[d].rev = rev /\ drafts[d].status \in Editable
Owned(d, status, t) == drafts[d].status = status /\ drafts[d].token = t

-----------------------------------------------------------------------------
(* Leases.                                                                 *)

ClaimForSending(d, rev, t) ==
    /\ SendClaimable(d, rev)
    /\ FreshToken(t)
    /\ drafts' = [drafts EXCEPT ![d].status = "sending", ![d].token = t]
    /\ UNCHANGED correction

ClaimForImmediateSend(d, rev, t) ==
    /\ ImmediateClaimable(d, rev)
    /\ FreshToken(t)
    /\ drafts' = [drafts EXCEPT ![d].status = "sending", ![d].token = t]
    /\ UNCHANGED correction

ClaimForSync(d, rev, t) ==
    /\ SyncClaimable(d, rev)
    /\ FreshToken(t)
    /\ drafts' = [drafts EXCEPT ![d].status = "syncing", ![d].token = t]
    /\ UNCHANGED correction

ReleaseSending(d, t, to) ==
    /\ Owned(d, "sending", t)
    /\ drafts' = [drafts EXCEPT ![d].status = to, ![d].token = NoToken]
    /\ UNCHANGED correction

ReleaseSyncing(d, t, to) ==
    /\ Owned(d, "syncing", t)
    /\ drafts' = [drafts EXCEPT ![d].status = to, ![d].token = NoToken]
    /\ UNCHANGED correction

MarkSent(d, t) ==
    /\ Owned(d, "sending", t)
    /\ drafts' = [drafts EXCEPT ![d].status = "sent", ![d].token = NoToken,
                                ![d].sendAfter = "none", ![d].imapUid = NoRev]
    /\ UNCHANGED correction

\* Mutant: an inconclusive transmission goes back to the outbox.
ReleaseUncertain(d, t) ==
    /\ Owned(d, "sending", t)
    /\ drafts' = [drafts EXCEPT ![d].status = "draft", ![d].token = NoToken]
    /\ UNCHANGED correction

ParkDeliveryUncertain(d, t) ==
    /\ Owned(d, "sending", t)
    /\ drafts' = [drafts EXCEPT ![d].status = "delivery_uncertain",
                                ![d].token = NoToken, ![d].sendAfter = "none"]
    /\ UNCHANGED correction

ParkForReview(d, t) ==
    /\ Owned(d, "sending", t)
    /\ drafts' = [drafts EXCEPT ![d].status = "pending_review",
                                ![d].token = NoToken, ![d].sendAfter = "none",
                                ![d].sendBlock = TRUE]
    /\ UNCHANGED correction

\* Mutants: the count starts over at each failure; the block is stamped with the
\* revision after the one that failed.
FailedAttemptForgets(row) ==
    [rev |-> row.rev, attempts |-> 1, facts |-> Declared(row)]
FailedAttemptAhead(row) ==
    [rev |-> row.rev + 1, attempts |-> PriorAttempts(row) + 1, facts |-> Declared(row)]

\* The block written after a failed attempt keeps the declared set the sweep
\* resolved (empty when the declaration was stale) at the claimed revision.
FailedAttempt(row) ==
    [rev |-> row.rev, attempts |-> PriorAttempts(row) + 1, facts |-> Declared(row)]

DeferAttributionRetry(d, t, decl) ==
    /\ Owned(d, "sending", t)
    /\ drafts' = [drafts EXCEPT ![d].status = "draft", ![d].token = NoToken,
                                ![d].decl = decl]
    /\ UNCHANGED correction

ParkAttributionExhausted(d, t, decl) ==
    /\ Owned(d, "sending", t)
    /\ drafts' = [drafts EXCEPT ![d].status = "pending_review",
                                ![d].token = NoToken, ![d].sendAfter = "none",
                                ![d].decl = decl]
    /\ UNCHANGED correction

-----------------------------------------------------------------------------
(* Edits and operator decisions.                                           *)

UpdateContent(d, rev) ==
    /\ SyncClaimable(d, rev)
    /\ drafts[d].content < MaxEdits
    /\ drafts' = [drafts EXCEPT ![d].rev = @ + 1, ![d].content = @ + 1,
                                ![d].approval = NoRev, ![d].humanSend = NoRev]
    /\ UNCHANGED correction

\* Mutant: the synced edit keeps the revision.
ApplySyncedEditSameRevision(d, t, snapshot) ==
    /\ Owned(d, "syncing", t)
    /\ drafts[d].content < MaxEdits
    /\ drafts' = [drafts EXCEPT ![d].content = @ + 1,
                                ![d].approval = NoRev, ![d].humanSend = NoRev,
                                ![d].decl = snapshot.decl,
                                ![d].sendBlock = snapshot.sendBlock,
                                ![d].imapSynced = snapshot.imapSynced]
    /\ UNCHANGED correction

\* The edit of a sync lease holder writes the metadata IT read before the
\* claim (its snapshot), without the human attestations.
ApplySyncedEdit(d, t, snapshot) ==
    /\ Owned(d, "syncing", t)
    /\ drafts[d].content < MaxEdits
    /\ drafts' = [drafts EXCEPT ![d].rev = @ + 1, ![d].content = @ + 1,
                                ![d].approval = NoRev, ![d].humanSend = NoRev,
                                ![d].decl = snapshot.decl,
                                ![d].sendBlock = snapshot.sendBlock,
                                ![d].imapSynced = snapshot.imapSynced]
    /\ UNCHANGED correction

\* Mutant: only a draft that had a linked copy gets its bookkeeping.
FinalizeLinkedOnly(d, t, uid, synced) ==
    /\ Owned(d, "syncing", t)
    /\ drafts' = IF drafts[d].imapUid = NoRev THEN drafts
                 ELSE [drafts EXCEPT ![d].imapUid = uid, ![d].imapSynced = synced]
    /\ UNCHANGED correction

FinalizeSynced(d, t, uid, synced) ==
    /\ Owned(d, "syncing", t)
    /\ drafts' = [drafts EXCEPT ![d].imapUid = uid, ![d].imapSynced = synced]
    /\ UNCHANGED correction

RelinkUid(d, uid) ==
    /\ drafts[d].status \in Editable
    /\ drafts' = [drafts EXCEPT ![d].imapUid = uid]
    /\ UNCHANGED correction

\* Mutant: a status is set whatever the row's status is.
UpdateStatusAlways(d, to) ==
    /\ drafts' = [drafts EXCEPT ![d].status = to]
    /\ UNCHANGED correction

UpdateStatus(d, to) ==
    /\ drafts[d].status \in Editable
    /\ drafts' = [drafts EXCEPT ![d].status = to]
    /\ UNCHANGED correction

DiscardDraft(d) ==
    /\ drafts[d].status \in Discardable
    /\ drafts' = [drafts EXCEPT ![d].status = "discarded"]
    /\ UNCHANGED correction

HoldScheduled(d) ==
    /\ Queued(drafts[d])
    /\ drafts' = [drafts EXCEPT ![d].sendAfter = "none",
                                ![d].approval = NoRev, ![d].humanSend = NoRev]
    /\ correction' = [correction EXCEPT ![d] = IF CorrectionCurrent(d) THEN NoRev ELSE @]

\* Mutant: the approval is recorded for whatever revision the row has.
ApproveAnyRevision(d, rev) ==
    /\ drafts[d].status \in Editable
    /\ drafts' = [drafts EXCEPT ![d].status = "draft", ![d].approval = drafts[d].rev]
    /\ UNCHANGED correction

ApproveRevision(d, rev) ==
    /\ SyncClaimable(d, rev)
    /\ drafts' = [drafts EXCEPT ![d].status = "draft", ![d].approval = rev]
    /\ UNCHANGED correction

-----------------------------------------------------------------------------
(* The three ways into the outbox.                                         *)

BotDeclaration(rev) == [rev |-> rev, attempts |-> 0, facts |-> TRUE]

\* Mutants: the queue call does not compare revisions; or it leaves an earlier
\* Human-only Send in force.
QueueAnyRevision(d, rev, when) ==
    /\ drafts[d].status \in Queueable
    /\ drafts' = [drafts EXCEPT ![d].status = "draft", ![d].sendAfter = when,
                                ![d].decl = BotDeclaration(drafts[d].rev),
                                ![d].humanSend = NoRev]
    /\ correction' = [correction EXCEPT ![d] = IF CorrectionCurrent(d) THEN NoRev ELSE @]
QueueKeepsHumanSend(d, rev, when) ==
    /\ drafts[d].rev = rev
    /\ drafts[d].status \in Queueable
    /\ drafts' = [drafts EXCEPT ![d].status = "draft", ![d].sendAfter = when,
                                ![d].decl = BotDeclaration(rev)]
    /\ correction' = [correction EXCEPT ![d] = IF CorrectionCurrent(d) THEN NoRev ELSE @]

QueueForSend(d, rev, when) ==
    /\ drafts[d].rev = rev
    /\ drafts[d].status \in Queueable
    /\ drafts' = [drafts EXCEPT ![d].status = "draft", ![d].sendAfter = when,
                                ![d].decl = BotDeclaration(rev),
                                ![d].humanSend = NoRev]
    /\ correction' = [correction EXCEPT ![d] = IF CorrectionCurrent(d) THEN NoRev ELSE @]

\* Mutant: the correction is not retired.
QueueKeepsCorrection(d, rev, when) ==
    /\ drafts[d].rev = rev
    /\ drafts[d].status \in Queueable
    /\ drafts' = [drafts EXCEPT ![d].status = "draft", ![d].sendAfter = when,
                                ![d].approval = rev, ![d].humanSend = rev]
    /\ UNCHANGED correction

QueueWithHumanSend(d, rev, when) ==
    /\ drafts[d].rev = rev
    /\ drafts[d].status \in Queueable
    /\ drafts' = [drafts EXCEPT ![d].status = "draft", ![d].sendAfter = when,
                                ![d].approval = rev, ![d].humanSend = rev]
    /\ correction' = [correction EXCEPT ![d] = IF CorrectionCurrent(d) THEN NoRev ELSE @]

QueueWithContextCorrection(d, rev, when) ==
    /\ drafts[d].rev = rev
    /\ drafts[d].status \in {"pending_review", "blocked"}
    /\ drafts[d].humanSend = NoRev
    /\ drafts' = [drafts EXCEPT ![d].status = "draft", ![d].sendAfter = when,
                                ![d].decl = BotDeclaration(rev),
                                ![d].sendBlock = FALSE]
    /\ correction' = [correction EXCEPT ![d] = rev]

-----------------------------------------------------------------------------
\* Wall-clock time passes a queued draft's send_after.
BecomeDue(d) ==
    /\ drafts[d].sendAfter = "later"
    /\ drafts' = [drafts EXCEPT ![d].sendAfter = "due"]
    /\ UNCHANGED correction

DraftStoreTypeOK ==
    /\ drafts \in [Draft -> Row]
    /\ correction \in [Draft -> RevOrNone]
=============================================================================
