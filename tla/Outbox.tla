------------------------------- MODULE Outbox -------------------------------
(***************************************************************************)
(* A draft from its creation to SMTP acceptance: the store, the provider,  *)
(* the sweeps of the dashboard, immediate sends, provider syncs, the human *)
(* at the dashboard and the agent, over the same rows.                     *)
(***************************************************************************)
EXTENDS Sweep, ImmediateSend, DraftSync, Cockpit

CONSTANTS
    Attended,     \* drafts a human works on at the dashboard
    Delegated     \* drafts an agent queues

ASSUME AttendedAssumption == Attended \subseteq Draft
ASSUME DelegatedAssumption == Delegated \subseteq Draft

cockpitVars == <<view, plan, ledger>>
vars == <<storeVars, mailVars, sweeper, sender, syncer, cockpitVars>>

-----------------------------------------------------------------------------
\* How creation can leave the provider copy: none; appended and linked;
\* appended with its UID unknown; stored although the APPEND reported an error.
CreatedCopies ==
    {<<{}, NoRev, FALSE>>, <<{0}, 0, TRUE>>, <<{0}, NoRev, TRUE>>}
        \cup IF Faults THEN {<<{0}, NoRev, FALSE>>} ELSE {}

CopiesOf(d) == IF d \in LocalOnly THEN {<<{}, NoRev, FALSE>>} ELSE CreatedCopies

Init ==
    /\ \E by \in [Draft -> CreatedBy], made \in [Draft -> UNION {CopiesOf(d) : d \in Draft}] :
          /\ \A d \in Draft : made[d] \in CopiesOf(d)
          /\ drafts = [d \in Draft |-> CreatedRow(by[d], made[d][2], made[d][3])]
          /\ copies = [d \in Draft |-> made[d][1]]
    /\ correction = [d \in Draft |-> NoRev]
    /\ deliveries = [d \in Draft |-> <<>>]
    /\ SweepInit
    /\ ImmediateInit
    /\ SyncInit
    /\ CockpitInit

Sweeping ==
    /\ \E s \in Sweeper : SweeperStep(s)
    /\ UNCHANGED <<sender, syncer, cockpitVars>>

SendingNow ==
    /\ \E c \in Sender : SenderStep(c)
    /\ UNCHANGED <<sweeper, syncer, cockpitVars>>

Syncing ==
    /\ \E m \in Syncer : SyncerStep(m)
    /\ UNCHANGED <<sweeper, sender, cockpitVars>>

Deciding ==
    /\ \/ \E d \in Attended : HumanStep(d)
       \/ \E d \in Delegated : AgentStep(d)
    /\ UNCHANGED <<sweeper, sender, syncer>>

Clock ==
    /\ \E d \in Draft : BecomeDue(d)
    /\ UNCHANGED <<mailVars, sweeper, sender, syncer, cockpitVars>>

Next == Sweeping \/ SendingNow \/ Syncing \/ Deciding \/ Clock

Spec == Init /\ [][Next]_vars

\* The ticker keeps sweeping, a sweep does not stop half way while the process
\* lives, and time passes.
Fairness ==
    /\ \A s \in Sweeper :
          WF_vars(SweeperStep(s) /\ UNCHANGED <<sender, syncer, cockpitVars>>)
    /\ \A d \in Draft :
          WF_vars(BecomeDue(d) /\ UNCHANGED <<mailVars, sweeper, sender, syncer, cockpitVars>>)

FairSpec == Spec /\ Fairness

-----------------------------------------------------------------------------
TypeOK ==
    /\ DraftStoreTypeOK
    /\ MailServerTypeOK
    /\ SweepTypeOK
    /\ ImmediateTypeOK
    /\ SyncTypeOK
    /\ CockpitTypeOK

\* What each control point says of the locals it leaves behind: which steps
\* run under a lease, and which locals hold a value by then.
SweeperOK(p) ==
    /\ p.lease = NoToken <=> p.pc \in {"idle", "scan", "cleanup"}
    /\ p.pc \notin {"idle", "scan"} => p.draft \in Draft
    /\ p.pc \in {"loaded", "sending", "accepted", "uncertain"} => p.snap \in Row
    /\ p.pc = "sending" => p.gate # "none"

SenderOK(p) ==
    /\ p.lease = NoToken <=> p.pc \in {"idle", "read", "cleanup"}
    /\ p.pc # "idle" => p.draft \in Draft
    /\ p.pc = "reloaded" => p.local \in Rev
    /\ p.pc \in {"loaded", "sending"} => p.content \in Rev

SyncerOK(p) ==
    /\ p.lease = NoToken <=> p.pc \in {"idle", "read", "discard", "discardLocal", "found"}
    /\ p.pc # "idle" => p.draft \in Draft
    /\ p.lease # NoToken => p.prior \in Editable
    /\ p.pc = "read" \/ p.lease # NoToken => p.snap \in Row

\* A page that shows a revision shows its content.
PageOK(page) == page.rev # NoRev => page.content # NoRev

LocalsOK ==
    /\ \A s \in Sweeper : SweeperOK(sweeper[s])
    /\ \A c \in Sender : SenderOK(sender[c])
    /\ \A m \in Syncer : SyncerOK(syncer[m])
    /\ \A d \in Draft : PageOK(view[d]) /\ PageOK(plan[d])

\* The content and the revision of a row advance together.
RowsOK == \A d \in Draft : drafts[d].rev = drafts[d].content

(***************************************************************************)
(* Claims.                                                                 *)
(***************************************************************************)

SweepHolds(s, d) == sweeper[s].draft = d /\ sweeper[s].lease # NoToken
SenderHolds(c, d) == sender[c].draft = d /\ sender[c].lease # NoToken
SyncerHolds(m, d) == syncer[m].draft = d /\ syncer[m].lease # NoToken

\* A process that holds a lease owns its row under the matching claim.
LeasesAreOwned ==
    /\ \A s \in Sweeper, d \in Draft :
          SweepHolds(s, d) => Owned(d, "sending", sweeper[s].lease)
    /\ \A c \in Sender, d \in Draft :
          SenderHolds(c, d) => Owned(d, "sending", sender[c].lease)
    /\ \A m \in Syncer, d \in Draft :
          SyncerHolds(m, d) => Owned(d, "syncing", syncer[m].lease)

\* No two of the concurrent sweeps, immediate sends and modifies ever work on
\* one draft: claim_draft_for_sending, claim_draft_for_immediate_send and
\* claim_draft_for_sync exclude each other ("a competing sweep ... loses the
\* claim and refuses instead of double-sending", docs/agent-contract.md).
ClaimsExclude ==
    /\ LeasesAreOwned
    /\ \A d \in Draft :
          /\ \A s1, s2 \in Sweeper : SweepHolds(s1, d) /\ SweepHolds(s2, d) => s1 = s2
          /\ \A c1, c2 \in Sender : SenderHolds(c1, d) /\ SenderHolds(c2, d) => c1 = c2
          /\ \A m1, m2 \in Syncer : SyncerHolds(m1, d) /\ SyncerHolds(m2, d) => m1 = m2
          /\ \A s \in Sweeper, c \in Sender : ~(SweepHolds(s, d) /\ SenderHolds(c, d))

\* From the reload to the end of the transmission the claimed row is what the
\* sweep loaded: no edit, block, discard, hold, approval or queue call of
\* another actor reaches it, so what the gate judged is what is sent and what
\* the row says.
ClaimFreezesRow ==
    \A s \in Sweeper :
        sweeper[s].pc \in {"loaded", "sending", "accepted", "uncertain"}
            => drafts[sweeper[s].draft] = sweeper[s].snap

\* A claim nobody holds any more, because its process died or could not write,
\* is inert: no actor changes the row, and it is never sent again (the doc
\* comment of DraftStatus::Sending and ::Syncing in store/src/models.rs).
Orphaned(d) ==
    /\ drafts[d].status \in {"sending", "syncing"}
    /\ \A s \in Sweeper : ~SweepHolds(s, d)
    /\ \A c \in Sender : ~SenderHolds(c, d)
    /\ \A m \in Syncer : ~SyncerHolds(m, d)

OrphansAreInert ==
    [][\A d \in Draft : Orphaned(d) =>
           /\ drafts'[d] \in {drafts[d], [drafts[d] EXCEPT !.sendAfter = "due"]}
           /\ deliveries'[d] = deliveries[d]]_vars

(***************************************************************************)
(* Delivery.                                                               *)
(***************************************************************************)

\* The one delivery whose claim goes back to `draft`: an immediate send that
\* got an error from SMTP after the server had taken the message.
Unconfirmed(delivery) == delivery.by = "immediate" /\ ~delivery.acknowledged

\* A recipient gets a second message for one draft only after an immediate send
\* whose confirmation was lost.
NoOtherDuplicate ==
    \A d \in Draft : \A i \in DOMAIN deliveries[d] :
        i < Len(deliveries[d]) => Unconfirmed(deliveries[d][i])

\* The whole system, seen through the status of a row and what its recipients
\* got, keeps the abstract promise: only a claimed draft is transmitted, a
\* settled draft never leaves its claim except to a closed status, and whoever
\* discards, sweeps or releases cannot reopen it.
Phase(status) ==
    CASE status = "sending" -> "claimed"
      [] status \in {"sent", "delivery_uncertain", "discarded"} -> "closed"
      [] OTHER -> "open"

Promised == INSTANCE DeliveryPromise WITH
    phase    <- [d \in Draft |-> Phase(drafts[d].status)],
    received <- [d \in Draft |->
                    [i \in DOMAIN deliveries[d] |-> ~Unconfirmed(deliveries[d][i])]]

KeepsDeliveryPromise == Promised!Spec

\* What the changelog and the comments of both send paths say: "No automatic
\* retry after an inconclusive SMTP failure".  No sweep transmits a draft that
\* the server may have accepted before.
NoAutomaticRetry ==
    \A d \in Draft : \A i \in DOMAIN deliveries[d] :
        deliveries[d][i].by = "sweep" => i = 1

\* Sent and discarded are final, and a parked uncertain delivery can only be
\* discarded (the doc comment of DraftStatus::DeliveryUncertain).
TerminalIsFinal ==
    [][\A d \in Draft :
          /\ drafts[d].status \in {"sent", "discarded"} => drafts'[d].status = drafts[d].status
          /\ drafts[d].status = "delivery_uncertain" =>
                drafts'[d].status \in {"delivery_uncertain", "discarded"}]_vars

(***************************************************************************)
(* Who authorized what.                                                    *)
(***************************************************************************)

\* The authorization that skips the Governor always names the content of the
\* human's latest Human-only Send click, and not one that a Hold or an agent's
\* re-queue has withdrawn since (human_send_surface in store/src/models.rs).
GovernorSkippedOnlyByClick ==
    \A d \in Draft :
        HumanSendAuthorized(drafts[d]) => ledger[d].sent = drafts[d].content

\* No content inherits an approval: a row that counts as approved carries
\* content the human approved from a page that showed it.
ApprovalCoversContent ==
    \A d \in Draft :
        HumanApproved(drafts[d]) => drafts[d].content \in ledger[d].approved

\* No content inherits a declaration: the facts the sweep submits for a row
\* were validated, by the agent's precheck or by the human's correction, for
\* the content the row has (queue_draft_for_send's compare-and-set).
DeclarationCoversContent ==
    \A d \in Draft :
        Declared(drafts[d]) => drafts[d].content \in ledger[d].declared

\* After a Hold nothing sends the draft from the outbox until somebody queues
\* it again, whatever sweep had it on its due list.
HeldStaysHeld ==
    \A d \in Draft : ledger[d].held =>
        /\ ~Queued(drafts[d])
        /\ \A s \in Sweeper : ~SweepHolds(s, d)

\* A context correction that still counts as current belongs to a draft whose
\* declaration stands and which the Governor will judge: Human-only Send, Hold
\* and an agent's re-queue each retire it.
CorrectedIsGoverned ==
    \A d \in Draft : CorrectionCurrent(d) =>
        Declared(drafts[d]) /\ ~HumanSendCurrent(drafts[d])

\* What the comment in the approve handler says: "Review only. It queues
\* nothing, so it sends nothing".
ApproveQueuesNothing ==
    [][\A d \in Attended :
          Approve(d) /\ Queued(drafts'[d]) => Queued(drafts[d])]_vars

(***************************************************************************)
(* Provider copies.                                                        *)
(***************************************************************************)

\* "never a duplicate provider copy with the same Message-ID"
\* (modify_claimed_draft, docs/agent-contract.md).
OneProviderCopy == \A d \in Draft : Cardinality(copies[d]) <= 1

\* A copy on the server is never forgotten by a row at rest: the next modify
\* will look for it before it appends.
CopiesAreKnown ==
    \A d \in Draft :
        drafts[d].status \in Editable /\ copies[d] # {}
            => ProviderCopyMayExist(drafts[d])

\* An immediate send transmits the content of the row it claimed: "the
\* authoritative send snapshot" (send_existing_draft).
SendsClaimedContent ==
    \A c \in Sender :
        sender[c].pc = "sending" => sender[c].content = drafts[sender[c].draft].content

(***************************************************************************)
(* Progress.                                                               *)
(***************************************************************************)

InOutbox(d) == drafts[d].status \in {"draft", "sending"} /\ drafts[d].sendAfter # "none"

Requeue == \E d \in Draft : AgentQueue(d) \/ \E w \in {"later", "due"} : HumanSend(d, w)

\* A queued draft is sent or put before a human after a bounded number of
\* sweeps, unless somebody keeps queueing it again: no draft waits for ever,
\* and none is retried for ever.
OutboxDrains ==
    <>[][~Requeue]_vars => \A d \in Draft : InOutbox(d) ~> ~InOutbox(d)
=============================================================================
