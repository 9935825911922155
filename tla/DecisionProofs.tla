---------------------------- MODULE DecisionProofs ----------------------------
(***************************************************************************)
(* A decision counts only for the content it was given for: approvals,     *)
(* Human-only Send clicks, declarations, holds and context corrections,    *)
(* for any number of drafts and processes and any bounds.                  *)
(*                                                                         *)
(* A row records the revision of each decision and the ledger what was     *)
(* really decided; the invariant compares the two whether or not the       *)
(* recorded revision is the row's present one, so that an edit, which      *)
(* makes it another one, needs no special care.                            *)
(***************************************************************************)
EXTENDS DeliveryProofs

\* What a row says was decided, was decided.
Covered(d) ==
    LET row == drafts[d] IN
    /\ row.approval # NoRev => row.approval \in ledger[d].approved
    /\ row.humanSend # NoRev => ledger[d].sent = row.humanSend
    /\ row.decl.facts => row.decl.rev \in ledger[d].declared
    /\ ledger[d].held => row.sendAfter = "none"
    /\ correction[d] <= row.rev
    /\ CorrectionCurrent(d) => Declared(row) /\ ~HumanSendCurrent(row)

\* A page shows the revision and the content of one reading.
PageWhole(page) == page.content = page.rev

\* A modify carries the declaration it read across its claim and its edit.
CarriesDeclared(m) ==
    syncer[m].pc = "read" \/ syncer[m].lease # NoToken =>
        (syncer[m].snap.decl.facts =>
            syncer[m].snap.decl.rev \in ledger[syncer[m].draft].declared)

DecisionInv ==
    /\ \A d \in Draft : Covered(d) /\ PageWhole(view[d]) /\ PageWhole(plan[d])
    /\ \A m \in Syncer : CarriesDeclared(m)

Schedule(d) ==
    \/ drafts'[d].sendAfter \in {drafts[d].sendAfter, "none"}
    \/ drafts[d].sendAfter = "later"

\* A row whose decisions stand: nothing was written to them; or a failed attempt
\* was recorded in the declaration; or the content went on to a new revision.
Stands(d) ==
    /\ drafts'[d].rev = drafts[d].rev
    /\ drafts'[d].approval = drafts[d].approval
    /\ drafts'[d].humanSend = drafts[d].humanSend
    /\ \/ drafts'[d].decl = drafts[d].decl
       \/ /\ drafts'[d].decl.rev = drafts[d].rev
          /\ drafts'[d].decl.facts = Declared(drafts[d])

Edited(d) ==
    /\ drafts'[d].rev = drafts[d].rev + 1
    /\ drafts'[d].approval = NoRev /\ drafts'[d].humanSend = NoRev
    /\ \/ drafts'[d].decl = drafts[d].decl
       \/ \E m \in Syncer : SyncerHolds(m, d) /\ drafts'[d].decl = syncer[m].snap.decl

Undecided(d) ==
    /\ correction'[d] = correction[d]
    /\ Stands(d) \/ Edited(d)
    /\ Schedule(d)

LEMMA UndecidedCovered ==
    ASSUME IInv, DecisionInv, NEW d \in Draft, Undecided(d), UNCHANGED ledger
    PROVE  Covered(d)'
<1>1. /\ drafts[d] \in Row /\ correction[d] \in RevOrNone /\ drafts[d].rev \in Nat
      /\ Covered(d) /\ correction[d] \in Int
  BY MaxEditsAssumption DEF IInv, TypeOK, DraftStoreTypeOK, DecisionInv, Row, Rev, RevOrNone, NoRev
<1>2. ledger[d].held => drafts'[d].sendAfter = "none"
  BY <1>1 DEF Covered, Undecided, Schedule
<1>3. CASE Stands(d)
  BY <1>1, <1>2, <1>3 DEF Covered, Undecided, Stands, CorrectionCurrent, Declared, DeclarationCurrent,
     HumanSendCurrent
<1>4. CASE Edited(d)
  <2>1. drafts'[d].decl.facts => drafts'[d].decl.rev \in ledger[d].declared
    BY <1>1, <1>4 DEF Edited, Covered, DecisionInv, CarriesDeclared, SyncerHolds
  <2>2. correction'[d] <= drafts'[d].rev /\ correction'[d] # drafts'[d].rev
    BY <1>1, <1>4 DEF Covered, Undecided, Edited
  <2>3. drafts'[d].approval = NoRev /\ drafts'[d].humanSend = NoRev
    BY <1>4 DEF Edited
  <2> QED
    BY <1>2, <2>1, <2>2, <2>3 DEF Covered, CorrectionCurrent
<1> QED
  BY <1>3, <1>4 DEF Undecided

-----------------------------------------------------------------------------
(* Sweeps, immediate sends, syncs and the clock decide nothing.            *)

LEMMA StoreStill ==
    ASSUME UNCHANGED storeVars
    PROVE  \A d \in Draft : Undecided(d)
BY DEF storeVars, Undecided, Stands, Schedule

LEMMA RowStill ==
    ASSUME NEW d \in Draft, OthersKept(d), UNCHANGED correction, Undecided(d)
    PROVE  \A e \in Draft : Undecided(e)
BY DEF OthersKept, Undecided, Stands, Schedule

\* The statements that move a row and write no decision.
LEMMA RowMoves ==
    ASSUME drafts \in [Draft -> Row], NEW d \in Draft, NEW t, NEW rev, NEW to, NEW uid, NEW synced,
           \/ ClaimForSending(d, rev, t) \/ ClaimForImmediateSend(d, rev, t)
           \/ ClaimForSync(d, rev, t) \/ ReleaseSending(d, t, to) \/ ReleaseSyncing(d, t, to)
           \/ MarkSent(d, t) \/ ParkDeliveryUncertain(d, t) \/ ParkForReview(d, t)
           \/ UpdateStatus(d, to) \/ DiscardDraft(d) \/ BecomeDue(d)
           \/ FinalizeSynced(d, t, uid, synced) \/ RelinkUid(d, uid)
    PROVE  \A e \in Draft : Undecided(e)
<1>1. UNCHANGED correction /\ OthersKept(d)
  BY DEF ClaimForSending, ClaimForImmediateSend, ClaimForSync, ReleaseSending, ReleaseSyncing, MarkSent,
     ParkDeliveryUncertain, ParkForReview, UpdateStatus, DiscardDraft, BecomeDue, FinalizeSynced,
     RelinkUid, OthersKept
<1>2. drafts[d] \in Row
  OBVIOUS
<1>3. /\ drafts'[d].rev = drafts[d].rev /\ drafts'[d].approval = drafts[d].approval
      /\ drafts'[d].humanSend = drafts[d].humanSend /\ drafts'[d].decl = drafts[d].decl
      /\ Schedule(d)
  <2>1. CASE ClaimForSending(d, rev, t) \/ ClaimForImmediateSend(d, rev, t) \/ ClaimForSync(d, rev, t)
    BY <1>2, <2>1 DEF ClaimForSending, ClaimForImmediateSend, ClaimForSync, Schedule, Row
  <2>2. CASE ReleaseSending(d, t, to) \/ ReleaseSyncing(d, t, to) \/ UpdateStatus(d, to)
    BY <1>2, <2>2 DEF ReleaseSending, ReleaseSyncing, UpdateStatus, Schedule, Row
  <2>3. CASE MarkSent(d, t) \/ ParkDeliveryUncertain(d, t) \/ ParkForReview(d, t)
    BY <1>2, <2>3 DEF MarkSent, ParkDeliveryUncertain, ParkForReview, Schedule, Row
  <2>4. CASE DiscardDraft(d) \/ BecomeDue(d) \/ FinalizeSynced(d, t, uid, synced) \/ RelinkUid(d, uid)
    BY <1>2, <2>4 DEF DiscardDraft, BecomeDue, FinalizeSynced, RelinkUid, Schedule, Row
  <2> QED
    BY <2>1, <2>2, <2>3, <2>4
<1> QED
  BY <1>1, <1>3, RowStill DEF Undecided, Stands

\* An attempt that fails for attribution, recorded for the row as it was loaded.
LEMMA AttemptRecorded ==
    ASSUME drafts \in [Draft -> Row], NEW d \in Draft, NEW t,
           \/ ParkAttributionExhausted(d, t, FailedAttempt(drafts[d]))
           \/ DeferAttributionRetry(d, t, FailedAttempt(drafts[d]))
    PROVE  \A e \in Draft : Undecided(e)
<1>1. UNCHANGED correction /\ OthersKept(d)
  BY DEF ParkAttributionExhausted, DeferAttributionRetry, OthersKept
<1>2. /\ drafts'[d].rev = drafts[d].rev /\ drafts'[d].approval = drafts[d].approval
      /\ drafts'[d].humanSend = drafts[d].humanSend
      /\ drafts'[d].decl = FailedAttempt(drafts[d])
      /\ Schedule(d)
  BY DEF ParkAttributionExhausted, DeferAttributionRetry, Schedule, Row
<1> QED
  BY <1>1, <1>2, RowStill DEF Undecided, Stands, FailedAttempt

\* An edit under a sync lease.
LEMMA SyncedEditWritten ==
    ASSUME drafts \in [Draft -> Row], NEW d \in Draft, NEW t, NEW snapshot,
           ApplySyncedEdit(d, t, snapshot)
    PROVE  /\ UNCHANGED correction /\ OthersKept(d) /\ Schedule(d)
           /\ drafts'[d].rev = drafts[d].rev + 1
           /\ drafts'[d].approval = NoRev /\ drafts'[d].humanSend = NoRev
           /\ drafts'[d].decl = snapshot.decl
BY DEF ApplySyncedEdit, OthersKept, Schedule, Row

LEMMA SweepDecidesNothing ==
    ASSUME IInv, FrozenInv, NEW s \in Sweeper, SweeperStep(s)
    PROVE  \A d \in Draft : Undecided(d)
<1>1. /\ drafts \in [Draft -> Row]
      /\ sweeper[s] \in SweeperState /\ SweeperOK(sweeper[s])
  BY DEF IInv, TypeOK, DraftStoreTypeOK, SweepTypeOK, LocalsOK
<1>2. CASE UNCHANGED storeVars
  BY <1>2, StoreStill
<1>3. ASSUME NEW d \in Draft, NEW rev \in Rev, ClaimWon(s, d, rev)
      PROVE  \A e \in Draft : Undecided(e)
  BY <1>1, <1>3, RowMoves DEF ClaimWon
<1>4. CASE ReloadFailed(s) \/ PrepareFailed(s) \/ GovernorRefused(s) \/ RecordSent(s)
             \/ RecordSentFailed(s) \/ ParkUncertain(s)
  <2>1. sweeper[s].draft \in Draft
    BY <1>1, <1>4 DEF ReloadFailed, PrepareFailed, GovernorRefused, RecordSent, RecordSentFailed,
       ParkUncertain, SweeperOK
  <2>2. \/ UNCHANGED storeVars
        \/ \E to : ReleaseSending(sweeper[s].draft, sweeper[s].lease, to)
        \/ ParkForReview(sweeper[s].draft, sweeper[s].lease)
        \/ MarkSent(sweeper[s].draft, sweeper[s].lease)
        \/ ParkDeliveryUncertain(sweeper[s].draft, sweeper[s].lease)
    BY <1>4 DEF ReloadFailed, PrepareFailed, GovernorRefused, RecordSent, RecordSentFailed,
       ParkUncertain, Stranded
  <2> QED
    BY <1>1, <1>2, <2>1, <2>2, RowMoves
<1>5. CASE AttributionRefused(s)
  <2>1. /\ sweeper[s].draft \in Draft
        /\ drafts[sweeper[s].draft] = sweeper[s].snap
    BY <1>1, <1>5 DEF AttributionRefused, SweeperOK, FrozenInv, ClaimFreezesRow
  <2>2. \/ UNCHANGED storeVars
        \/ ParkForReview(sweeper[s].draft, sweeper[s].lease)
        \/ ParkAttributionExhausted(sweeper[s].draft, sweeper[s].lease, FailedAttempt(sweeper[s].snap))
        \/ DeferAttributionRetry(sweeper[s].draft, sweeper[s].lease, FailedAttempt(sweeper[s].snap))
    BY <1>5 DEF AttributionRefused, Stranded
  <2> QED
    BY <1>1, <1>2, <2>1, <2>2, RowMoves, AttemptRecorded
<1> QED
  BY <1>2, <1>3, <1>4, <1>5 DEF SweeperStep, Scan, ClaimLost, Reload, PassGate, Transmit,
     TransmitInconclusive, Cleanup, SweeperCrash

LEMMA SendDecidesNothing ==
    ASSUME IInv, NEW c \in Sender, SenderStep(c)
    PROVE  \A d \in Draft : Undecided(d)
<1>1. /\ drafts \in [Draft -> Row]
      /\ SenderOK(sender[c])
  BY DEF IInv, TypeOK, DraftStoreTypeOK, LocalsOK
<1>2. CASE UNCHANGED storeVars
  BY <1>2, StoreStill
<1>3. CASE ImmediateClaim(c)
  BY <1>1, <1>3, RowMoves DEF ImmediateClaim, SenderOK
<1>4. CASE Bail(c) \/ RecordSentNow(c)
  <2>1. sender[c].draft \in Draft
    BY <1>1, <1>4 DEF Bail, RecordSentNow, SenderOK
  <2>2. \/ UNCHANGED storeVars
        \/ ReleaseSending(sender[c].draft, sender[c].lease, "draft")
        \/ MarkSent(sender[c].draft, sender[c].lease)
        \/ ParkDeliveryUncertain(sender[c].draft, sender[c].lease)
    BY <1>4 DEF Bail, RecordSentNow
  <2> QED
    BY <1>1, <1>2, <2>1, <2>2, RowMoves
<1> QED
  BY <1>2, <1>3, <1>4 DEF SenderStep, ReadDraft, ImmediateClaimLost, ReloadClaimed, LoadContent,
     LoadFailed, PassImmediateGate, RefusedImmediately, TransmitNow, TransmitNowFailed, CleanupNow,
     SenderCrash

LEMMA SyncDecidesNothing ==
    ASSUME IInv, NEW m \in Syncer, SyncerStep(m)
    PROVE  \A d \in Draft : Undecided(d)
<1>1. /\ drafts \in [Draft -> Row]
      /\ SyncerOK(syncer[m])
  BY DEF IInv, TypeOK, DraftStoreTypeOK, LocalsOK
<1>2. CASE UNCHANGED storeVars
  BY <1>2, StoreStill
<1>3. CASE SyncClaim(m) \/ Finalize(m) \/ SyncRelease(m) \/ DiscardLocal(m) \/ LinkCopy(m)
  <2>1. syncer[m].draft \in Draft
    BY <1>1, <1>3 DEF SyncClaim, Finalize, SyncRelease, DiscardLocal, LinkCopy, SyncerOK
  <2>2. \/ UNCHANGED storeVars
        \/ \E rev, t : ClaimForSync(syncer[m].draft, rev, t)
        \/ \E t, uid, synced : FinalizeSynced(syncer[m].draft, t, uid, synced)
        \/ \E t, to : ReleaseSyncing(syncer[m].draft, t, to)
        \/ DiscardDraft(syncer[m].draft)
        \/ \E uid : RelinkUid(syncer[m].draft, uid)
    BY <1>3 DEF SyncClaim, Finalize, SyncRelease, DiscardLocal, LinkCopy
  <2> QED
    BY <1>1, <1>2, <2>1, <2>2, RowMoves
<1>4. CASE ApplyEdit(m)
  <2>1. PICK d \in Draft : d = syncer[m].draft /\ SyncerHolds(m, d)
    BY <1>1, <1>4 DEF ApplyEdit, SyncerOK, SyncerHolds
  <2>2. ApplySyncedEdit(d, syncer[m].lease, syncer[m].snap)
    BY <1>4, <2>1 DEF ApplyEdit
  <2>3. /\ UNCHANGED correction /\ OthersKept(d) /\ Schedule(d)
        /\ drafts'[d].rev = drafts[d].rev + 1
        /\ drafts'[d].approval = NoRev /\ drafts'[d].humanSend = NoRev
        /\ drafts'[d].decl = syncer[m].snap.decl
    BY <1>1, <2>2, SyncedEditWritten
  <2> QED
    BY <2>1, <2>3, RowStill DEF Undecided, Edited
<1> QED
  BY <1>2, <1>3, <1>4 DEF SyncerStep, ReadForModify, ReadForDiscard, FindCopy, SyncClaimLost,
     ClearOldCopies, AppendReplacement, ModifyError, DeleteProviderCopy, SyncerCrash

-----------------------------------------------------------------------------
(* What the processes carry.                                               *)

LEMMA CarriesKept ==
    ASSUME DecisionInv, UNCHANGED syncer,
           \A d \in Draft : ledger[d].declared \subseteq ledger'[d].declared,
           \A m \in Syncer : SyncerOK(syncer[m])
    PROVE  \A m \in Syncer : CarriesDeclared(m)'
<1>1. SUFFICES ASSUME NEW m \in Syncer, syncer[m].pc = "read" \/ syncer[m].lease # NoToken,
                      syncer[m].snap.decl.facts
               PROVE  syncer[m].snap.decl.rev \in ledger'[syncer[m].draft].declared
  BY DEF CarriesDeclared
<1>2. syncer[m].draft \in Draft
  BY <1>1 DEF SyncerOK
<1> QED
  BY <1>1, <1>2 DEF DecisionInv, CarriesDeclared

LEMMA SyncCarries ==
    ASSUME IInv, DecisionInv, NEW m \in Syncer, SyncerStep(m), UNCHANGED ledger
    PROVE  \A o \in Syncer : CarriesDeclared(o)'
<1>1. /\ syncer \in [Syncer -> SyncerState] /\ syncer[m] \in SyncerState
      /\ SyncerOK(syncer[m]) /\ CarriesDeclared(m)
  BY DEF IInv, TypeOK, SyncTypeOK, LocalsOK, DecisionInv
<1>2. ASSUME \A o \in Syncer \ {m} : syncer'[o] = syncer[o], CarriesDeclared(m)'
      PROVE  \A o \in Syncer : CarriesDeclared(o)'
  BY <1>2 DEF DecisionInv, CarriesDeclared
<1>3. ASSUME FinishSync(m)
      PROVE  \A o \in Syncer : CarriesDeclared(o)'
  BY <1>1, <1>2, <1>3 DEF FinishSync, NotSyncing, CarriesDeclared
<1>4. ASSUME NEW pc, SyncerAt(m, pc), pc # "read"
      PROVE  \A o \in Syncer : CarriesDeclared(o)'
  BY <1>1, <1>2, <1>4 DEF SyncerAt, CarriesDeclared, SyncerState
<1>5. ASSUME NEW d \in Draft, ReadForModify(m, d)
      PROVE  \A o \in Syncer : CarriesDeclared(o)'
  <2>1. syncer'[m].snap = drafts[d] /\ syncer'[m].draft = d
    BY <1>1, <1>5 DEF ReadForModify, NotSyncing
  <2>2. CarriesDeclared(m)'
    BY <2>1 DEF CarriesDeclared, DecisionInv, Covered
  <2> QED
    BY <1>1, <1>2, <1>5, <2>2 DEF ReadForModify
<1>6. ASSUME NEW d \in Draft, ReadForDiscard(m, d) \/ FindCopy(m, d)
      PROVE  \A o \in Syncer : CarriesDeclared(o)'
  <2>1. syncer'[m].pc # "read" /\ syncer'[m].lease = NoToken
    BY <1>1, <1>6 DEF ReadForDiscard, FindCopy, NotSyncing
  <2> QED
    BY <1>1, <1>2, <1>6, <2>1 DEF ReadForDiscard, FindCopy, CarriesDeclared
<1>7. CASE SyncClaim(m)
  <2>1. syncer[m].pc = "read"
    BY <1>7 DEF SyncClaim
  <2>2. PICK t : syncer' = [syncer EXCEPT ![m].pc = "claimed", ![m].lease = t,
                                          ![m].prior = drafts[syncer[m].draft].status]
    BY <1>7 DEF SyncClaim
  <2>3. /\ syncer'[m].snap = syncer[m].snap /\ syncer'[m].draft = syncer[m].draft
        /\ \A o \in Syncer \ {m} : syncer'[o] = syncer[o]
    BY <1>1, <2>2 DEF SyncerState
  <2> QED
    BY <1>1, <1>2, <2>1, <2>3 DEF CarriesDeclared
<1>8. CASE ClearOldCopies(m) \/ AppendReplacement(m)
  <2>1. syncer[m].pc \in {"edited", "cleared"} /\ syncer[m].lease # NoToken
    BY <1>1, <1>8 DEF ClearOldCopies, AppendReplacement, SyncerOK
  <2>2. /\ syncer'[m].snap = syncer[m].snap /\ syncer'[m].draft = syncer[m].draft
        /\ \A o \in Syncer \ {m} : syncer'[o] = syncer[o]
    BY <1>1, <1>8 DEF ClearOldCopies, AppendReplacement, SyncerAt, SyncerState
  <2> QED
    BY <1>1, <1>2, <2>1, <2>2 DEF CarriesDeclared
<1> QED
  BY <1>3, <1>4, <1>5, <1>6, <1>7, <1>8 DEF SyncerStep, SyncClaimLost, ApplyEdit, Finalize, ModifyError,
     SyncRelease, DeleteProviderCopy, DiscardLocal, LinkCopy, SyncerCrash

-----------------------------------------------------------------------------
(* The decisions.                                                          *)

\* The record of one draft's decisions goes on.
LedgerOnly(d) ==
    /\ \A e \in Draft \ {d} : ledger'[e] = ledger[e]
    /\ ledger[d].declared \subseteq ledger'[d].declared

LEMMA OneDecided ==
    ASSUME DecisionInv, NEW d \in Draft, OthersKept(d), Covered(d)', LedgerOnly(d),
           \A e \in Draft \ {d} : correction'[e] = correction[e]
    PROVE  /\ \A e \in Draft : Covered(e)'
           /\ \A e \in Draft : ledger[e].declared \subseteq ledger'[e].declared
BY DEF DecisionInv, Covered, CorrectionCurrent, OthersKept, LedgerOnly

\* The human's and the agent's calls of the store.
LEMMA CallsCovered ==
    ASSUME IInv, DecisionInv, NEW d \in Draft,
           \/ Approve(d) \/ Hold(d) \/ RetryWithContext(d) \/ AgentQueue(d)
           \/ \E when \in {"later", "due"} : HumanSend(d, when)
    PROVE  /\ \A e \in Draft : Covered(e)'
           /\ \A e \in Draft : ledger[e].declared \subseteq ledger'[e].declared
           /\ UNCHANGED <<view, plan>>
<1>1. /\ drafts \in [Draft -> Row] /\ correction \in [Draft -> RevOrNone]
      /\ ledger \in [Draft -> Decisions]
      /\ drafts[d] \in Row /\ ledger[d] \in Decisions /\ drafts[d].rev \in Nat
      /\ correction[d] \in Int
      /\ Covered(d) /\ PageWhole(view[d]) /\ PageWhole(plan[d])
  BY MaxEditsAssumption DEF IInv, TypeOK, DraftStoreTypeOK, CockpitTypeOK, DecisionInv, Row, Rev,
     RevOrNone, NoRev
<1>2. CASE Approve(d)
  <2>1. /\ OthersKept(d) /\ UNCHANGED correction /\ LedgerOnly(d)
        /\ view[d].rev = drafts[d].rev
        /\ drafts'[d].approval = view[d].rev /\ drafts'[d].rev = drafts[d].rev
        /\ drafts'[d].humanSend = drafts[d].humanSend /\ drafts'[d].decl = drafts[d].decl
        /\ drafts'[d].sendAfter = drafts[d].sendAfter
        /\ ledger'[d].approved = ledger[d].approved \cup {view[d].content}
        /\ ledger'[d].sent = ledger[d].sent /\ ledger'[d].declared = ledger[d].declared
        /\ ledger'[d].held = ledger[d].held
    BY <1>1, <1>2 DEF Approve, ApproveRevision, SyncClaimable, OthersKept, LedgerOnly, Row, Decisions
  <2>2. Covered(d)'
    BY <1>1, <2>1 DEF Covered, PageWhole, CorrectionCurrent, Declared, DeclarationCurrent, HumanSendCurrent
  <2> QED
    BY <1>2, <2>1, <2>2, OneDecided DEF Approve
<1>3. CASE Hold(d)
  <2>1. /\ OthersKept(d) /\ LedgerOnly(d)
        /\ \A e \in Draft \ {d} : correction'[e] = correction[e]
        /\ correction'[d] = IF correction[d] = drafts[d].rev THEN NoRev ELSE correction[d]
        /\ drafts'[d].approval = NoRev /\ drafts'[d].humanSend = NoRev
        /\ drafts'[d].rev = drafts[d].rev /\ drafts'[d].decl = drafts[d].decl
        /\ drafts'[d].sendAfter = "none"
        /\ ledger'[d].declared = ledger[d].declared
    BY <1>1, <1>3 DEF Hold, HoldScheduled, CorrectionCurrent, OthersKept, LedgerOnly, Row, Decisions
  <2>2. correction'[d] <= drafts'[d].rev /\ ~CorrectionCurrent(d)'
    BY <1>1, <2>1 DEF Covered, CorrectionCurrent, NoRev
  <2>3. Covered(d)'
    BY <1>1, <2>1, <2>2 DEF Covered
  <2> QED
    BY <1>3, <2>1, <2>3, OneDecided DEF Hold
<1>4. CASE RetryWithContext(d)
  <2>1. /\ OthersKept(d) /\ LedgerOnly(d)
        /\ \A e \in Draft \ {d} : correction'[e] = correction[e]
        /\ view[d].rev = drafts[d].rev /\ correction'[d] = view[d].rev
        /\ drafts'[d].approval = drafts[d].approval
        /\ drafts[d].humanSend = NoRev /\ drafts'[d].humanSend = NoRev
        /\ drafts'[d].rev = drafts[d].rev /\ drafts'[d].decl = BotDeclaration(view[d].rev)
        /\ ledger'[d].approved = ledger[d].approved
        /\ ledger'[d].declared = ledger[d].declared \cup {view[d].content}
        /\ ledger'[d].held = FALSE
    BY <1>1, <1>4 DEF RetryWithContext, QueueWithContextCorrection, OthersKept, LedgerOnly, Row, Decisions
  <2>2. Covered(d)'
    BY <1>1, <2>1 DEF Covered, PageWhole, CorrectionCurrent, Declared, DeclarationCurrent,
       HumanSendCurrent, BotDeclaration, NoRev
  <2> QED
    BY <1>4, <2>1, <2>2, OneDecided DEF RetryWithContext
<1>5. CASE AgentQueue(d)
  <2>1. /\ OthersKept(d) /\ LedgerOnly(d)
        /\ \A e \in Draft \ {d} : correction'[e] = correction[e]
        /\ correction'[d] = IF correction[d] = drafts[d].rev THEN NoRev ELSE correction[d]
        /\ plan[d].rev = drafts[d].rev
        /\ drafts'[d].approval = drafts[d].approval /\ drafts'[d].humanSend = NoRev
        /\ drafts'[d].rev = drafts[d].rev /\ drafts'[d].decl = BotDeclaration(plan[d].rev)
        /\ ledger'[d].approved = ledger[d].approved
        /\ ledger'[d].declared = ledger[d].declared \cup {plan[d].content}
        /\ ledger'[d].held = FALSE
    BY <1>1, <1>5 DEF AgentQueue, QueueForSend, CorrectionCurrent, OthersKept, LedgerOnly, Row, Decisions
  <2>2. correction'[d] <= drafts'[d].rev /\ ~CorrectionCurrent(d)'
    BY <1>1, <2>1 DEF Covered, CorrectionCurrent, NoRev
  <2>3. Covered(d)'
    BY <1>1, <2>1, <2>2 DEF Covered, PageWhole, BotDeclaration
  <2> QED
    BY <1>5, <2>1, <2>3, OneDecided DEF AgentQueue
<1>6. ASSUME NEW when \in {"later", "due"}, HumanSend(d, when)
      PROVE  /\ \A e \in Draft : Covered(e)'
             /\ \A e \in Draft : ledger[e].declared \subseteq ledger'[e].declared
             /\ UNCHANGED <<view, plan>>
  <2>1. /\ OthersKept(d) /\ LedgerOnly(d)
        /\ \A e \in Draft \ {d} : correction'[e] = correction[e]
        /\ correction'[d] = IF correction[d] = drafts[d].rev THEN NoRev ELSE correction[d]
        /\ view[d].rev = drafts[d].rev
        /\ drafts'[d].approval = view[d].rev /\ drafts'[d].humanSend = view[d].rev
        /\ drafts'[d].rev = drafts[d].rev /\ drafts'[d].decl = drafts[d].decl
        /\ ledger'[d].approved = ledger[d].approved \cup {view[d].content}
        /\ ledger'[d].sent = view[d].content
        /\ ledger'[d].declared = ledger[d].declared
        /\ ledger'[d].held = FALSE
    BY <1>1, <1>6 DEF HumanSend, QueueWithHumanSend, CorrectionCurrent, OthersKept, LedgerOnly, Row,
       Decisions
  <2>2. correction'[d] <= drafts'[d].rev /\ ~CorrectionCurrent(d)'
    BY <1>1, <2>1 DEF Covered, CorrectionCurrent, NoRev
  <2>3. Covered(d)'
    BY <1>1, <2>1, <2>2 DEF Covered, PageWhole
  <2> QED
    BY <1>6, <2>1, <2>3, OneDecided DEF HumanSend
<1> QED
  BY <1>2, <1>3, <1>4, <1>5, <1>6

\* The calls that decide nothing, and the pages.
LEMMA LooksAndEdits ==
    ASSUME IInv, DecisionInv, NEW d \in Draft,
           View(d) \/ Edit(d) \/ Block(d) \/ Discard(d) \/ Precheck(d)
    PROVE  /\ \A e \in Draft : Undecided(e)
           /\ UNCHANGED ledger
           /\ \A e \in Draft : PageWhole(view'[e]) /\ PageWhole(plan'[e])
<1>1. /\ drafts \in [Draft -> Row] /\ drafts[d] \in Row /\ drafts[d].rev = drafts[d].content
      /\ view \in [Draft -> Page] /\ plan \in [Draft -> Page]
      /\ \A e \in Draft : PageWhole(view[e]) /\ PageWhole(plan[e])
  BY DEF IInv, TypeOK, RowsOK, DraftStoreTypeOK, CockpitTypeOK, DecisionInv
<1>2. CASE View(d) \/ Precheck(d)
  <2>1. PageWhole(PageOf(drafts[d]))
    BY <1>1 DEF PageWhole, PageOf
  <2> QED
    BY <1>1, <1>2, <2>1, StoreStill DEF View, Precheck
<1>3. CASE Block(d) \/ Discard(d)
  BY <1>1, <1>3, RowMoves DEF Block, Discard
<1>4. CASE Edit(d)
  <2>1. /\ UNCHANGED correction /\ OthersKept(d) /\ Schedule(d)
        /\ drafts'[d].rev = drafts[d].rev + 1 /\ drafts'[d].content = drafts[d].content + 1
        /\ drafts'[d].approval = NoRev /\ drafts'[d].humanSend = NoRev
        /\ drafts'[d].decl = drafts[d].decl
    BY <1>1, <1>4 DEF Edit, UpdateContent, OthersKept, Schedule, Row
  <2>2. PageWhole(PageOf(drafts'[d]))
    BY <1>1, <2>1 DEF PageWhole, PageOf
  <2> QED
    BY <1>1, <1>4, <2>1, <2>2, RowStill DEF Edit, Undecided, Edited
<1> QED
  BY <1>2, <1>3, <1>4

LEMMA DecisionKept ==
    ASSUME IInv, FrozenInv, DecisionInv, [Next]_vars
    PROVE  DecisionInv'
<1>1. \A m \in Syncer : SyncerOK(syncer[m])
  BY DEF IInv, LocalsOK
<1>2. ASSUME \A d \in Draft : Undecided(d), UNCHANGED <<ledger, syncer>>,
             \A d \in Draft : PageWhole(view'[d]) /\ PageWhole(plan'[d])
      PROVE  DecisionInv'
  <2>1. \A d \in Draft : Covered(d)'
    BY <1>2, UndecidedCovered
  <2>2. \A m \in Syncer : CarriesDeclared(m)'
    BY <1>1, <1>2, CarriesKept
  <2> QED
    BY <1>2, <2>1, <2>2 DEF DecisionInv
<1>3. UNCHANGED cockpitVars => \A d \in Draft : PageWhole(view'[d]) /\ PageWhole(plan'[d])
  BY DEF cockpitVars, DecisionInv
<1>4. CASE Sweeping
  BY <1>2, <1>3, <1>4, SweepDecidesNothing DEF Sweeping, cockpitVars
<1>5. CASE SendingNow
  BY <1>2, <1>3, <1>5, SendDecidesNothing DEF SendingNow, cockpitVars
<1>6. CASE Syncing
  <2>1. PICK m \in Syncer : SyncerStep(m) /\ UNCHANGED cockpitVars
    BY <1>6 DEF Syncing
  <2>2. (\A d \in Draft : Undecided(d)) /\ UNCHANGED ledger
    BY <2>1, SyncDecidesNothing DEF cockpitVars
  <2>3. \A d \in Draft : Covered(d)'
    BY <2>2, UndecidedCovered
  <2>4. \A o \in Syncer : CarriesDeclared(o)'
    BY <2>1, <2>2, SyncCarries
  <2> QED
    BY <1>3, <2>1, <2>3, <2>4 DEF DecisionInv
<1>7. CASE Deciding
  <2>1. PICK d \in Draft : HumanStep(d) \/ AgentStep(d)
    BY <1>7, AttendedAssumption, DelegatedAssumption DEF Deciding
  <2>2. UNCHANGED syncer
    BY <1>7 DEF Deciding
  <2>3. CASE View(d) \/ Edit(d) \/ Block(d) \/ Discard(d) \/ Precheck(d)
    BY <1>2, <2>2, <2>3, LooksAndEdits
  <2>4. CASE \/ Approve(d) \/ Hold(d) \/ RetryWithContext(d) \/ AgentQueue(d)
             \/ \E when \in {"later", "due"} : HumanSend(d, when)
    <3>1. /\ \A e \in Draft : Covered(e)'
          /\ \A e \in Draft : ledger[e].declared \subseteq ledger'[e].declared
          /\ UNCHANGED <<view, plan>>
      BY <2>4, CallsCovered
    <3>2. \A m \in Syncer : CarriesDeclared(m)'
      BY <1>1, <2>2, <3>1, CarriesKept
    <3> QED
      BY <3>1, <3>2 DEF DecisionInv
  <2> QED
    BY <2>1, <2>3, <2>4 DEF HumanStep, AgentStep
<1>8. CASE Clock
  <2>1. \A d \in Draft : Undecided(d)
    BY <1>8, RowMoves DEF Clock, IInv, TypeOK, DraftStoreTypeOK
  <2> QED
    BY <1>2, <1>3, <1>8, <2>1 DEF Clock, cockpitVars
<1>9. CASE UNCHANGED vars
  BY <1>2, <1>3, <1>9, StoreStill DEF vars, cockpitVars
<1> QED
  BY <1>4, <1>5, <1>6, <1>7, <1>8, <1>9 DEF Next

LEMMA InitDecided ==
    ASSUME Init
    PROVE  DecisionInv
<1>1. ASSUME NEW d \in Draft
      PROVE  /\ drafts[d].approval = NoRev /\ drafts[d].humanSend = NoRev
             /\ drafts[d].decl = NoDeclaration /\ drafts[d].sendAfter = "none"
             /\ drafts[d].rev = 0 /\ correction[d] = NoRev
  BY <1>1 DEF Init, CreatedRow
<1>2. \A d \in Draft : view[d] = NoPage /\ plan[d] = NoPage
  BY DEF Init, CockpitInit
<1>3. \A m \in Syncer : syncer[m].pc = "idle" /\ syncer[m].lease = NoToken
  BY DEF Init, SyncInit, NotSyncing
<1> QED
  BY <1>1, <1>2, <1>3 DEF DecisionInv, Covered, PageWhole, NoPage, CarriesDeclared, NoDeclaration,
     CorrectionCurrent, NoRev

-----------------------------------------------------------------------------
(* The theorems.                                                           *)

\* What rows say was decided was decided, and what pages, plans and modifies
\* carry was read in one piece.
THEOREM DecisionInvariance == Spec => []DecisionInv
<1>1. Init => DecisionInv
  BY InitDecided
<1>2. IInv /\ SettledInv /\ FrozenInv /\ DecisionInv /\ [Next]_vars => DecisionInv'
  BY DecisionKept
<1> QED
  BY <1>1, <1>2, Invariance, SendingInvariance, PTL DEF Spec

\* Only content the human approved from a page that showed it counts as
\* approved, whatever edits and syncs run between the page and the click
\* (approve_draft_revision and queue_draft_with_human_send compare the revision).
THEOREM ApprovalsCover == Spec => []ApprovalCoversContent
<1>1. IInv /\ DecisionInv => ApprovalCoversContent
  <2>1. ASSUME IInv, DecisionInv, NEW d \in Draft, HumanApproved(drafts[d])
        PROVE  drafts[d].content \in ledger[d].approved
    <3>1. drafts[d].rev \in Nat /\ drafts[d].rev = drafts[d].content
      BY <2>1, MaxEditsAssumption DEF IInv, TypeOK, DraftStoreTypeOK, RowsOK, Row, Rev
    <3> QED
      BY <2>1, <3>1 DEF DecisionInv, Covered, HumanApproved, NoRev
  <2> QED
    BY <2>1 DEF ApprovalCoversContent
<1> QED
  BY <1>1, Invariance, DecisionInvariance, PTL

\* The Governor is skipped only for the content of the Human-only Send click
\* that still stands (human_send_surface in store/src/models.rs).
THEOREM ClicksCover == Spec => []GovernorSkippedOnlyByClick
<1>1. IInv /\ DecisionInv => GovernorSkippedOnlyByClick
  <2>1. ASSUME IInv, DecisionInv, NEW d \in Draft, HumanSendAuthorized(drafts[d])
        PROVE  ledger[d].sent = drafts[d].content
    <3>1. drafts[d].rev \in Nat /\ drafts[d].rev = drafts[d].content
      BY <2>1, MaxEditsAssumption DEF IInv, TypeOK, DraftStoreTypeOK, RowsOK, Row, Rev
    <3> QED
      BY <2>1, <3>1 DEF DecisionInv, Covered, HumanSendAuthorized, HumanSendCurrent, NoRev
  <2> QED
    BY <2>1 DEF GovernorSkippedOnlyByClick
<1> QED
  BY <1>1, Invariance, DecisionInvariance, PTL

\* The facts a sweep submits were declared for the content it sends, through
\* failed attempts, stale plans and modifies that write an older declaration
\* back (queue_draft_for_send, apply_synced_draft_edit).
THEOREM DeclarationsCover == Spec => []DeclarationCoversContent
<1>1. IInv /\ DecisionInv => DeclarationCoversContent
  <2>1. ASSUME IInv, DecisionInv, NEW d \in Draft, Declared(drafts[d])
        PROVE  drafts[d].content \in ledger[d].declared
    <3>1. drafts[d].rev = drafts[d].content
      BY <2>1 DEF IInv, RowsOK
    <3> QED
      BY <2>1, <3>1 DEF DecisionInv, Covered, Declared, DeclarationCurrent
  <2> QED
    BY <2>1 DEF DeclarationCoversContent
<1> QED
  BY <1>1, Invariance, DecisionInvariance, PTL

\* After a Hold no sweep has or gets the draft until somebody queues it again,
\* though it was on a due list when the human held it (hold_scheduled_draft).
THEOREM HoldsLast == Spec => []HeldStaysHeld
<1>1. FrozenInv /\ DecisionInv => HeldStaysHeld
  BY DEF FrozenInv, DecisionInv, Covered, HeldStaysHeld, Queued
<1> QED
  BY <1>1, SendingInvariance, DecisionInvariance, PTL

\* A correction that counts belongs to a declared draft the Governor will judge
\* (the three ways into the outbox retire or record it).
THEOREM CorrectionsGoverned == Spec => []CorrectedIsGoverned
<1>1. DecisionInv => CorrectedIsGoverned
  BY DEF DecisionInv, Covered, CorrectedIsGoverned
<1> QED
  BY <1>1, DecisionInvariance, PTL
=============================================================================
