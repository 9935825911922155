----------------------------- MODULE CopyProofs -----------------------------
(***************************************************************************)
(* The copies of drafts in the provider's Drafts folder while nothing      *)
(* fails, for any number of modifies, discards, lookups and sends: at most *)
(* one, known to a row at rest, and with the content an immediate send is  *)
(* to transmit.                                                            *)
(*                                                                         *)
(* Two modifies that read one row race for its lease.  Whoever loses finds *)
(* another revision and gives up, so what a modify with the lease knows of *)
(* the copy is what the row said when it was read (Reads, Works), and      *)
(* every other reader of the row is behind it (Behind).  All steps but     *)
(* those of a modify with its lease are calm: they append nothing and make *)
(* no row forget a copy.                                                   *)
(***************************************************************************)
EXTENDS DeliveryProofs, FiniteSetTheorems

\* A row, or a snapshot of it, with which a modify looks for the copy there is.
Known(d, row) == copies[d] # {} => ProviderCopyMayExist(row)

\* Whoever has read the row for a modify has read it before the last edit.
Behind(d) ==
    \A n \in Syncer : syncer[n].pc = "read" /\ syncer[n].draft = d => syncer[n].snap.rev < drafts[d].rev

Single(d) == copies[d] = {} \/ \E v \in Rev : copies[d] = {v}
Rested(d) == drafts[d].status \notin {"syncing", "sent"} => Known(d, drafts[d])
\* A draft that only modifies edit has a copy of its content, but for the time
\* between the edit and the removal of the old copy.
Current(d) ==
    d \notin Attended =>
        (copies[d] \subseteq {drafts[d].content}
            \/ \E m \in Syncer : syncer[m].draft = d /\ syncer[m].pc = "edited")

FolderOK(d) ==
    /\ Single(d) /\ Rested(d) /\ Current(d)
    /\ d \in LocalOnly => copies[d] = {}

\* What a modify knows at each of its steps.
Reads(m) ==
    LET d == syncer[m].draft
        snap == syncer[m].snap
    IN  syncer[m].pc = "read" =>
            /\ snap.rev <= drafts[d].rev
            /\ snap.rev = drafts[d].rev => Known(d, snap)

Works(m) ==
    LET d == syncer[m].draft
        pc == syncer[m].pc
    IN
    /\ pc \in {"edited", "cleared", "final", "release"} => Behind(d)
    /\ pc \in {"claimed", "edited"} => Known(d, syncer[m].snap)
    /\ pc \in {"edited", "cleared"} => d \notin LocalOnly
    /\ pc = "cleared" => syncer[m].cleared /\ copies[d] = {}
    /\ pc = "final" => (copies[d] # {} => syncer[m].synced)
    /\ pc = "release" => Known(d, drafts[d])
    /\ pc = "found" => syncer[m].uid # NoRev

CopyInv ==
    ~Faults => (\A d \in Draft : FolderOK(d)) /\ (\A m \in Syncer : Reads(m) /\ Works(m))

\* A step that edits no row under a sync lease and appends nothing.
Calm(d) ==
    /\ copies'[d] \subseteq copies[d]
    /\ drafts'[d].rev >= drafts[d].rev
    /\ drafts[d].status = "syncing" <=> drafts'[d].status = "syncing"
    /\ drafts'[d].status # "sent" =>
           /\ drafts[d].status # "sent"
           /\ ProviderCopyMayExist(drafts[d]) => ProviderCopyMayExist(drafts'[d])
    /\ d \notin Attended => drafts'[d].content = drafts[d].content

\* What a step does to a draft some other syncer may be reading, but does not hold.
Disturbed(o, d) ==
    /\ ~SyncerHolds(o, d)
    /\ drafts'[d].rev >= drafts[d].rev
    /\ copies'[d] \subseteq copies[d] \/ Behind(d)

LEMMA RevsAre ==
    ASSUME IInv, IInv', NEW d \in Draft
    PROVE  drafts[d].rev \in Int /\ drafts'[d].rev \in Int
<1>1. drafts[d] \in Row /\ drafts'[d] \in Row
  BY DEF IInv, TypeOK, DraftStoreTypeOK
<1> QED BY <1>1 DEF Row, Rev

LEMMA SnapRev ==
    ASSUME IInv, NEW o \in Syncer, syncer[o].pc = "read"
    PROVE  syncer[o].draft \in Draft /\ syncer[o].snap \in Row /\ syncer[o].snap.rev \in Int
<1>1. SyncerOK(syncer[o])
  BY DEF IInv, LocalsOK
<1>2. syncer[o].draft \in Draft /\ syncer[o].snap \in Row
  BY <1>1 DEF SyncerOK
<1> QED BY <1>2 DEF Row, Rev

LEMMA Leased ==
    ASSUME IInv, NEW o \in Syncer,
           syncer[o].pc \in {"claimed", "edited", "cleared", "final", "release"}
    PROVE  /\ syncer[o].draft \in Draft /\ SyncerHolds(o, syncer[o].draft)
           /\ drafts[syncer[o].draft].status = "syncing"
           /\ drafts[syncer[o].draft].token = syncer[o].lease
<1>1. SyncerOK(syncer[o])
  BY DEF IInv, LocalsOK
<1>2. syncer[o].draft \in Draft /\ SyncerHolds(o, syncer[o].draft)
  BY <1>1 DEF SyncerOK, SyncerHolds
<1> QED BY <1>2 DEF IInv, ClaimsExclude, LeasesAreOwned, Owned

\* A syncer that does not move knows what it knew.
LEMMA Unmoved ==
    ASSUME IInv, IInv', NEW o \in Syncer, syncer'[o] = syncer[o], Reads(o), Works(o),
           \A d \in Draft : Calm(d) \/ Disturbed(o, d),
           \A n \in Syncer : syncer'[n].pc = "read" =>
               syncer'[n] = syncer[n] \/ drafts[syncer'[n].draft].status # "syncing"
    PROVE  Reads(o)' /\ Works(o)'
<1> DEFINE d == syncer[o].draft
           snap == syncer[o].snap
<1>1. Reads(o)'
  <2> SUFFICES ASSUME syncer[o].pc = "read"
               PROVE  /\ snap.rev <= drafts'[d].rev
                      /\ snap.rev = drafts'[d].rev => Known(d, snap)'
    BY DEF Reads
  <2>1. d \in Draft /\ snap.rev \in Int
    BY SnapRev
  <2>2. snap.rev <= drafts[d].rev /\ (snap.rev = drafts[d].rev => Known(d, snap))
    BY DEF Reads
  <2>3. drafts[d].rev \in Int /\ drafts'[d].rev \in Int
    BY <2>1, RevsAre
  <2>4. CASE copies'[d] \subseteq copies[d] /\ drafts'[d].rev >= drafts[d].rev
    BY <2>1, <2>2, <2>3, <2>4 DEF Known
  <2>5. CASE Behind(d) /\ drafts'[d].rev >= drafts[d].rev
    BY <2>1, <2>3, <2>5 DEF Behind
  <2> QED BY <2>1, <2>4, <2>5 DEF Calm, Disturbed
<1>2. Works(o)'
  <2>1. CASE syncer[o].pc \notin {"claimed", "edited", "cleared", "final", "release"}
    BY <2>1 DEF Works
  <2>2. CASE syncer[o].pc \in {"claimed", "edited", "cleared", "final", "release"}
    <3>1. d \in Draft /\ SyncerHolds(o, d) /\ drafts[d].status = "syncing"
      BY <2>2, Leased
    <3>2. Calm(d)
      BY <3>1 DEF Disturbed
    <3>3. drafts[d].rev \in Int /\ drafts'[d].rev \in Int
      BY <3>1, RevsAre
    <3>4. Behind(d) => Behind(d)'
      <4> SUFFICES ASSUME Behind(d), NEW n \in Syncer, syncer'[n].pc = "read", syncer'[n].draft = d
                   PROVE  syncer'[n].snap.rev < drafts'[d].rev
        BY DEF Behind
      <4>1. syncer'[n] = syncer[n]
        BY <3>1
      <4>2. syncer[n].snap.rev < drafts[d].rev /\ syncer[n].snap.rev \in Int
        BY <4>1, SnapRev DEF Behind
      <4> QED BY <3>2, <3>3, <4>1, <4>2 DEF Calm
    <3>5. \A row : Known(d, row) => Known(d, row)'
      BY <3>2 DEF Calm, Known, ProviderCopyMayExist
    <3>6. /\ copies'[d] \subseteq copies[d]
          /\ ProviderCopyMayExist(drafts[d]) => ProviderCopyMayExist(drafts'[d])
      BY <3>1, <3>2 DEF Calm
    <3> QED BY <3>4, <3>5, <3>6 DEF Works, Known
  <2> QED BY <2>1, <2>2
<1> QED BY <1>1, <1>2

\* A draft nobody edits, and no modify but those who keep their place.
LEMMA CalmFolder ==
    ASSUME NEW d \in Draft, FolderOK(d), Calm(d),
           \/ copies'[d] = {}
           \/ \A m \in Syncer : syncer[m].draft = d /\ syncer[m].pc = "edited" => syncer'[m] = syncer[m]
    PROVE  FolderOK(d)'
<1>1. Single(d)'
  BY DEF Calm, Single, FolderOK
<1>2. Rested(d)'
  BY DEF Calm, Rested, Known, FolderOK
<1>3. Current(d)'
  BY DEF Calm, Current, FolderOK
<1> QED BY <1>1, <1>2, <1>3 DEF FolderOK, Calm

\* Steps of everybody but the syncers.
LEMMA CalmCopies ==
    ASSUME IInv, IInv', CopyInv, UNCHANGED syncer, \A d \in Draft : Calm(d)
    PROVE  CopyInv'
<1> SUFFICES ASSUME ~Faults PROVE (\A d \in Draft : FolderOK(d)') /\ (\A m \in Syncer : Reads(m)' /\ Works(m)')
  BY DEF CopyInv
<1>1. \A d \in Draft : FolderOK(d)'
  BY CalmFolder DEF CopyInv
<1>2. \A m \in Syncer : Reads(m)' /\ Works(m)'
  BY Unmoved DEF CopyInv
<1> QED BY <1>1, <1>2

-----------------------------------------------------------------------------
\* The steps of a syncer.
LEMMA SyncMoves ==
    ASSUME IInv, IInv', CopyInv, ~Faults, NEW m \in Syncer,
           \A o \in Syncer \ {m} : syncer'[o] = syncer[o],
           \A d \in Draft : FolderOK(d)',
           \A o \in Syncer \ {m}, d \in Draft : Calm(d) \/ Disturbed(o, d),
           syncer'[m].pc = "read" => drafts[syncer'[m].draft].status # "syncing",
           Reads(m)', Works(m)'
    PROVE  CopyInv'
<1>1. ASSUME NEW o \in Syncer \ {m}
      PROVE  Reads(o)' /\ Works(o)'
  BY Unmoved DEF CopyInv
<1> QED BY <1>1 DEF CopyInv

LEMMA SyncerSet ==
    ASSUME IInv, NEW m \in Syncer, NEW p, syncer' = [syncer EXCEPT ![m] = p]
    PROVE  syncer'[m] = p /\ \A o \in Syncer \ {m} : syncer'[o] = syncer[o]
BY DEF IInv, TypeOK, SyncTypeOK

\* One that is not modifying.
LEMMA Passes ==
    ASSUME IInv, IInv', CopyInv, ~Faults, NEW m \in Syncer, NEW p,
           syncer' = [syncer EXCEPT ![m] = p], \A d \in Draft : Calm(d),
           syncer[m].pc # "edited",
           p.pc \in {"idle", "discard", "discardLocal", "found"},
           p.pc = "found" => p.uid # NoRev
    PROVE  CopyInv'
<1>1. syncer'[m] = p /\ \A o \in Syncer \ {m} : syncer'[o] = syncer[o]
  BY SyncerSet
<1>2. ASSUME NEW d \in Draft PROVE FolderOK(d)'
  BY <1>1, CalmFolder DEF CopyInv
<1>3. Reads(m)' /\ Works(m)'
  BY <1>1 DEF Reads, Works
<1> QED BY <1>1, <1>2, <1>3, SyncMoves

LEMMA Table == IInv => drafts \in [Draft -> Row]
BY DEF IInv, TypeOK, DraftStoreTypeOK

LEMMA RowsAre == ASSUME IInv, NEW d \in Draft PROVE drafts[d] \in Row /\ copies[d] \subseteq Rev
BY DEF IInv, TypeOK, DraftStoreTypeOK, MailServerTypeOK

\* Nothing written is calm.
LEMMA NothingCalm ==
    ASSUME IInv, UNCHANGED drafts, NEW d \in Draft, copies'[d] \subseteq copies[d]
    PROVE  Calm(d)
<1>1. drafts[d].rev \in Int
  BY RowsAre DEF Row, Rev
<1> QED BY <1>1 DEF Calm

\* A calm step on one row.
LEMMA RowCalm ==
    ASSUME IInv, NEW d \in Draft, OthersKept(d), \A e \in Draft : copies'[e] \subseteq copies[e],
           Calm(d)
    PROVE  \A e \in Draft : Calm(e)
<1>1. ASSUME NEW e \in Draft \ {d} PROVE Calm(e)
  <2>1. drafts'[e] = drafts[e] /\ drafts[e].rev \in Int
    BY RowsAre DEF OthersKept, Row, Rev
  <2> QED BY <2>1 DEF Calm
<1> QED BY <1>1

\* Statements on rows without a sync lease.
LEMMA DiscardCalm ==
    ASSUME IInv, NEW d \in Draft, DiscardDraft(d), UNCHANGED copies
    PROVE  \A e \in Draft : Calm(e)
<1>1. drafts \in [Draft -> Row] /\ drafts[d] \in Row /\ drafts[d].rev \in Int
  BY Table, RowsAre DEF Row, Rev
<1>2. /\ drafts'[d].rev = drafts[d].rev /\ drafts'[d].content = drafts[d].content
      /\ drafts'[d].imapUid = drafts[d].imapUid /\ drafts'[d].imapSynced = drafts[d].imapSynced
      /\ drafts[d].status \in Discardable /\ drafts'[d].status = "discarded" /\ OthersKept(d)
  BY <1>1 DEF DiscardDraft, OthersKept, Row
<1>3. Calm(d)
  BY <1>1, <1>2 DEF Calm, ProviderCopyMayExist, Discardable, Editable
<1> QED BY <1>2, <1>3, RowCalm

LEMMA RelinkCalm ==
    ASSUME IInv, NEW d \in Draft, NEW uid, uid # NoRev, RelinkUid(d, uid), UNCHANGED copies
    PROVE  \A e \in Draft : Calm(e)
<1>1. drafts \in [Draft -> Row] /\ drafts[d] \in Row /\ drafts[d].rev \in Int
  BY Table, RowsAre DEF Row, Rev
<1>2. /\ drafts'[d].rev = drafts[d].rev /\ drafts'[d].content = drafts[d].content
      /\ drafts'[d].imapUid = uid /\ drafts'[d].imapSynced = drafts[d].imapSynced
      /\ drafts[d].status \in Editable /\ drafts'[d].status = drafts[d].status /\ OthersKept(d)
  BY <1>1 DEF RelinkUid, OthersKept, Row
<1>3. Calm(d)
  BY <1>1, <1>2 DEF Calm, ProviderCopyMayExist, Editable
<1> QED BY <1>2, <1>3, RowCalm

LEMMA ReadCopies ==
    ASSUME IInv, IInv', CopyInv, ~Faults, NEW m \in Syncer, NEW d \in Draft, ReadForModify(m, d)
    PROVE  CopyInv'
<1> DEFINE p == [NotSyncing EXCEPT !.pc = "read", !.draft = d, !.snap = drafts[d]]
<1>1. syncer'[m] = p /\ \A o \in Syncer \ {m} : syncer'[o] = syncer[o]
  BY SyncerSet DEF ReadForModify
<1>2. UNCHANGED <<drafts, copies>> /\ drafts[d].status \in Editable /\ syncer[m].pc = "idle"
  BY DEF ReadForModify, storeVars, mailVars
<1>3. \A e \in Draft : Calm(e)
  BY <1>2, NothingCalm
<1>4. p.pc = "read" /\ p.draft = d /\ p.snap = drafts[d]
  BY DEF NotSyncing
<1> HIDE DEF p
<1>5. \A e \in Draft : FolderOK(e)'
  BY <1>1, <1>2, <1>3, CalmFolder DEF CopyInv
<1>6. Known(d, drafts[d]) /\ drafts[d].rev \in Int
  BY <1>2, RowsAre DEF CopyInv, FolderOK, Rested, Editable, Row, Rev
<1>7. Reads(m)' /\ Works(m)'
  BY <1>1, <1>2, <1>4, <1>6 DEF Reads, Works, Known
<1> QED BY <1>1, <1>2, <1>3, <1>4, <1>5, <1>7, SyncMoves DEF Editable

\* Steps of a modify with its lease, on its draft.
LEMMA Modifies ==
    ASSUME IInv, IInv', CopyInv, ~Faults, NEW m \in Syncer, NEW d \in Draft, syncer[m].draft = d,
           \A o \in Syncer \ {m} : syncer'[o] = syncer[o], syncer'[m].pc # "read",
           SyncerHolds(m, d) \/ Free(d), OthersKept(d),
           \A e \in Draft \ {d} : copies'[e] = copies[e],
           drafts'[d].rev >= drafts[d].rev,
           copies'[d] \subseteq copies[d] \/ Behind(d), FolderOK(d)', Works(m)'
    PROVE  CopyInv'
<1>2. ASSUME NEW e \in Draft \ {d} PROVE Calm(e) /\ FolderOK(e)'
  <2>1. drafts'[e] = drafts[e] /\ drafts[e].rev \in Int
    BY RowsAre DEF OthersKept, Row, Rev
  <2>2. Calm(e)
    BY <2>1 DEF Calm
  <2> QED BY <2>2, CalmFolder DEF CopyInv
<1>3. ASSUME NEW o \in Syncer \ {m} PROVE Disturbed(o, d)
  <2>1. CASE SyncerHolds(m, d)
    BY <2>1 DEF Disturbed, IInv, ClaimsExclude
  <2>2. CASE Free(d)
    BY <2>2 DEF Disturbed, Free, IInv, ClaimsExclude, LeasesAreOwned, Owned
  <2> QED BY <2>1, <2>2
<1>4. Reads(m)'
  BY DEF Reads
<1>5. \A e \in Draft : FolderOK(e)'
  BY <1>2
<1>6. \A o \in Syncer \ {m}, e \in Draft : Calm(e) \/ Disturbed(o, e)
  BY <1>2, <1>3
<1> QED BY <1>4, <1>5, <1>6, SyncMoves

LEMMA ClaimCopies ==
    ASSUME IInv, IInv', CopyInv, ~Faults, NEW m \in Syncer, SyncClaim(m)
    PROVE  CopyInv'
<1> PICK d \in Draft : d = syncer[m].draft
  BY SnapRev DEF SyncClaim
<1> DEFINE snap == syncer[m].snap
<1>1. syncer[m].pc = "read" /\ UNCHANGED copies
  BY DEF SyncClaim, mailVars
<1>2. d \in Draft /\ snap \in Row
  BY <1>1, SnapRev
<1>3. PICK t \in Token :
          /\ ClaimForSync(d, snap.rev, t)
          /\ syncer' = [syncer EXCEPT ![m].pc = "claimed", ![m].lease = t, ![m].prior = drafts[d].status]
  BY DEF SyncClaim
<1> DEFINE p == [syncer[m] EXCEPT !.pc = "claimed", !.lease = t, !.prior = drafts[d].status]
<1>4. syncer[m] \in SyncerState /\ syncer' = [syncer EXCEPT ![m] = p]
  BY <1>3 DEF IInv, TypeOK, SyncTypeOK
<1>5. p.pc = "claimed" /\ p.draft = d /\ p.snap = snap
  BY <1>4 DEF SyncerState
<1> HIDE DEF p
<1>6. syncer'[m] = p
  BY <1>4, SyncerSet
<1>7. drafts \in [Draft -> Row] /\ drafts[d] \in Row /\ drafts[d].rev \in Int
  BY <1>2, Table, RowsAre DEF Row, Rev
<1>8. /\ drafts'[d].status = "syncing" /\ drafts'[d].rev = drafts[d].rev
      /\ drafts'[d].content = drafts[d].content
      /\ drafts[d].status \in Editable /\ drafts[d].rev = snap.rev /\ OthersKept(d)
  BY <1>2, <1>3, <1>7 DEF ClaimForSync, SyncClaimable, OthersKept, Row
<1>9. Known(d, snap)
  BY <1>1, <1>8 DEF CopyInv, Reads
<1>10. Works(m)'
  BY <1>1, <1>5, <1>6, <1>9 DEF Works, Known
<1>11. \A o \in Syncer \ {m} : syncer'[o] = syncer[o]
  BY <1>4, SyncerSet
<1>12. FolderOK(d)'
  <2>1. FolderOK(d)
    BY <1>2 DEF CopyInv
  <2>2. Single(d)' /\ Rested(d)'
    BY <1>1, <1>8, <2>1 DEF FolderOK, Single, Rested
  <2>3. Current(d)'
    BY <1>1, <1>8, <1>11, <2>1 DEF FolderOK, Current
  <2> QED BY <1>1, <2>1, <2>2, <2>3 DEF FolderOK
<1>13. Free(d) /\ drafts'[d].rev >= drafts[d].rev /\ syncer'[m].pc # "read"
  BY <1>5, <1>6, <1>7, <1>8 DEF Free, Editable
<1> QED BY <1>1, <1>2, <1>8, <1>10, <1>11, <1>12, <1>13, Modifies

LEMMA EditCopies ==
    ASSUME IInv, IInv', CopyInv, ~Faults, NEW m \in Syncer, ApplyEdit(m)
    PROVE  CopyInv'
<1> PICK d \in Draft : d = syncer[m].draft
  BY Leased DEF ApplyEdit
<1> DEFINE snap == syncer[m].snap
           pc == IF d \in LocalOnly THEN "final" ELSE "edited"
<1>1. syncer[m].pc = "claimed" /\ UNCHANGED copies /\ ApplySyncedEdit(d, syncer[m].lease, snap)
  BY DEF ApplyEdit, mailVars
<1>2. d \in Draft /\ SyncerHolds(m, d) /\ drafts[d].status = "syncing"
  BY <1>1, Leased
<1> DEFINE p == [syncer[m] EXCEPT !.pc = pc]
<1>3. syncer[m] \in SyncerState /\ syncer' = [syncer EXCEPT ![m] = p]
  BY DEF IInv, TypeOK, SyncTypeOK, ApplyEdit, SyncerAt
<1>4. p.pc = pc /\ p.draft = d /\ p.snap = snap /\ p.synced = syncer[m].synced
  BY <1>3 DEF SyncerState
<1> HIDE DEF p
<1>5. syncer'[m] = p /\ \A o \in Syncer \ {m} : syncer'[o] = syncer[o]
  BY <1>3, SyncerSet
<1>6. drafts \in [Draft -> Row] /\ drafts[d] \in Row /\ drafts[d].rev \in Int
  BY <1>2, Table, RowsAre DEF Row, Rev
<1>7. /\ drafts'[d].status = "syncing" /\ drafts'[d].rev = drafts[d].rev + 1 /\ OthersKept(d)
  BY <1>1, <1>2, <1>6 DEF ApplySyncedEdit, OthersKept, Row
<1>8. Behind(d)'
  <2> SUFFICES ASSUME NEW n \in Syncer, syncer'[n].pc = "read", syncer'[n].draft = d
               PROVE  syncer'[n].snap.rev < drafts'[d].rev
    BY DEF Behind
  <2>1. syncer'[n] = syncer[n]
    BY <1>4, <1>5
  <2>2. syncer[n].snap.rev <= drafts[d].rev /\ syncer[n].snap.rev \in Int
    BY <2>1, SnapRev DEF CopyInv, Reads
  <2> QED BY <1>6, <1>7, <2>1, <2>2
<1>9. Known(d, snap) /\ FolderOK(d)
  BY <1>1, <1>2 DEF CopyInv, Works
<1>10. Works(m)'
  BY <1>1, <1>4, <1>5, <1>8, <1>9 DEF Works, Known, FolderOK
<1>11. FolderOK(d)'
  <2>1. Single(d)' /\ Rested(d)'
    BY <1>1, <1>7, <1>9 DEF FolderOK, Single, Rested
  <2>2. Current(d)'
    BY <1>1, <1>4, <1>5, <1>9 DEF FolderOK, Current
  <2> QED BY <1>1, <1>9, <2>1, <2>2 DEF FolderOK
<1>12. drafts'[d].rev >= drafts[d].rev /\ syncer'[m].pc # "read"
  BY <1>4, <1>5, <1>6, <1>7
<1> QED BY <1>1, <1>2, <1>5, <1>7, <1>10, <1>11, <1>12, Modifies

LEMMA ClearCopies ==
    ASSUME IInv, IInv', CopyInv, ~Faults, NEW m \in Syncer, ClearOldCopies(m)
    PROVE  CopyInv'
<1> PICK d \in Draft : d = syncer[m].draft
  BY Leased DEF ClearOldCopies
<1>1. syncer[m].pc = "edited" /\ UNCHANGED drafts
  BY DEF ClearOldCopies, storeVars
<1>2. d \in Draft /\ SyncerHolds(m, d) /\ drafts[d].status = "syncing"
  BY <1>1, Leased
<1> DEFINE p == [syncer[m] EXCEPT !.pc = "cleared", !.cleared = TRUE]
<1>3. syncer[m] \in SyncerState /\ syncer' = [syncer EXCEPT ![m] = p]
  BY DEF IInv, TypeOK, SyncTypeOK, ClearOldCopies
<1>4. p.pc = "cleared" /\ p.draft = d /\ p.cleared
  BY <1>3 DEF SyncerState
<1> HIDE DEF p
<1>5. syncer'[m] = p /\ \A o \in Syncer \ {m} : syncer'[o] = syncer[o]
  BY <1>3, SyncerSet
<1>6. Known(d, syncer[m].snap) /\ Behind(d) /\ d \notin LocalOnly
  BY <1>1 DEF CopyInv, Works
<1>7. copies'[d] = {} /\ \A e \in Draft \ {d} : copies'[e] = copies[e]
  <2>1. copies \in [Draft -> SUBSET Rev]
    BY DEF IInv, TypeOK, MailServerTypeOK
  <2>2. CASE ~ProviderCopyMayExist(syncer[m].snap)
    BY <1>6, <2>2 DEF ClearOldCopies, mailVars, Known
  <2>3. CASE ProviderCopyMayExist(syncer[m].snap)
    BY <1>2, <2>1, <2>3 DEF ClearOldCopies, RemoveCopies
  <2> QED BY <2>2, <2>3
<1>8. Behind(d)'
  BY <1>1, <1>4, <1>5, <1>6 DEF Behind
<1>9. Works(m)'
  BY <1>4, <1>5, <1>6, <1>7, <1>8 DEF Works
<1>10. FolderOK(d)'
  BY <1>1, <1>2, <1>7 DEF FolderOK, Single, Rested, Current
<1>11. drafts'[d].rev >= drafts[d].rev /\ OthersKept(d) /\ syncer'[m].pc # "read"
  BY <1>1, <1>2, <1>4, <1>5, RowsAre DEF OthersKept, Row, Rev
<1> QED BY <1>2, <1>5, <1>6, <1>7, <1>9, <1>10, <1>11, Modifies

LEMMA AppendCopies ==
    ASSUME IInv, IInv', CopyInv, ~Faults, NEW m \in Syncer, AppendReplacement(m)
    PROVE  CopyInv'
<1> PICK d \in Draft : d = syncer[m].draft
  BY Leased DEF AppendReplacement
<1> PICK content \in Rev : content = drafts[d].content
  BY RowsAre DEF Row
<1>1. syncer[m].pc = "cleared" /\ UNCHANGED drafts
  BY DEF AppendReplacement, storeVars
<1>2. d \in Draft /\ SyncerHolds(m, d) /\ drafts[d].status = "syncing"
  BY <1>1, Leased
<1>3. syncer[m].cleared /\ copies[d] = {} /\ Behind(d) /\ d \notin LocalOnly
  BY <1>1 DEF CopyInv, Works
<1>4. AppendCopy(d, content)
      /\ syncer' = [syncer EXCEPT ![m].pc = "final", ![m].synced = TRUE, ![m].uid = content]
  BY <1>3 DEF AppendReplacement
<1> DEFINE p == [syncer[m] EXCEPT !.pc = "final", !.synced = TRUE, !.uid = content]
<1>5. syncer[m] \in SyncerState /\ syncer' = [syncer EXCEPT ![m] = p]
  BY <1>4 DEF IInv, TypeOK, SyncTypeOK
<1>6. p.pc = "final" /\ p.draft = d /\ p.synced
  BY <1>5 DEF SyncerState
<1> HIDE DEF p
<1>7. syncer'[m] = p /\ \A o \in Syncer \ {m} : syncer'[o] = syncer[o]
  BY <1>5, SyncerSet
<1>8. copies'[d] = {content} /\ \A e \in Draft \ {d} : copies'[e] = copies[e]
  <2>1. copies \in [Draft -> SUBSET Rev]
    BY DEF IInv, TypeOK, MailServerTypeOK
  <2> QED BY <1>2, <1>3, <1>4, <2>1 DEF AppendCopy
<1>9. Behind(d)'
  BY <1>1, <1>3, <1>6, <1>7 DEF Behind
<1>10. Works(m)'
  BY <1>6, <1>7, <1>9 DEF Works
<1>12. FolderOK(d)'
  BY <1>1, <1>2, <1>3, <1>8 DEF FolderOK, Single, Rested, Current
<1>13. drafts'[d].rev >= drafts[d].rev /\ OthersKept(d) /\ syncer'[m].pc # "read"
  BY <1>1, <1>2, <1>6, <1>7, RowsAre DEF OthersKept, Row, Rev
<1> QED BY <1>2, <1>3, <1>7, <1>8, <1>10, <1>12, <1>13, Modifies

LEMMA FinalCopies ==
    ASSUME IInv, IInv', CopyInv, ~Faults, NEW m \in Syncer, Finalize(m)
    PROVE  CopyInv'
<1> PICK d \in Draft : d = syncer[m].draft
  BY Leased DEF Finalize
<1>1. /\ syncer[m].pc = "final" /\ UNCHANGED copies
      /\ FinalizeSynced(d, syncer[m].lease, syncer[m].uid, syncer[m].synced)
  BY DEF Finalize, mailVars
<1>2. d \in Draft /\ SyncerHolds(m, d) /\ drafts[d].status = "syncing"
  BY <1>1, Leased
<1> DEFINE p == [syncer[m] EXCEPT !.pc = "release"]
<1>3. syncer[m] \in SyncerState /\ syncer' = [syncer EXCEPT ![m] = p]
  BY DEF IInv, TypeOK, SyncTypeOK, Finalize, SyncerAt
<1>4. p.pc = "release" /\ p.draft = d
  BY <1>3 DEF SyncerState
<1> HIDE DEF p
<1>5. syncer'[m] = p /\ \A o \in Syncer \ {m} : syncer'[o] = syncer[o]
  BY <1>3, SyncerSet
<1>6. drafts \in [Draft -> Row] /\ drafts[d] \in Row /\ drafts[d].rev \in Int
  BY <1>2, Table, RowsAre DEF Row, Rev
<1>7. /\ drafts'[d].status = "syncing" /\ drafts'[d].rev = drafts[d].rev /\ OthersKept(d)
      /\ drafts'[d].content = drafts[d].content /\ drafts'[d].imapSynced = syncer[m].synced
  BY <1>1, <1>2, <1>6 DEF FinalizeSynced, OthersKept, Row
<1>8. Behind(d) /\ (copies[d] # {} => syncer[m].synced) /\ FolderOK(d)
  BY <1>1, <1>2 DEF CopyInv, Works
<1>9. Behind(d)'
  BY <1>4, <1>5, <1>7, <1>8 DEF Behind
<1>10. Known(d, drafts[d])'
  BY <1>1, <1>7, <1>8 DEF Known, ProviderCopyMayExist
<1>11. Works(m)'
  BY <1>4, <1>5, <1>9, <1>10 DEF Works, Known
<1>12. FolderOK(d)'
  <2>1. Single(d)' /\ Rested(d)'
    BY <1>1, <1>7, <1>8 DEF FolderOK, Single, Rested
  <2>2. Current(d)'
    BY <1>1, <1>5, <1>7, <1>8 DEF FolderOK, Current
  <2> QED BY <1>1, <1>8, <2>1, <2>2 DEF FolderOK
<1>13. drafts'[d].rev >= drafts[d].rev /\ syncer'[m].pc # "read"
  BY <1>4, <1>5, <1>6, <1>7
<1> QED BY <1>1, <1>2, <1>5, <1>7, <1>11, <1>12, <1>13, Modifies

LEMMA ReleaseCopies ==
    ASSUME IInv, IInv', CopyInv, ~Faults, NEW m \in Syncer, SyncRelease(m)
    PROVE  CopyInv'
<1> PICK d \in Draft : d = syncer[m].draft
  BY Leased DEF SyncRelease
<1>1. /\ syncer[m].pc = "release" /\ UNCHANGED copies
      /\ ReleaseSyncing(d, syncer[m].lease, syncer[m].prior)
      /\ syncer' = [syncer EXCEPT ![m] = NotSyncing]
  BY DEF SyncRelease, FinishSync, mailVars
<1>2. d \in Draft /\ SyncerHolds(m, d) /\ drafts[d].status = "syncing"
  BY <1>1, Leased
<1>3. syncer[m].prior \in Editable
  BY <1>2 DEF IInv, LocalsOK, SyncerOK, SyncerHolds
<1>4. syncer'[m] = NotSyncing /\ \A o \in Syncer \ {m} : syncer'[o] = syncer[o]
  BY <1>1, SyncerSet
<1>5. drafts \in [Draft -> Row] /\ drafts[d] \in Row /\ drafts[d].rev \in Int
  BY <1>2, Table, RowsAre DEF Row, Rev
<1>6. /\ drafts'[d].rev = drafts[d].rev /\ OthersKept(d)
      /\ drafts'[d].content = drafts[d].content /\ drafts'[d].imapSynced = drafts[d].imapSynced
      /\ drafts'[d].imapUid = drafts[d].imapUid
  BY <1>1, <1>2, <1>5 DEF ReleaseSyncing, OthersKept, Row
<1>7. Known(d, drafts[d]) /\ FolderOK(d)
  BY <1>1, <1>2 DEF CopyInv, Works
<1>8. NotSyncing.pc = "idle"
  BY DEF NotSyncing
<1>9. Works(m)'
  BY <1>4, <1>8 DEF Works
<1>10. FolderOK(d)'
  <2>1. Single(d)' /\ Rested(d)'
    BY <1>1, <1>6, <1>7 DEF FolderOK, Single, Rested, Known, ProviderCopyMayExist
  <2>2. Current(d)'
    BY <1>1, <1>4, <1>6, <1>7 DEF FolderOK, Current
  <2> QED BY <1>1, <1>7, <2>1, <2>2 DEF FolderOK
<1>11. drafts'[d].rev >= drafts[d].rev /\ syncer'[m].pc # "read"
  BY <1>4, <1>5, <1>6, <1>8
<1> QED BY <1>1, <1>2, <1>4, <1>6, <1>9, <1>10, <1>11, Modifies

LEMMA SyncingCopies ==
    ASSUME IInv, IInv', CopyInv, ~Faults, NEW m \in Syncer, SyncerStep(m)
    PROVE  CopyInv'
<1> DEFINE d == syncer[m].draft
<1>1. SyncerOK(syncer[m]) /\ syncer[m] \in SyncerState
  BY DEF IInv, LocalsOK, TypeOK, SyncTypeOK
<1>2. copies \in [Draft -> SUBSET Rev]
  BY DEF IInv, TypeOK, MailServerTypeOK
<1>3. NotSyncing.pc = "idle"
  BY DEF NotSyncing
<1>4. CASE SyncClaimLost(m)
  <2>1. UNCHANGED <<drafts, copies>> /\ syncer' = [syncer EXCEPT ![m] = NotSyncing]
        /\ syncer[m].pc = "read"
    BY <1>4 DEF SyncClaimLost, FinishSync, storeVars, mailVars
  <2>2. \A e \in Draft : Calm(e)
    BY <2>1, NothingCalm
  <2> QED BY <1>3, <2>1, <2>2, Passes
<1>5. ASSUME NEW e \in Draft, ReadForDiscard(m, e) PROVE CopyInv'
  <2> DEFINE p == [NotSyncing EXCEPT !.draft = e, !.uid = drafts[e].imapUid,
                      !.pc = IF drafts[e].imapUid # NoRev THEN "discard" ELSE "discardLocal"]
  <2>1. UNCHANGED <<drafts, copies>> /\ syncer' = [syncer EXCEPT ![m] = p] /\ syncer[m].pc = "idle"
    BY <1>5 DEF ReadForDiscard, storeVars, mailVars
  <2>2. \A f \in Draft : Calm(f)
    BY <2>1, NothingCalm
  <2>3. p.pc \in {"discard", "discardLocal"}
    BY DEF NotSyncing
  <2> HIDE DEF p
  <2> QED BY <2>1, <2>2, <2>3, Passes
<1>6. CASE DeleteProviderCopy(m)
  <2> DEFINE p == [syncer[m] EXCEPT !.pc = "discardLocal"]
  <2>1. UNCHANGED drafts /\ syncer' = [syncer EXCEPT ![m] = p] /\ syncer[m].pc = "discard"
    BY <1>6 DEF DeleteProviderCopy, SyncerAt, storeVars, IInv, TypeOK, SyncTypeOK
  <2>2. \A f \in Draft : copies'[f] \subseteq copies[f]
    BY <1>2, <1>6 DEF DeleteProviderCopy, RemoveCopies, mailVars
  <2>3. \A f \in Draft : Calm(f)
    BY <2>1, <2>2, NothingCalm
  <2>4. p.pc = "discardLocal"
    BY <1>1 DEF SyncerState
  <2> HIDE DEF p
  <2> QED BY <2>1, <2>3, <2>4, Passes
<1>7. CASE DiscardLocal(m)
  <2>1. d \in Draft /\ syncer' = [syncer EXCEPT ![m] = NotSyncing] /\ syncer[m].pc = "discardLocal"
        /\ UNCHANGED copies /\ (DiscardDraft(d) \/ UNCHANGED drafts)
    BY <1>1, <1>7 DEF DiscardLocal, FinishSync, storeVars, mailVars, SyncerOK
  <2>2. \A e \in Draft : Calm(e)
    BY <2>1, DiscardCalm, NothingCalm
  <2> QED BY <1>3, <2>1, <2>2, Passes
<1>8. CASE LinkCopy(m)
  <2>1. d \in Draft /\ syncer' = [syncer EXCEPT ![m] = NotSyncing] /\ syncer[m].pc = "found"
        /\ UNCHANGED copies /\ (RelinkUid(d, syncer[m].uid) \/ UNCHANGED drafts)
    BY <1>1, <1>8 DEF LinkCopy, FinishSync, storeVars, mailVars, SyncerOK
  <2>2. syncer[m].uid # NoRev
    BY <2>1 DEF CopyInv, Works
  <2>3. \A e \in Draft : Calm(e)
    BY <2>1, <2>2, RelinkCalm, NothingCalm
  <2> QED BY <1>3, <2>1, <2>3, Passes
<1>9. ASSUME NEW e \in Draft, FindCopy(m, e) PROVE CopyInv'
  <2>1. PICK uid \in copies[e] :
          syncer' = [syncer EXCEPT ![m] = [NotSyncing EXCEPT !.pc = "found", !.draft = e, !.uid = uid]]
    BY <1>9 DEF FindCopy
  <2> DEFINE p == [NotSyncing EXCEPT !.pc = "found", !.draft = e, !.uid = uid]
  <2>2. UNCHANGED <<drafts, copies>> /\ syncer' = [syncer EXCEPT ![m] = p] /\ syncer[m].pc = "idle"
    BY <1>9, <2>1 DEF FindCopy, storeVars, mailVars
  <2>3. \A f \in Draft : Calm(f)
    BY <2>2, NothingCalm
  <2>4. uid # NoRev
    BY <1>2, <2>1, MaxEditsAssumption DEF Rev, NoRev
  <2>5. p.pc = "found" /\ p.uid = uid
    BY DEF NotSyncing
  <2> HIDE DEF p
  <2> QED BY <2>2, <2>3, <2>4, <2>5, Passes
<1> QED
  BY <1>4, <1>5, <1>6, <1>7, <1>8, <1>9, ReadCopies, ClaimCopies, EditCopies, ClearCopies,
     AppendCopies, FinalCopies, ReleaseCopies DEF SyncerStep, ModifyError, SyncerCrash

-----------------------------------------------------------------------------
\* Everybody else is calm.
LEMMA CallsCalm ==
    ASSUME IInv, NEW d \in Draft, NEW t, NEW rev, NEW when, NEW decl, NEW to \in Editable, UNCHANGED copies,
           \/ ClaimForSending(d, rev, t) \/ ClaimForImmediateSend(d, rev, t) \/ ReleaseSending(d, t, to)
           \/ MarkSent(d, t) \/ ParkDeliveryUncertain(d, t) \/ ParkForReview(d, t)
           \/ DeferAttributionRetry(d, t, decl) \/ ParkAttributionExhausted(d, t, decl)
           \/ ApproveRevision(d, rev) \/ UpdateStatus(d, "blocked") \/ HoldScheduled(d)
           \/ QueueForSend(d, rev, when) \/ QueueWithHumanSend(d, rev, when)
           \/ QueueWithContextCorrection(d, rev, when) \/ BecomeDue(d)
    PROVE  \A e \in Draft : Calm(e)
<1>1. drafts \in [Draft -> Row] /\ drafts[d] \in Row /\ drafts[d].rev \in Int
  BY Table, RowsAre DEF Row, Rev
<1>2. OthersKept(d)
  BY <1>1 DEF ClaimForSending, ClaimForImmediateSend, ReleaseSending, MarkSent, ParkDeliveryUncertain,
     ParkForReview, DeferAttributionRetry, ParkAttributionExhausted, ApproveRevision, UpdateStatus,
     HoldScheduled, QueueForSend, QueueWithHumanSend, QueueWithContextCorrection, BecomeDue, OthersKept
<1>3. /\ drafts'[d].rev = drafts[d].rev /\ drafts'[d].content = drafts[d].content
      /\ drafts[d].status = "syncing" <=> drafts'[d].status = "syncing"
      /\ drafts'[d].status # "sent" =>
             /\ drafts[d].status # "sent"
             /\ drafts'[d].imapUid = drafts[d].imapUid /\ drafts'[d].imapSynced = drafts[d].imapSynced
  <2>1. CASE ClaimForSending(d, rev, t) \/ ClaimForImmediateSend(d, rev, t)
    BY <1>1, <2>1 DEF ClaimForSending, ClaimForImmediateSend, SendClaimable, ImmediateClaimable, Due, Row
  <2>2. CASE ReleaseSending(d, t, to) \/ MarkSent(d, t)
    BY <1>1, <2>2 DEF ReleaseSending, MarkSent, Owned, Editable, Row
  <2>3. CASE ParkDeliveryUncertain(d, t) \/ ParkForReview(d, t)
    BY <1>1, <2>3 DEF ParkDeliveryUncertain, ParkForReview, Owned, Row
  <2>4. CASE DeferAttributionRetry(d, t, decl) \/ ParkAttributionExhausted(d, t, decl)
    BY <1>1, <2>4 DEF DeferAttributionRetry, ParkAttributionExhausted, Owned, Row
  <2>5. CASE ApproveRevision(d, rev) \/ UpdateStatus(d, "blocked")
    BY <1>1, <2>5 DEF ApproveRevision, SyncClaimable, UpdateStatus, Editable, Row
  <2>6. CASE HoldScheduled(d) \/ BecomeDue(d)
    BY <1>1, <2>6 DEF HoldScheduled, BecomeDue, Row
  <2>7. CASE QueueForSend(d, rev, when)
    BY <1>1, <2>7 DEF QueueForSend, Queueable, Row
  <2>8. CASE QueueWithHumanSend(d, rev, when)
    BY <1>1, <2>8 DEF QueueWithHumanSend, Queueable, Row
  <2>9. CASE QueueWithContextCorrection(d, rev, when)
    BY <1>1, <2>9 DEF QueueWithContextCorrection, Row
  <2> QED
    BY <2>1, <2>2, <2>3, <2>4, <2>5, <2>6, <2>7, <2>8, <2>9
<1>4. Calm(d)
  BY <1>1, <1>3 DEF Calm, ProviderCopyMayExist
<1> QED
  BY <1>2, <1>4, RowCalm

\* The human's edit, of a draft the human attends to.
LEMMA EditCalm ==
    ASSUME IInv, NEW d \in Draft, d \in Attended, NEW rev, UpdateContent(d, rev), UNCHANGED copies
    PROVE  \A e \in Draft : Calm(e)
<1>1. drafts \in [Draft -> Row] /\ drafts[d] \in Row /\ drafts[d].rev \in Int
  BY Table, RowsAre DEF Row, Rev
<1>2. /\ drafts'[d].rev = drafts[d].rev + 1 /\ drafts'[d].status = drafts[d].status
      /\ drafts'[d].imapUid = drafts[d].imapUid /\ drafts'[d].imapSynced = drafts[d].imapSynced
      /\ drafts[d].status \in Editable /\ OthersKept(d)
  BY <1>1 DEF UpdateContent, SyncClaimable, OthersKept, Row
<1>3. Calm(d)
  BY <1>1, <1>2 DEF Calm, ProviderCopyMayExist, Editable
<1> QED BY <1>2, <1>3, RowCalm

LEMMA StillCalm == ASSUME IInv, UNCHANGED <<drafts, copies>> PROVE \A d \in Draft : Calm(d)
BY NothingCalm

LEMMA SweepCalm ==
    ASSUME IInv, NEW s \in Sweeper, SweeperStep(s)
    PROVE  \A d \in Draft : Calm(d)
<1>1. SweeperOK(sweeper[s]) /\ copies \in [Draft -> SUBSET Rev]
  BY DEF IInv, LocalsOK, TypeOK, MailServerTypeOK
<1>2. CASE Scan(s) \/ Reload(s) \/ PassGate(s) \/ SweeperCrash(s)
           \/ \E d \in Draft, rev \in Rev : ClaimLost(s, d, rev)
  BY <1>2, StillCalm DEF Scan, Reload, PassGate, SweeperCrash, ClaimLost, storeVars, mailVars
<1>3. ASSUME NEW d \in Draft, NEW rev \in Rev, ClaimWon(s, d, rev) PROVE \A e \in Draft : Calm(e)
  BY <1>3, CallsCalm DEF ClaimWon, mailVars, Editable
<1>4. CASE Transmit(s) \/ TransmitInconclusive(s)
  BY <1>4, StillCalm DEF Transmit, TransmitInconclusive, Accept, storeVars, mailVars
<1>5. CASE Cleanup(s)
  <2>1. UNCHANGED drafts /\ \A d \in Draft : copies'[d] \subseteq copies[d]
    BY <1>1, <1>5 DEF Cleanup, RemoveCopies, storeVars, mailVars
  <2> QED BY <2>1, NothingCalm
<1>6. CASE UNCHANGED <<storeVars, mailVars>>
  BY <1>6, StillCalm DEF storeVars, mailVars
<1> DEFINE d == sweeper[s].draft
           t == sweeper[s].lease
<1>7. CASE ReloadFailed(s) \/ PrepareFailed(s) \/ AttributionRefused(s) \/ GovernorRefused(s)
           \/ RecordSent(s) \/ RecordSentFailed(s) \/ ParkUncertain(s)
  <2>1. d \in Draft /\ UNCHANGED copies
    BY <1>1, <1>7 DEF ReloadFailed, PrepareFailed, AttributionRefused, GovernorRefused, RecordSent,
       RecordSentFailed, ParkUncertain, SweeperOK, mailVars
  <2>2. \/ UNCHANGED drafts \/ MarkSent(d, t) \/ ParkDeliveryUncertain(d, t) \/ ParkForReview(d, t)
        \/ \E to \in Editable : ReleaseSending(d, t, to)
        \/ \E decl : DeferAttributionRetry(d, t, decl) \/ ParkAttributionExhausted(d, t, decl)
    <3>1. CASE ReloadFailed(s) \/ PrepareFailed(s)
      BY <3>1 DEF ReloadFailed, PrepareFailed, Stranded, storeVars, Editable
    <3>2. CASE AttributionRefused(s)
      BY <3>2 DEF AttributionRefused, Stranded, storeVars
    <3>3. CASE GovernorRefused(s)
      BY <3>3 DEF GovernorRefused, Stranded, storeVars, Editable
    <3>4. CASE RecordSent(s) \/ RecordSentFailed(s) \/ ParkUncertain(s)
      BY <3>4 DEF RecordSent, RecordSentFailed, ParkUncertain, Stranded, storeVars
    <3> QED BY <1>7, <3>1, <3>2, <3>3, <3>4
  <2>3. "draft" \in Editable
    BY DEF Editable
  <2> QED BY <2>1, <2>2, <2>3, CallsCalm, StillCalm
<1> QED
  BY <1>2, <1>3, <1>4, <1>5, <1>7 DEF SweeperStep

LEMMA SendCalm ==
    ASSUME IInv, NEW c \in Sender, SenderStep(c)
    PROVE  \A d \in Draft : Calm(d)
<1>1. SenderOK(sender[c]) /\ copies \in [Draft -> SUBSET Rev] /\ "draft" \in Editable
  BY DEF IInv, LocalsOK, TypeOK, MailServerTypeOK, Editable
<1> DEFINE d == sender[c].draft
           t == sender[c].lease
<1>2. CASE \/ \E e \in Draft : ReadDraft(c, e)
           \/ ImmediateClaimLost(c) \/ ReloadClaimed(c) \/ LoadContent(c) \/ LoadFailed(c)
           \/ PassImmediateGate(c) \/ RefusedImmediately(c) \/ SenderCrash(c)
  BY <1>2, StillCalm DEF ReadDraft, ImmediateClaimLost, ReloadClaimed, LoadContent, LoadFailed,
     PassImmediateGate, RefusedImmediately, SenderCrash, storeVars, mailVars
<1>3. CASE TransmitNow(c) \/ TransmitNowFailed(c)
  BY <1>3, StillCalm DEF TransmitNow, TransmitNowFailed, Accept, storeVars, mailVars
<1>4. CASE CleanupNow(c)
  <2>1. UNCHANGED drafts /\ \A e \in Draft : copies'[e] \subseteq copies[e]
    BY <1>1, <1>4 DEF CleanupNow, RemoveCopies, storeVars, mailVars
  <2> QED BY <2>1, NothingCalm
<1>5. CASE ImmediateClaim(c) \/ Bail(c) \/ RecordSentNow(c)
  <2>1. d \in Draft /\ UNCHANGED copies
    BY <1>1, <1>5 DEF ImmediateClaim, Bail, RecordSentNow, SenderOK, mailVars
  <2>2. \/ UNCHANGED drafts \/ MarkSent(d, t) \/ ParkDeliveryUncertain(d, t) \/ ReleaseSending(d, t, "draft")
        \/ \E u, rev : ClaimForImmediateSend(d, rev, u)
    BY <1>5 DEF ImmediateClaim, Bail, RecordSentNow, storeVars
  <2> QED BY <1>1, <2>1, <2>2, CallsCalm, StillCalm
<1> QED
  BY <1>2, <1>3, <1>4, <1>5 DEF SenderStep

LEMMA DecisionCalm ==
    ASSUME IInv, NEW d \in Draft, (d \in Attended /\ HumanStep(d)) \/ AgentStep(d)
    PROVE  \A e \in Draft : Calm(e)
<1>1. UNCHANGED copies /\ "draft" \in Editable
  BY DEF HumanStep, AgentStep, View, Approve, HumanSend, Edit, Hold, Block, Discard, RetryWithContext,
         Precheck, AgentQueue, mailVars, Editable
<1>2. CASE View(d) \/ Precheck(d)
  BY <1>1, <1>2, StillCalm DEF View, Precheck, storeVars
<1>3. CASE d \in Attended /\ Edit(d)
  BY <1>1, <1>3, EditCalm DEF Edit
<1>4. CASE Discard(d)
  BY <1>1, <1>4, DiscardCalm DEF Discard
<1>5. CASE \/ Approve(d) \/ Hold(d) \/ Block(d) \/ RetryWithContext(d) \/ AgentQueue(d)
           \/ \E when \in {"later", "due"} : HumanSend(d, when)
  BY <1>1, <1>5, CallsCalm DEF Approve, Hold, Block, RetryWithContext, AgentQueue, HumanSend
<1> QED
  BY <1>2, <1>3, <1>4, <1>5 DEF HumanStep, AgentStep

LEMMA CopiesKept ==
    ASSUME IInv, IInv', CopyInv, [Next]_vars
    PROVE  CopyInv'
<1>1. CASE Sweeping
  BY <1>1, SweepCalm, CalmCopies DEF Sweeping
<1>2. CASE SendingNow
  BY <1>2, SendCalm, CalmCopies DEF SendingNow
<1>3. CASE Syncing
  BY <1>3, SyncingCopies DEF Syncing, CopyInv
<1>4. CASE Deciding
  BY <1>4, DecisionCalm, CalmCopies, AttendedAssumption, DelegatedAssumption DEF Deciding
<1>5. CASE Clock
  <2>1. "draft" \in Editable /\ UNCHANGED <<copies, syncer>>
    BY <1>5 DEF Editable, Clock, mailVars
  <2> QED BY <1>5, <2>1, CallsCalm, CalmCopies DEF Clock
<1>6. CASE UNCHANGED vars
  BY <1>6, StillCalm, CalmCopies DEF vars, storeVars, mailVars
<1> QED
  BY <1>1, <1>2, <1>3, <1>4, <1>5, <1>6 DEF Next

LEMMA InitCopies ==
    ASSUME Init
    PROVE  CopyInv
<1> SUFFICES ASSUME ~Faults
             PROVE  (\A d \in Draft : FolderOK(d)) /\ (\A m \in Syncer : Reads(m) /\ Works(m))
  BY DEF CopyInv
<1>1. \A m \in Syncer : syncer[m].pc = "idle"
  BY DEF Init, SyncInit, NotSyncing
<1>2. \A m \in Syncer : Reads(m) /\ Works(m)
  BY <1>1 DEF Reads, Works
<1>3. ASSUME NEW d \in Draft PROVE FolderOK(d)
  <2>1. PICK by \in [Draft -> CreatedBy], made \in [Draft -> UNION {CopiesOf(e) : e \in Draft}] :
           /\ \A e \in Draft : made[e] \in CopiesOf(e)
           /\ drafts = [e \in Draft |-> CreatedRow(by[e], made[e][2], made[e][3])]
           /\ copies = [e \in Draft |-> made[e][1]]
    BY <1>3 DEF Init
  <2>2. /\ copies[d] = made[d][1] /\ drafts[d].content = 0 /\ drafts[d].status = "draft"
        /\ drafts[d].imapUid = made[d][2] /\ drafts[d].imapSynced = made[d][3]
    BY <2>1 DEF CreatedRow
  <2>3. \/ made[d] = <<{}, NoRev, FALSE>>
        \/ d \notin LocalOnly /\ made[d] = <<{0}, 0, TRUE>>
        \/ d \notin LocalOnly /\ made[d] = <<{0}, NoRev, TRUE>>
    BY <2>1 DEF CopiesOf, CreatedCopies
  <2>4. \/ made[d][1] = {}
        \/ d \notin LocalOnly /\ made[d][1] = {0} /\ made[d][3] = TRUE
    <3>1. CASE made[d] = <<{}, NoRev, FALSE>>
      BY <3>1
    <3>2. CASE d \notin LocalOnly /\ made[d] = <<{0}, 0, TRUE>>
      BY <3>2
    <3>3. CASE d \notin LocalOnly /\ made[d] = <<{0}, NoRev, TRUE>>
      BY <3>3
    <3> QED BY <2>3, <3>1, <3>2, <3>3
  <2>5. \/ copies[d] = {}
        \/ d \notin LocalOnly /\ copies[d] = {0} /\ drafts[d].imapSynced = TRUE
    BY <2>2, <2>4
  <2> QED BY <2>2, <2>5, MaxEditsAssumption DEF FolderOK, Single, Rested, Current, Known, ProviderCopyMayExist, Rev
<1> QED BY <1>2, <1>3

-----------------------------------------------------------------------------
(* The theorems.                                                           *)

\* The invariant behind the others: a draft has no copy or one, its row knows of
\* it but for the time a modify holds the lease, and then the modify does.
THEOREM CopyInvariance == Spec => []CopyInv
<1>1. Init => CopyInv
  BY InitCopies
<1>2. IInv /\ IInv' /\ CopyInv /\ [Next]_vars => CopyInv'
  BY CopiesKept
<1> QED BY <1>1, <1>2, Invariance, PTL DEF Spec

\* "never a duplicate provider copy with the same Message-ID": modify_claimed_draft
\* clears the old copy before it appends, and knows whether there is one although
\* it asks the row it read before its claim.
THEOREM OneCopy == Spec => [](~Faults => OneProviderCopy)
<1>1. CopyInv => (~Faults => OneProviderCopy)
  <2> SUFFICES ASSUME CopyInv, ~Faults, NEW d \in Draft PROVE Cardinality(copies[d]) <= 1
    BY DEF OneProviderCopy
  <2>1. copies[d] = {} \/ \E v \in Rev : copies[d] = {v}
    BY DEF CopyInv, FolderOK, Single
  <2>2. CASE copies[d] = {}
    <3>1. Cardinality(copies[d]) = 0
      BY <2>2, FS_EmptySet
    <3> QED BY <3>1
  <2>3. ASSUME NEW v \in Rev, copies[d] = {v} PROVE Cardinality(copies[d]) <= 1
    <3>1. Cardinality(copies[d]) = 1
      BY <2>3, FS_Singleton, Zenon
    <3> QED BY <3>1
  <2> QED BY <2>1, <2>2, <2>3
<1> QED BY <1>1, CopyInvariance, PTL

\* A row at rest knows of its copy: through edits, modifies that write an older
\* snapshot's flag back, relinks and sends, the next modify will look for it
\* (finalize_synced_draft_bookkeeping, relink_editable_draft_imap_uid).
THEOREM CopiesStayKnown == Spec => [](~Faults => CopiesAreKnown)
<1>1. CopyInv => (~Faults => CopiesAreKnown)
  BY DEF CopyInv, FolderOK, Rested, Known, CopiesAreKnown, Editable
<1> QED BY <1>1, CopyInvariance, PTL

-----------------------------------------------------------------------------
(* The content an immediate send transmits.                                *)

\* What the reload and the load leave a send of an unattended draft with.
Faithful(c) ==
    LET d == sender[c].draft IN
    d \notin Attended =>
        /\ sender[c].pc = "reloaded" => sender[c].local = drafts[d].content
        /\ sender[c].pc \in {"loaded", "sending"} => sender[c].content = drafts[d].content

FaithfulInv == ~Faults => \A c \in Sender : Faithful(c)

\* The content of a row that is being sent stays, unless its own sender moves.
LEMMA SentContentKept ==
    ASSUME IInv, [Next]_vars, NEW c \in Sender, NEW d \in Draft, SenderHolds(c, d)
    PROVE  drafts'[d].content = drafts[d].content \/ SendEffect(c)
<1>1. drafts[d].status = "sending" /\ drafts \in [Draft -> Row]
  BY HeldIsSending, Table
<1>2. ASSUME NEW s \in Sweeper, SweepEffect(s) PROVE Kept(d)
  BY <1>1, <1>2, SweepTouches DEF IInv, ClaimsExclude
<1>3. ASSUME NEW o \in Sender \ {c}, SendEffect(o) PROVE Kept(d)
  BY <1>1, <1>3, SendTouches DEF IInv, ClaimsExclude
<1>4. ASSUME OtherEffect PROVE drafts'[d].content = drafts[d].content
  <2>1. Kept(d) \/ FellDue(d)
    BY <1>1, <1>4, OtherTouches
  <2> QED BY <1>1, <2>1 DEF Kept, FellDue, BecomeDue, Row
<1> QED
  BY <1>2, <1>3, <1>4, StepHasEffect DEF Kept

LEMMA OthersFaithful ==
    ASSUME IInv, [Next]_vars, NEW c \in Sender, sender'[c] = sender[c], Faithful(c)
    PROVE  Faithful(c)'
<1>1. CASE sender[c].lease = NoToken
  BY <1>1 DEF IInv, LocalsOK, SenderOK, Faithful
<1>2. CASE sender[c].lease # NoToken
  <2> PICK d \in Draft : d = sender[c].draft
    BY <1>2, SenderHolding
  <2>1. SendEffect(c) => UNCHANGED drafts
    BY <1>2 DEF SendEffect, SendStays, SendDrops, SendClaims, SendSends, SendReleases, SendCloses
  <2>2. drafts'[d].content = drafts[d].content
    BY <1>2, <2>1, SenderHolding, SentContentKept
  <2> QED BY <2>2 DEF Faithful
<1> QED BY <1>1, <1>2

LEMMA SenderFaithful ==
    ASSUME IInv, CopyInv, ~Faults, NEW c \in Sender, Faithful(c), SenderStep(c)
    PROVE  Faithful(c)'
<1>1. sender \in [Sender -> SenderState] /\ sender[c] \in SenderState
  BY DEF IInv, TypeOK, ImmediateTypeOK
<1>2. sender'[c].pc \notin {"reloaded", "loaded", "sending"} => Faithful(c)'
  BY DEF Faithful
<1>3. CASE ReloadClaimed(c)
  <2>1. /\ UNCHANGED drafts /\ sender'[c].draft = sender[c].draft /\ sender'[c].pc = "reloaded"
        /\ sender'[c].local = drafts[sender[c].draft].content
    BY <1>1, <1>3 DEF ReloadClaimed, SenderState, storeVars
  <2> QED BY <2>1 DEF Faithful
<1>4. CASE LoadContent(c)
  <2>1. sender[c].pc = "reloaded" /\ UNCHANGED drafts
    BY <1>4 DEF LoadContent, storeVars
  <2>2. sender[c].lease # NoToken
    BY <2>1 DEF IInv, LocalsOK, SenderOK
  <2> PICK d \in Draft : d = sender[c].draft
    BY <2>2, SenderHolding
  <2>3. drafts[d].status = "sending"
    BY <2>2, SenderHolding
  <2>4. d \notin Attended => copies[d] \subseteq {drafts[d].content}
    BY <2>3, Leased DEF CopyInv, FolderOK, Current
  <2>5. d \notin Attended => sender[c].local = drafts[d].content
    BY <2>1 DEF Faithful
  <2>6. /\ sender'[c].pc = "loaded" /\ sender'[c].draft = d
        /\ sender'[c].content = IF sender[c].uid = NoRev THEN sender[c].local ELSE sender[c].uid
        /\ sender[c].uid = NoRev \/ sender[c].uid \in copies[d]
    BY <1>1, <1>4 DEF LoadContent, SenderState
  <2> QED BY <2>1, <2>4, <2>5, <2>6 DEF Faithful
<1>5. CASE PassImmediateGate(c)
  <2>1. /\ UNCHANGED drafts /\ sender'[c].draft = sender[c].draft /\ sender[c].pc = "loaded"
        /\ sender'[c].pc = "sending" /\ sender'[c].content = sender[c].content
    BY <1>1, <1>5 DEF PassImmediateGate, SenderAt, SenderState, storeVars
  <2> QED BY <2>1 DEF Faithful
<1>6. CASE \/ LoadFailed(c) \/ RefusedImmediately(c) \/ TransmitNow(c) \/ TransmitNowFailed(c)
  <2>1. \E pc \in {"bail", "accepted"} : SenderAt(c, pc)
    BY <1>6 DEF LoadFailed, RefusedImmediately, TransmitNow, TransmitNowFailed
  <2> QED BY <1>1, <1>2, <2>1 DEF SenderAt, SenderState
<1>7. CASE \/ ImmediateClaimLost(c) \/ Bail(c) \/ CleanupNow(c) \/ SenderCrash(c)
  <2>1. sender'[c].pc = "idle"
    BY <1>1, <1>7 DEF ImmediateClaimLost, Bail, CleanupNow, SenderCrash, FinishSend, NotSending
  <2> QED BY <1>2, <2>1
<1>8. CASE \/ ImmediateClaim(c) \/ RecordSentNow(c) \/ \E e \in Draft : ReadDraft(c, e)
  <2>1. sender'[c].pc \in {"claimed", "cleanup", "idle", "read"}
    <3>1. CASE ImmediateClaim(c)
      BY <1>1, <3>1 DEF ImmediateClaim, SenderState
    <3>2. CASE RecordSentNow(c)
      BY <1>1, <3>2 DEF RecordSentNow, FinishSend, NotSending, SenderState
    <3>3. CASE \E e \in Draft : ReadDraft(c, e)
      BY <1>1, <3>3 DEF ReadDraft, NotSending
    <3> QED BY <1>8, <3>1, <3>2, <3>3
  <2> QED BY <1>2, <2>1
<1> QED
  BY <1>3, <1>4, <1>5, <1>6, <1>7, <1>8 DEF SenderStep

LEMMA FaithfulKept ==
    ASSUME IInv, CopyInv, FaithfulInv, [Next]_vars
    PROVE  FaithfulInv'
<1> SUFFICES ASSUME ~Faults, NEW c \in Sender PROVE Faithful(c)'
  BY DEF FaithfulInv
<1>1. Faithful(c)
  BY DEF FaithfulInv
<1>2. CASE SendingNow
  <2>1. PICK o \in Sender : SenderStep(o)
    BY <1>2 DEF SendingNow
  <2>2. SendersKept(o)
    BY <1>2, <2>1, SendHasEffect DEF SendingNow, SendEffect
  <2> QED BY <1>1, <2>1, <2>2, SenderFaithful, OthersFaithful DEF SendersKept
<1>3. CASE UNCHANGED sender
  BY <1>1, <1>3, OthersFaithful
<1> QED
  BY <1>2, <1>3 DEF Next, Sweeping, Syncing, Deciding, Clock, vars

\* An immediate send has the row's content from its reload or load on, for every
\* draft that only modifies edit.
THEOREM FaithfulInvariance == Spec => []FaithfulInv
<1>1. Init => FaithfulInv
  BY DEF Init, ImmediateInit, NotSending, FaithfulInv, Faithful
<1>2. IInv /\ CopyInv /\ FaithfulInv /\ [Next]_vars => FaithfulInv'
  BY FaithfulKept
<1> QED BY <1>1, <1>2, Invariance, CopyInvariance, PTL DEF Spec

\* An immediate send transmits the content of the row it claimed, though it takes
\* it from the provider's copy under a UID it read before the claim
\* (send_existing_draft); no human edits, as those do not reach the copy.
THEOREM ImmediateSendsTheRow == Spec => [](~Faults /\ Attended = {} => SendsClaimedContent)
<1>1. FaithfulInv => (~Faults /\ Attended = {} => SendsClaimedContent)
  BY DEF FaithfulInv, Faithful, SendsClaimedContent
<1> QED BY <1>1, FaithfulInvariance, PTL
=============================================================================
