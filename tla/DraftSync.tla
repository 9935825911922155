----------------------------- MODULE DraftSync ------------------------------
(***************************************************************************)
(* The CLI and MCP operations that touch a draft's provider copy           *)
(* (crates/cli/src/commands/drafts.rs): modify_draft, which edits the row  *)
(* under a `syncing` lease and replaces the copy (delete the old ones,     *)
(* APPEND the new one), run_discard, which deletes the copy by UID and     *)
(* then discards the row, and the repair of a row's UID from a copy found  *)
(* in the Drafts folder (draft list, draft edit by UID).                   *)
(***************************************************************************)
EXTENDS MailServer

CONSTANTS
    Syncer,        \* modify and discard commands that may run at a time
    LocalOnly      \* drafts whose account has no IMAP host

ASSUME LocalOnlyAssumption == LocalOnly \subseteq Draft

VARIABLE syncer    \* [Syncer -> the command's control point and locals]

SyncerState ==
    [pc : {"idle", "read", "claimed", "edited", "cleared", "final",
           "release", "discard", "discardLocal", "found"},
     draft : Draft \cup {NoDraft}, snap : Row \cup {NoRow},
     lease : Token \cup {NoToken}, prior : Editable \cup {"none"},
     cleared : BOOLEAN, uid : RevOrNone, synced : BOOLEAN]

NotSyncing ==
    [pc |-> "idle", draft |-> NoDraft, snap |-> NoRow, lease |-> NoToken,
     prior |-> "none", cleared |-> FALSE, uid |-> NoRev, synced |-> FALSE]

SyncInit == syncer = [m \in Syncer |-> NotSyncing]

FinishSync(m) == syncer' = [syncer EXCEPT ![m] = NotSyncing]
SyncerAt(m, pc) == syncer' = [syncer EXCEPT ![m].pc = pc]

\* Judged on the snapshot read before the edit.
ProviderCopyMayExist(row) == row.imapUid # NoRev \/ row.imapSynced

-----------------------------------------------------------------------------
(* modify_draft.                                                           *)

ReadForModify(m, d) ==
    /\ syncer[m].pc = "idle"
    /\ drafts[d].status \in Editable
    /\ drafts[d].content < MaxEdits
    /\ syncer' = [syncer EXCEPT ![m] = [NotSyncing EXCEPT !.pc = "read", !.draft = d,
                                                          !.snap = drafts[d]]]
    /\ UNCHANGED <<storeVars, mailVars>>

SyncClaim(m) ==
    LET d == syncer[m].draft IN
    /\ syncer[m].pc = "read"
    /\ \E t \in Token :
          /\ ClaimForSync(d, syncer[m].snap.rev, t)
          /\ syncer' = [syncer EXCEPT ![m].pc = "claimed", ![m].lease = t,
                                      ![m].prior = drafts[d].status]
    /\ UNCHANGED mailVars

SyncClaimLost(m) ==
    /\ syncer[m].pc = "read"
    /\ Faults \/ ~SyncClaimable(syncer[m].draft, syncer[m].snap.rev)
    /\ FinishSync(m)
    /\ UNCHANGED <<storeVars, mailVars>>

\* Mutant: the edit ends without touching the provider copy.
ApplyEditLocally(m) ==
    /\ syncer[m].pc = "claimed"
    /\ ApplySyncedEdit(syncer[m].draft, syncer[m].lease, syncer[m].snap)
    /\ SyncerAt(m, "release")
    /\ UNCHANGED mailVars

ApplyEdit(m) ==
    /\ syncer[m].pc = "claimed"
    /\ ApplySyncedEdit(syncer[m].draft, syncer[m].lease, syncer[m].snap)
    /\ SyncerAt(m, IF syncer[m].draft \in LocalOnly THEN "final" ELSE "edited")
    /\ UNCHANGED mailVars

\* Mutant: only the copy whose UID the row has is deleted.
ClearLinkedCopy(m) ==
    LET d == syncer[m].draft IN
    /\ syncer[m].pc = "edited"
    /\ RemoveCopies(d, {syncer[m].snap.imapUid})
    /\ syncer' = [syncer EXCEPT ![m].pc = "cleared", ![m].cleared = TRUE]
    /\ UNCHANGED storeVars

\* Delete every copy that carries the Message-ID before the APPEND.  A lookup,
\* a connection or one of several deletions may fail.
ClearOldCopies(m) ==
    LET d == syncer[m].draft IN
    /\ syncer[m].pc = "edited"
    /\ \/ /\ ~ProviderCopyMayExist(syncer[m].snap)
          /\ syncer' = [syncer EXCEPT ![m].pc = "cleared", ![m].cleared = TRUE]
          /\ UNCHANGED mailVars
       \/ /\ ProviderCopyMayExist(syncer[m].snap)
          /\ Owned(d, "syncing", syncer[m].lease)
          /\ RemoveCopies(d, copies[d])
          /\ syncer' = [syncer EXCEPT ![m].pc = "cleared", ![m].cleared = TRUE]
       \/ /\ ProviderCopyMayExist(syncer[m].snap)
          /\ Owned(d, "syncing", syncer[m].lease)
          /\ Faults
          /\ \E gone \in SUBSET copies[d] : RemoveCopies(d, gone)
          /\ SyncerAt(m, "cleared")
    /\ UNCHANGED storeVars

\* An APPEND whose UID lookup fails or is ambiguous leaves the UID unknown; one
\* that reports an error may have stored the copy all the same.
AppendReplacement(m) ==
    LET d       == syncer[m].draft
        content == drafts[d].content
    IN
    /\ syncer[m].pc = "cleared"
    /\ \/ /\ syncer[m].cleared
          /\ Owned(d, "syncing", syncer[m].lease)
          /\ AppendCopy(d, content)
          /\ \/ /\ copies[d] = {}
                /\ syncer' = [syncer EXCEPT ![m].pc = "final", ![m].synced = TRUE,
                                            ![m].uid = content]
             \/ /\ Faults \/ copies[d] # {}
                /\ syncer' = [syncer EXCEPT ![m].pc = "final", ![m].synced = TRUE]
             \/ Faults /\ SyncerAt(m, "final")
       \/ /\ ~syncer[m].cleared \/ Faults
          /\ SyncerAt(m, "final")
          /\ UNCHANGED mailVars
    /\ UNCHANGED storeVars

Finalize(m) ==
    /\ syncer[m].pc = "final"
    /\ FinalizeSynced(syncer[m].draft, syncer[m].lease, syncer[m].uid, syncer[m].synced)
    /\ SyncerAt(m, "release")
    /\ UNCHANGED mailVars

\* Any error under the lease ends the edit and releases the claim.
ModifyError(m) ==
    /\ Faults
    /\ syncer[m].pc \in {"claimed", "edited", "cleared", "final"}
    /\ SyncerAt(m, "release")
    /\ UNCHANGED <<storeVars, mailVars>>

SyncRelease(m) ==
    /\ syncer[m].pc = "release"
    /\ \/ ReleaseSyncing(syncer[m].draft, syncer[m].lease, syncer[m].prior)
       \/ Faults /\ UNCHANGED storeVars
    /\ FinishSync(m)
    /\ UNCHANGED mailVars

-----------------------------------------------------------------------------
(* run_discard.                                                            *)

ReadForDiscard(m, d) ==
    /\ syncer[m].pc = "idle"
    /\ syncer' = [syncer EXCEPT ![m] = [NotSyncing EXCEPT !.draft = d,
           !.uid = drafts[d].imapUid,
           !.pc = IF drafts[d].imapUid # NoRev THEN "discard" ELSE "discardLocal"]]
    /\ UNCHANGED <<storeVars, mailVars>>

\* Deleting the provider copy is not conditional on the local discard.
DeleteProviderCopy(m) ==
    /\ syncer[m].pc = "discard"
    /\ \/ RemoveCopies(syncer[m].draft, {syncer[m].uid})
       \/ Faults /\ UNCHANGED mailVars
    /\ SyncerAt(m, "discardLocal")
    /\ UNCHANGED storeVars

DiscardLocal(m) ==
    /\ syncer[m].pc = "discardLocal"
    /\ \/ DiscardDraft(syncer[m].draft)
       \/ /\ Faults \/ drafts[syncer[m].draft].status \notin Discardable
          /\ UNCHANGED storeVars
    /\ FinishSync(m)
    /\ UNCHANGED mailVars

-----------------------------------------------------------------------------
(* resolve_edit_draft_id and reconcile_local_draft_uids.  The copy is found *)
(* in one exchange with the server and linked in a later transaction.       *)

FindCopy(m, d) ==
    /\ syncer[m].pc = "idle"
    /\ \E uid \in copies[d] :
          syncer' = [syncer EXCEPT ![m] = [NotSyncing EXCEPT !.pc = "found",
                                               !.draft = d, !.uid = uid]]
    /\ UNCHANGED <<storeVars, mailVars>>

LinkCopy(m) ==
    /\ syncer[m].pc = "found"
    /\ \/ RelinkUid(syncer[m].draft, syncer[m].uid)
       \/ /\ Faults \/ drafts[syncer[m].draft].status \notin Editable
          /\ UNCHANGED storeVars
    /\ FinishSync(m)
    /\ UNCHANGED mailVars

-----------------------------------------------------------------------------
SyncerCrash(m) ==
    /\ Faults
    /\ syncer[m].pc # "idle"
    /\ FinishSync(m)
    /\ UNCHANGED <<storeVars, mailVars>>

-----------------------------------------------------------------------------
SyncerStep(m) ==
    \/ \E d \in Draft : ReadForModify(m, d) \/ ReadForDiscard(m, d) \/ FindCopy(m, d)
    \/ SyncClaim(m)
    \/ SyncClaimLost(m)
    \/ ApplyEdit(m)
    \/ ClearOldCopies(m)
    \/ AppendReplacement(m)
    \/ Finalize(m)
    \/ ModifyError(m)
    \/ SyncRelease(m)
    \/ DeleteProviderCopy(m)
    \/ DiscardLocal(m)
    \/ LinkCopy(m)
    \/ SyncerCrash(m)

SyncTypeOK == syncer \in [Syncer -> SyncerState]
=============================================================================
