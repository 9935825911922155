--------------------------- MODULE ImmediateSend ----------------------------
(***************************************************************************)
(* `envelope draft send --send-now` and the MCP send_draft tool            *)
(* (send_existing_draft in crates/cli/src/commands/drafts.rs): separate    *)
(* processes that share only the database and the mailbox with the         *)
(* dashboard.  SendClaimGuard is the early-exit rule: whatever fails while *)
(* it is armed returns the claim to `draft`.                               *)
(***************************************************************************)
EXTENDS MailServer

CONSTANT
    Sender          \* immediate sends that may run at the same time

VARIABLE sender     \* [Sender -> the send's control point and locals]

SenderState ==
    [pc : {"idle", "read", "claimed", "reloaded", "loaded", "sending",
           "accepted", "bail", "cleanup"},
     draft : Draft \cup {NoDraft}, rev : RevOrNone, uid : RevOrNone,
     local : RevOrNone, content : RevOrNone, lease : Token \cup {NoToken}]

NotSending ==
    [pc |-> "idle", draft |-> NoDraft, rev |-> NoRev, uid |-> NoRev,
     local |-> NoRev, content |-> NoRev, lease |-> NoToken]

ImmediateInit == sender = [c \in Sender |-> NotSending]

FinishSend(c) == sender' = [sender EXCEPT ![c] = NotSending]
SenderAt(c, pc) == sender' = [sender EXCEPT ![c].pc = pc]

-----------------------------------------------------------------------------
\* The row is read first: its revision is what the claim binds to, and its
\* imap_uid decides later where the content comes from.
ReadDraft(c, d) ==
    /\ sender[c].pc = "idle"
    /\ sender' = [sender EXCEPT ![c] = [NotSending EXCEPT !.pc = "read", !.draft = d,
                       !.rev = drafts[d].rev, !.uid = drafts[d].imapUid]]
    /\ UNCHANGED <<storeVars, mailVars>>

ImmediateClaim(c) ==
    /\ sender[c].pc = "read"
    /\ MayDeliver(sender[c].draft)
    /\ \E t \in Token :
          /\ ClaimForImmediateSend(sender[c].draft, sender[c].rev, t)
          /\ sender' = [sender EXCEPT ![c].pc = "claimed", ![c].lease = t]
    /\ UNCHANGED mailVars

ImmediateClaimLost(c) ==
    /\ sender[c].pc = "read"
    /\ Faults \/ ~ImmediateClaimable(sender[c].draft, sender[c].rev)
    /\ FinishSend(c)
    /\ UNCHANGED <<storeVars, mailVars>>

ReloadClaimed(c) ==
    /\ sender[c].pc = "claimed"
    /\ sender' = [sender EXCEPT ![c].pc = "reloaded",
                                ![c].local = drafts[sender[c].draft].content]
    /\ UNCHANGED <<storeVars, mailVars>>

\* With an imap_uid the provider copy is the source of the content.
LoadContent(c) ==
    LET uid == sender[c].uid IN
    /\ sender[c].pc = "reloaded"
    /\ uid = NoRev \/ uid \in copies[sender[c].draft]
    /\ sender' = [sender EXCEPT ![c].pc = "loaded",
                       ![c].content = IF uid = NoRev THEN sender[c].local ELSE uid]
    /\ UNCHANGED <<storeVars, mailVars>>

LoadFailed(c) ==
    LET uid == sender[c].uid IN
    /\ \/ sender[c].pc = "claimed" /\ Faults
       \/ /\ sender[c].pc = "reloaded"
          /\ Faults \/ (uid # NoRev /\ uid \notin copies[sender[c].draft])
    /\ SenderAt(c, "bail")
    /\ UNCHANGED <<storeVars, mailVars>>

PassImmediateGate(c) ==
    /\ sender[c].pc = "loaded"
    /\ SenderAt(c, "sending")
    /\ UNCHANGED <<storeVars, mailVars>>

\* Undecodable attachments, a missing declaration or a Governor verdict.
RefusedImmediately(c) ==
    /\ sender[c].pc = "loaded"
    /\ SenderAt(c, "bail")
    /\ UNCHANGED <<storeVars, mailVars>>

TransmitNow(c) ==
    /\ sender[c].pc = "sending"
    /\ Accept(sender[c].draft, sender[c].content, "governor", "immediate", TRUE)
    /\ SenderAt(c, "accepted")
    /\ UNCHANGED storeVars

\* The error leaves through `?`, with the guard still armed.
TransmitNowFailed(c) ==
    /\ sender[c].pc = "sending"
    /\ Faults
    /\ \/ Accept(sender[c].draft, sender[c].content, "governor", "immediate", FALSE)
       \/ UNCHANGED mailVars
    /\ SenderAt(c, "bail")
    /\ UNCHANGED storeVars

Bail(c) ==
    /\ sender[c].pc = "bail"
    /\ \/ ReleaseSending(sender[c].draft, sender[c].lease, "draft")
       \/ Faults /\ UNCHANGED storeVars
    /\ FinishSend(c)
    /\ UNCHANGED mailVars

\* Mutant: the guard stays armed until the sent state is recorded.
RecordSentNowArmed(c) ==
    /\ sender[c].pc = "accepted"
    /\ \/ /\ MarkSent(sender[c].draft, sender[c].lease)
          /\ sender' = [sender EXCEPT ![c].pc = "cleanup", ![c].lease = NoToken]
       \/ /\ Faults
          /\ UNCHANGED storeVars
          /\ SenderAt(c, "bail")
    /\ UNCHANGED mailVars

\* From here on the guard is disarmed.
RecordSentNow(c) ==
    /\ sender[c].pc = "accepted"
    /\ \/ /\ MarkSent(sender[c].draft, sender[c].lease)
          /\ sender' = [sender EXCEPT ![c].pc = "cleanup", ![c].lease = NoToken]
       \/ /\ Faults
          /\ \/ ParkDeliveryUncertain(sender[c].draft, sender[c].lease)
             \/ UNCHANGED storeVars
          /\ FinishSend(c)
    /\ UNCHANGED mailVars

CleanupNow(c) ==
    LET d == sender[c].draft IN
    /\ sender[c].pc = "cleanup"
    /\ \/ UniqueCopy(d) /\ RemoveCopies(d, copies[d])
       \/ (Faults \/ ~UniqueCopy(d)) /\ UNCHANGED mailVars
    /\ FinishSend(c)
    /\ UNCHANGED storeVars

SenderCrash(c) ==
    /\ Faults
    /\ sender[c].pc # "idle"
    /\ FinishSend(c)
    /\ UNCHANGED <<storeVars, mailVars>>

-----------------------------------------------------------------------------
SenderStep(c) ==
    \/ \E d \in Draft : ReadDraft(c, d)
    \/ ImmediateClaim(c)
    \/ ImmediateClaimLost(c)
    \/ ReloadClaimed(c)
    \/ LoadContent(c)
    \/ LoadFailed(c)
    \/ PassImmediateGate(c)
    \/ RefusedImmediately(c)
    \/ TransmitNow(c)
    \/ TransmitNowFailed(c)
    \/ Bail(c)
    \/ RecordSentNow(c)
    \/ CleanupNow(c)
    \/ SenderCrash(c)

ImmediateTypeOK == sender \in [Sender -> SenderState]
=============================================================================
