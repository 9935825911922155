------------------------------- MODULE Sweep --------------------------------
(***************************************************************************)
(* The scheduled-send sweep (run_scheduled_send_sweep in                   *)
(* crates/dashboard/src/lib.rs).  The dashboard's 60 s ticker runs one;    *)
(* every Send-now click spawns another at once, so sweeps run side by      *)
(* side.  The database mutex is dropped at every await: each action is one *)
(* stretch between two awaits, and `todo` is the due list read at its      *)
(* start, which every other actor may have outdated by the time a draft's  *)
(* turn comes.                                                             *)
(***************************************************************************)
EXTENDS MailServer

CONSTANT
    Sweeper       \* sweeps that may run at the same time

VARIABLE sweeper  \* [Sweeper -> the sweep's control point and locals]

Gate == {"none", "human", "governor"}

SweeperState ==
    [pc : {"idle", "scan", "claimed", "loaded", "sending",
           "accepted", "uncertain", "cleanup"},
     todo : SUBSET (Draft \X Rev), draft : Draft \cup {NoDraft},
     lease : Token \cup {NoToken}, snap : Row \cup {NoRow}, gate : Gate]

Idle == [pc |-> "idle", todo |-> {}, draft |-> NoDraft, lease |-> NoToken,
         snap |-> NoRow, gate |-> "none"]

SweepInit == sweeper = [s \in Sweeper |-> Idle]

\* Go on with the rest of the due list, or end the sweep.
After(todo) == IF todo = {} THEN Idle ELSE [Idle EXCEPT !.pc = "scan", !.todo = todo]
NextDraft(s) == sweeper' = [sweeper EXCEPT ![s] = After(@.todo)]

-----------------------------------------------------------------------------
Scan(s) ==
    /\ sweeper[s].pc = "idle"
    /\ DueForSend # {}
    /\ sweeper' = [sweeper EXCEPT
           ![s] = After({<<d, drafts[d].rev>> : d \in DueForSend})]
    /\ UNCHANGED <<storeVars, mailVars>>

ClaimWon(s, d, rev) ==
    /\ sweeper[s].pc = "scan"
    /\ <<d, rev>> \in sweeper[s].todo
    /\ \E t \in Token :
          /\ ClaimForSending(d, rev, t)
          /\ sweeper' = [sweeper EXCEPT
                ![s] = [Idle EXCEPT !.pc = "claimed", !.todo = sweeper[s].todo \ {<<d, rev>>},
                                    !.draft = d, !.lease = t]]
    /\ UNCHANGED mailVars

ClaimLost(s, d, rev) ==
    /\ sweeper[s].pc = "scan"
    /\ <<d, rev>> \in sweeper[s].todo
    /\ Faults \/ ~SendClaimable(d, rev)
    /\ sweeper' = [sweeper EXCEPT ![s] = After(@.todo \ {<<d, rev>>})]
    /\ UNCHANGED <<storeVars, mailVars>>

Reload(s) ==
    /\ sweeper[s].pc = "claimed"
    /\ sweeper' = [sweeper EXCEPT ![s].pc = "loaded", ![s].snap = drafts[sweeper[s].draft]]
    /\ UNCHANGED <<storeVars, mailVars>>

\* A release or park that fails leaves the row `sending`: stranded but inert.
Stranded(s) == Faults /\ NextDraft(s) /\ UNCHANGED storeVars

ReloadFailed(s) ==
    /\ sweeper[s].pc = "claimed"
    /\ Faults
    /\ \/ ReleaseSending(sweeper[s].draft, sweeper[s].lease, "draft") /\ NextDraft(s)
       \/ Stranded(s)
    /\ UNCHANGED mailVars

\* Credentials cannot be resolved: retry later.  Attachments cannot be decoded:
\* block, so that the sweep stops retrying.
PrepareFailed(s) ==
    /\ sweeper[s].pc = "loaded"
    /\ Faults
    /\ \/ \E to \in {"draft", "blocked"} :
             ReleaseSending(sweeper[s].draft, sweeper[s].lease, to) /\ NextDraft(s)
       \/ Stranded(s)
    /\ UNCHANGED mailVars

-----------------------------------------------------------------------------
(* The gate.  Only a current Human-only Send click skips the Governor; a   *)
(* missing or stale declaration is refused before the Governor is asked.   *)

AttributionFails(row) == RequireDeclaration(row) /\ ~Declared(row)

PassGate(s) ==
    LET snap == sweeper[s].snap IN
    /\ sweeper[s].pc = "loaded"
    /\ HumanSendAuthorized(snap) \/ ~AttributionFails(snap)
    /\ sweeper' = [sweeper EXCEPT ![s].pc = "sending",
           ![s].gate = IF HumanSendAuthorized(snap) THEN "human" ELSE "governor"]
    /\ UNCHANGED <<storeVars, mailVars>>

AttributionRefused(s) ==
    LET d    == sweeper[s].draft
        t    == sweeper[s].lease
        snap == sweeper[s].snap
        next == FailedAttempt(snap)
    IN
    /\ sweeper[s].pc = "loaded"
    /\ ~HumanSendAuthorized(snap)
    /\ AttributionFails(snap)
    /\ \/ /\ \/ ScheduledOrigin(snap) = "human" /\ ParkForReview(d, t)
             \/ /\ ScheduledOrigin(snap) # "human"
                /\ next.attempts >= MaxAttempts
                /\ ParkAttributionExhausted(d, t, next)
             \/ /\ ScheduledOrigin(snap) # "human"
                /\ next.attempts < MaxAttempts
                /\ DeferAttributionRetry(d, t, next)
          /\ NextDraft(s)
       \/ Stranded(s)
    /\ UNCHANGED mailVars

\* A review, deny or block verdict parks the draft; an unreachable Governor
\* leaves it due.
GovernorRefused(s) ==
    LET d    == sweeper[s].draft
        t    == sweeper[s].lease
        snap == sweeper[s].snap
    IN
    /\ sweeper[s].pc = "loaded"
    /\ ~HumanSendAuthorized(snap)
    /\ ~AttributionFails(snap)
    /\ \/ ParkForReview(d, t) /\ NextDraft(s)
       \/ Faults /\ ReleaseSending(d, t, "draft") /\ NextDraft(s)
       \/ Stranded(s)
    /\ UNCHANGED mailVars

-----------------------------------------------------------------------------
(* Transmission.  An SMTP error may come after the server took the message.*)

Transmit(s) ==
    /\ sweeper[s].pc = "sending"
    /\ Accept(sweeper[s].draft, sweeper[s].snap.content, sweeper[s].gate, "sweep", TRUE)
    /\ sweeper' = [sweeper EXCEPT ![s].pc = "accepted"]
    /\ UNCHANGED storeVars

TransmitInconclusive(s) ==
    /\ sweeper[s].pc = "sending"
    /\ Faults
    /\ \/ Accept(sweeper[s].draft, sweeper[s].snap.content, sweeper[s].gate, "sweep", FALSE)
       \/ UNCHANGED mailVars
    /\ sweeper' = [sweeper EXCEPT ![s].pc = "uncertain"]
    /\ UNCHANGED storeVars

RecordSent(s) ==
    /\ sweeper[s].pc = "accepted"
    /\ MarkSent(sweeper[s].draft, sweeper[s].lease)
    /\ sweeper' = [sweeper EXCEPT ![s].pc = "cleanup", ![s].lease = NoToken]
    /\ UNCHANGED mailVars

\* mark_draft_sent failed after acceptance: park, and if that fails too the
\* row stays claimed.
RecordSentFailed(s) ==
    /\ sweeper[s].pc = "accepted"
    /\ Faults
    /\ \/ ParkDeliveryUncertain(sweeper[s].draft, sweeper[s].lease) /\ NextDraft(s)
       \/ Stranded(s)
    /\ UNCHANGED mailVars

ParkUncertain(s) ==
    /\ sweeper[s].pc = "uncertain"
    /\ \/ ParkDeliveryUncertain(sweeper[s].draft, sweeper[s].lease) /\ NextDraft(s)
       \/ Stranded(s)
    /\ UNCHANGED mailVars

\* The provider copy goes only if one copy carries the Message-ID; a skipped or
\* failed cleanup is logged and changes nothing.
Cleanup(s) ==
    LET d == sweeper[s].draft IN
    /\ sweeper[s].pc = "cleanup"
    /\ \/ UniqueCopy(d) /\ RemoveCopies(d, copies[d])
       \/ (Faults \/ ~UniqueCopy(d)) /\ UNCHANGED mailVars
    /\ NextDraft(s)
    /\ UNCHANGED storeVars

\* The dashboard process dies.  The ticker of the next one starts over.
SweeperCrash(s) ==
    /\ Faults
    /\ sweeper[s].pc # "idle"
    /\ sweeper' = [sweeper EXCEPT ![s] = Idle]
    /\ UNCHANGED <<storeVars, mailVars>>

-----------------------------------------------------------------------------
SweeperStep(s) ==
    \/ Scan(s)
    \/ \E d \in Draft, rev \in Rev : ClaimWon(s, d, rev) \/ ClaimLost(s, d, rev)
    \/ Reload(s)
    \/ ReloadFailed(s)
    \/ PrepareFailed(s)
    \/ PassGate(s)
    \/ AttributionRefused(s)
    \/ GovernorRefused(s)
    \/ Transmit(s)
    \/ TransmitInconclusive(s)
    \/ RecordSent(s)
    \/ RecordSentFailed(s)
    \/ ParkUncertain(s)
    \/ Cleanup(s)
    \/ SweeperCrash(s)

SweepTypeOK == sweeper \in [Sweeper -> SweeperState]
=============================================================================
