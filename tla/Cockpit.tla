------------------------------ MODULE Cockpit -------------------------------
(***************************************************************************)
(* Those who decide about a draft: the human at the dashboard              *)
(* (crates/dashboard/src/handlers/drafts.rs) and the agent that queues     *)
(* through the CLI or MCP (crates/cli/src/commands/drafts.rs).             *)
(*                                                                         *)
(* A dashboard handler holds the database mutex from its first read to its *)
(* commit, so it is one action; what it cannot hold is the page the human  *)
(* is looking at, so the revision a request carries comes from `view`,     *)
(* which any edit may have outdated.  The agent's precheck and its queue   *)
(* call are two transactions: `plan` is what it validated in the first.    *)
(*                                                                         *)
(* `ledger` is not in the code: it records which content each party really *)
(* decided about, to compare with what the row says they decided.          *)
(***************************************************************************)
EXTENDS MailServer

VARIABLES
    view,       \* [Draft -> Page]: the page the human is looking at
    plan,       \* [Draft -> Page]: what the agent validated facts for
    ledger      \* [Draft -> Decisions]

Page == [rev : RevOrNone, content : RevOrNone]
NoPage == [rev |-> NoRev, content |-> NoRev]
PageOf(row) == [rev |-> row.rev, content |-> row.content]

\* Contents the human approved, content of the Human-only Send click in force,
\* contents somebody declared facts for, and whether the last word on sending
\* was Hold.
Decisions == [approved : SUBSET Rev, sent : RevOrNone,
              declared : SUBSET Rev, held : BOOLEAN]

NoDecision == [approved |-> {}, sent |-> NoRev, declared |-> {}, held |-> FALSE]

CockpitInit ==
    /\ view = [d \in Draft |-> NoPage]
    /\ plan = [d \in Draft |-> NoPage]
    /\ ledger = [d \in Draft |-> NoDecision]

-----------------------------------------------------------------------------
(* The human.                                                              *)

View(d) ==
    /\ view[d] # PageOf(drafts[d])
    /\ view' = [view EXCEPT ![d] = PageOf(drafts[d])]
    /\ UNCHANGED <<storeVars, mailVars, plan, ledger>>

\* "Review only. It queues nothing, so it sends nothing."
Approve(d) ==
    /\ ApproveRevision(d, view[d].rev)
    /\ ledger' = [ledger EXCEPT ![d].approved = @ \cup {view[d].content}]
    /\ UNCHANGED <<mailVars, view, plan>>

\* Human-only Send, after the outbox cooldown or at once.
HumanSend(d, when) ==
    /\ QueueWithHumanSend(d, view[d].rev, when)
    /\ ledger' = [ledger EXCEPT ![d].approved = @ \cup {view[d].content},
                                ![d].sent = view[d].content, ![d].held = FALSE]
    /\ UNCHANGED <<mailVars, view, plan>>

\* Edit, and the attachment add and remove of the review page.
Edit(d) ==
    /\ UpdateContent(d, view[d].rev)
    /\ view' = [view EXCEPT ![d] = PageOf(drafts'[d])]
    /\ UNCHANGED <<mailVars, plan, ledger>>

\* Not revision-guarded, like Block and Discard: it only removes a send.
Hold(d) ==
    /\ HoldScheduled(d)
    /\ ledger' = [ledger EXCEPT ![d].sent = NoRev, ![d].held = TRUE]
    /\ UNCHANGED <<mailVars, view, plan>>

Block(d) ==
    /\ UpdateStatus(d, "blocked")
    /\ UNCHANGED <<mailVars, view, plan, ledger>>

Discard(d) ==
    /\ DiscardDraft(d)
    /\ UNCHANGED <<mailVars, view, plan, ledger>>

\* A refused bot draft, which no human send authorizes.
ContextRefinementEligible(row) ==
    /\ row.status \in {"pending_review", "blocked"}
    /\ ~HumanSendAuthorized(row)
    /\ row.sendBlock \/ AttributionExhausted(row)
    /\ ScheduledOrigin(row) = "bot"

RetryWithContext(d) ==
    /\ drafts[d].rev = view[d].rev
    /\ ContextRefinementEligible(drafts[d])
    /\ QueueWithContextCorrection(d, view[d].rev, "later")
    /\ ledger' = [ledger EXCEPT ![d].declared = @ \cup {view[d].content},
                                ![d].held = FALSE]
    /\ UNCHANGED <<mailVars, view, plan>>

-----------------------------------------------------------------------------
(* The agent: precheck_draft, then queue_bot_draft_for_send.               *)

Precheck(d) ==
    /\ plan[d] # PageOf(drafts[d])
    /\ plan' = [plan EXCEPT ![d] = PageOf(drafts[d])]
    /\ UNCHANGED <<storeVars, mailVars, view, ledger>>

AgentQueue(d) ==
    /\ QueueForSend(d, plan[d].rev, "later")
    /\ ledger' = [ledger EXCEPT ![d].declared = @ \cup {plan[d].content},
                                ![d].sent = NoRev, ![d].held = FALSE]
    /\ UNCHANGED <<mailVars, view, plan>>

-----------------------------------------------------------------------------
HumanStep(d) ==
    \/ View(d)
    \/ Approve(d)
    \/ \E when \in {"later", "due"} : HumanSend(d, when)
    \/ Edit(d)
    \/ Hold(d)
    \/ Block(d)
    \/ Discard(d)
    \/ RetryWithContext(d)

AgentStep(d) == Precheck(d) \/ AgentQueue(d)

CockpitTypeOK ==
    /\ view \in [Draft -> Page]
    /\ plan \in [Draft -> Page]
    /\ ledger \in [Draft -> Decisions]
=============================================================================
