-------------------------------- MODULE Bulk --------------------------------
(***************************************************************************)
(* Commands over several messages of a folder: `envelope bulk`             *)
(* (crates/email/src/bulk.rs), the single move and delete of the           *)
(* dashboard's message view, and a run of the rules                        *)
(* (crates/cli/src/commands/rule.rs).                                      *)
(***************************************************************************)
EXTENDS ImapFolders

CONSTANTS
    BulkUidLimit,   \* most UIDs one bulk call takes
    RuleAction      \* [Message -> what the rules do with it]

ASSUME BulkUidLimitAssumption == BulkUidLimit \in Nat

\* execute: the targets are resolved and counted before anything is done; one
\* batch names them all.
StartBulk(w, delete, from, to, uids) ==
    /\ ~Busy(w)
    /\ uids # {} /\ Cardinality(uids) <= BulkUidLimit
    /\ job' = [job EXCEPT ![w] = [Idle EXCEPT
           !.at = FirstStep(delete), !.task = "bulk", !.delete = delete, !.from = from, !.to = to,
           !.now = uids, !.batch = TRUE]]

\* mv and delete: one message, no second try.
StartSingle(w, delete, from, to, u) ==
    /\ ~Busy(w)
    /\ job' = [job EXCEPT ![w] = [Idle EXCEPT
           !.at = FirstStep(delete), !.task = "single", !.by = "dashboard", !.delete = delete,
           !.from = from, !.to = to, !.now = {u}]]

\* apply_core: the rules are evaluated against the summaries fetched at the
\* start; each message a rule moves or deletes is a command of its own.
StartRules(w, from, to) ==
    LET matched == {u \in Held(from) : RuleAction[mail[from][u].msg] # "keep"}
    IN  /\ ~Busy(w)
        /\ matched # {}
        /\ job' = [job EXCEPT ![w] = [Idle EXCEPT
               !.at = "next", !.task = "rules", !.from = from, !.to = to, !.rest = matched]]

\* A rule's action was decided at the fetch, for the message the UID had then.
DeletesHere(w, u) ==
    IF job[w].task = "rules"
    THEN mail[job[w].from][u] # Nobody /\ RuleAction[mail[job[w].from][u].msg] = "delete"
    ELSE job[w].delete

\* The next UID, alone.
NextSingle(w) ==
    /\ job[w].task \in {"bulk", "rules"} /\ job[w].at = "next"
    /\ \E u \in job[w].rest :
           job' = [job EXCEPT ![w].at = FirstStep(DeletesHere(w, u)), ![w].now = {u},
                              ![w].delete = DeletesHere(w, u), ![w].rest = @ \ {u}]

LastSingle(w) ==
    /\ job[w].task \in {"bulk", "rules"} /\ job[w].at = "next" /\ job[w].rest = {}
    /\ Goto(w, "report")

\* A command that was executed: its UIDs count as done.
Succeeded(w) ==
    job' = [job EXCEPT ![w].at = IF job[w].batch \/ job[w].task = "single" THEN "report" ELSE "next",
                       ![w].done = @ \cup job[w].now]

\* Mutant: a batch that failed is reported as done.
FailedBatchDone(w) ==
    job' = [job EXCEPT ![w].at = "report", ![w].done = @ \cup job[w].now]

\* A batch that failed, at whichever step, is done again UID by UID; a single
\* UID that failed is reported and the others go on.
Failed(w) ==
    IF job[w].batch
    THEN job' = [job EXCEPT ![w].at = "next", ![w].batch = FALSE, ![w].rest = job[w].now]
    ELSE job' = [job EXCEPT ![w].at = IF job[w].task = "single" THEN "report" ELSE "next",
                            ![w].failed = @ \cup job[w].now]

BulkTask(w) == job[w].task \in {"bulk", "single", "rules"}

Reported(w) ==
    /\ job[w].at = "report"
    /\ job' = [job EXCEPT ![w] = Idle]
=============================================================================
