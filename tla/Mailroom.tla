------------------------------ MODULE Mailroom ------------------------------
(***************************************************************************)
(* The commands and background tasks that move, delete, snooze and return  *)
(* messages of one account, at the same time and on the same folders.      *)
(*                                                                         *)
(* `crew` says which programs each worker may run; it is chosen at the     *)
(* start and stays, with `faults`.  Commands act on one folder, the inbox, and move to    *)
(* one other; snoozes start in either.                                     *)
(***************************************************************************)
EXTENDS Snooze, Bulk

CONSTANTS
    Inbox,        \* the folder commands act on
    Archive,      \* where they move messages to
    Initially,    \* [Folder -> Seq(Message)]: the folders at the start
    Settings      \* [crew, faults]: who may run, and how often things may fail

Program == {"snooze", "dashboardSnooze", "sweep", "check", "button", "cancel", "bulk", "single",
            "rules"}

ASSUME SettingsAssumption ==
    Settings \subseteq [crew : [Worker -> SUBSET Program], faults : Nat]
ASSUME FoldersAssumption == {Inbox, Archive, Snoozed} \subseteq Folder /\ Inbox # Archive
ASSUME InitiallyAssumption ==
    /\ Initially \in [Folder -> Seq(Message)]
    /\ \A f \in Folder : Len(Initially[f]) <= MaxUid
    /\ \A m \in Message : \E f \in Folder : \E u \in DOMAIN Initially[f] : Initially[f][u] = m

VARIABLE crew

vars == <<mail, job, deleted, unseen, faults, rows, ever, time, strays, crew, reliable>>

Init ==
    /\ \E s \in Settings : crew = s.crew /\ faults = s.faults /\ reliable = (s.faults = 0)
    /\ mail = [f \in Folder |-> [u \in DOMAIN Initially[f] |->
                                    [msg |-> Initially[f][u], flagged |-> FALSE]]]
    /\ job = [w \in Worker |-> Idle]
    /\ deleted = {} /\ unseen = {} /\ rows = {} /\ ever = {} /\ time = 0 /\ strays = {}

-----------------------------------------------------------------------------
\* Starting a program.
Begin(w) ==
    \/ /\ Cardinality(ever) < MaxRow
       /\ \E by \in {"cli", "dashboard"}, f \in {Inbox, Archive}, at \in 0 .. MaxTime :
              /\ (IF by = "cli" THEN "snooze" ELSE "dashboardSnooze") \in crew[w]
              /\ \E u \in Held(f) : StartSnooze(w, by, f, u, at)
    \/ "sweep" \in crew[w] /\ StartSweep(w, "dashboard")
    \/ "check" \in crew[w] /\ StartSweep(w, "cli")
    \/ "button" \in crew[w] /\ \E row \in rows : StartCancel(w, "dashboard", row)
    \/ "cancel" \in crew[w] /\ \E row \in rows : StartCancel(w, "cli", row)

BeginBulk(w) ==
    /\ \/ /\ "bulk" \in crew[w]
          /\ \E delete \in BOOLEAN, uids \in SUBSET DOMAIN mail[Inbox] :
                 StartBulk(w, delete, Inbox, Archive, uids)
       \/ /\ "single" \in crew[w]
          /\ \E delete \in BOOLEAN, u \in DOMAIN mail[Inbox] :
                 StartSingle(w, delete, Inbox, Archive, u)
       \/ "rules" \in crew[w] /\ StartRules(w, Inbox, Archive)
    /\ UNCHANGED <<folderVars, faults, snoozeVars>>

\* One command of a program that is running.
SnoozeStep(w) ==
    \/ \E row \in job[w].queue : ReturnNext(w, row)
    \/ ReturnCopies(w)
    \/ /\ job[w].task = "snooze" /\ CopyMessages(w) /\ UNCHANGED snoozeVars
    \/ /\ job[w].task \in {"snooze", "return"} /\ MarkDeleted(w) /\ UNCHANGED snoozeVars
    \/ /\ job[w].task \in {"snooze", "return"} /\ Expunge(w, SnoozeExpunged(w))
       /\ UNCHANGED snoozeVars
    \/ RecordSnooze(w)
    \/ ForgetRow(w)
    \/ ReturnDone(w)

BulkStep(w) ==
    /\ BulkTask(w)
    /\ \/ CopyMessages(w)
       \/ MarkDeleted(w)
       \/ Expunge(w, Succeeded(w))
       \/ CommandFails(w, Failed(w))
       \/ (NextSingle(w) \/ LastSingle(w) \/ Reported(w)) /\ UNCHANGED <<folderVars, faults>>
    /\ UNCHANGED snoozeVars

Crash(w) == WorkerCrashes(w) /\ UNCHANGED snoozeVars

Next ==
    /\ \/ \E w \in Worker : Begin(w) \/ BeginBulk(w) \/ SnoozeStep(w) \/ BulkStep(w)
                            \/ SnoozeFails(w) \/ Crash(w)
       \/ Tick
    /\ UNCHANGED <<crew, reliable>>

Spec == Init /\ [][Next]_vars

\* Time passes, the ticker starts a sweep whenever rows are due, and a program
\* that was started goes on.
Sweeps(w) == "sweep" \in crew[w] /\ StartSweep(w, "dashboard") /\ UNCHANGED <<crew, reliable>>
Continues(w) == SnoozeStep(w) /\ UNCHANGED <<crew, reliable>>

FairSpec ==
    /\ Spec
    /\ WF_vars(Tick /\ UNCHANGED <<crew, reliable>>)
    /\ \A w \in Worker : WF_vars(Continues(w)) /\ SF_vars(Sweeps(w))

-----------------------------------------------------------------------------
(* Properties.                                                             *)

Safe(m) == \E c \in CopiesOf(m) : ~mail[c[1]][c[2]].flagged

\* What a move deletes it has copied.  Whatever fails or crashes, whoever else
\* works on the folders, with or without UIDPLUS: a message nobody asked to
\* delete keeps a copy without \Deleted, which no expunge can remove, unless
\* a move named its UID before the message had it.
NothingElseIsLost == \A m \in Message \ (deleted \cup unseen) : Safe(m)

\* A move is "copy + delete" (crates/email/src/imap.rs:1772): a message nobody
\* asked to delete is never lost.
NothingIsLost == \A m \in Message \ deleted : Safe(m)

FolderPrograms == {"bulk", "single", "rules"}

\* What a bulk call reports as done was done: `succeeded` names no message
\* whose COPY failed, the retries UID by UID included, and together with
\* `failed` it names every UID requested (crates/email/src/bulk.rs, BulkResult),
\* as long as nobody else takes messages out of the two folders.
BulkReportsTruth ==
    \A w \in Worker :
        /\ job[w].task = "bulk" /\ job[w].at = "report"
        /\ crew[w] \subseteq FolderPrograms /\ \A v \in Worker \ {w} : crew[v] = {}
        => /\ job[w].done \cap job[w].failed = {}
           /\ job[w].rest = {}
           /\ \A u \in job[w].done \cap DOMAIN Initially[Inbox] :
                  LET m == Initially[Inbox][u]
                  IN  m \in deleted \/ \E c \in CopiesOf(m) : c[1] = Archive

Returners == {w \in Worker : crew[w] \cap {"sweep", "check", "button", "cancel"} # {}}
Snoozers == {w \in Worker : crew[w] \cap {"snooze", "dashboardSnooze"} # {}}
\* Nothing fails, one worker returns rows and one snoozes, and no other command
\* is at work on the folders.
Orderly ==
    /\ reliable /\ Cardinality(Returners) <= 1 /\ Cardinality(Snoozers) <= 1
    /\ \A w \in Worker : crew[w] \cap FolderPrograms = {}

\* When every message snoozed has a Message-ID, a return never moves another
\* message than the one its row was written for, although the UID in the row
\* names, in Snoozed, whichever message came there under it.  With a second
\* returner, after a failure, or with a bulk call at work, it may (see the
\* README).
ReturnsItsOwn ==
    Orderly /\ (\A r \in ever : r.mid # Nobody) => strays = {}

\* A sweep returns what is due.  The rows are in UTC, and a comment of the
\* dashboard's sweep (crates/dashboard/src/lib.rs:574) says why the clock must be.
ReturnsWhenDue ==
    \A w \in Worker :
        \A row \in job[w].queue : job[w].by = "cli" /\ crew[w] = {"check"} => row.at <= time

\* A snoozed message comes back: orderly and with a sweep, every row
\* is removed in the end and its message is in the folder it came from, as long
\* as every message snoozed has a Message-ID.
SnoozedComesBack ==
    \A i \in 1 .. MaxRow :
        (/\ Orderly /\ \E w \in Returners : "sweep" \in crew[w]
         /\ \E r \in rows : r.id = i)
            ~> (\E r \in ever : r.id = i /\ r \notin rows /\ \E c \in CopiesOf(r.of) : c[1] = r.from)
               \/ \E r \in ever : r.mid = Nobody
=============================================================================
