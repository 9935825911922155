---------------------------- MODULE ImapFolders -----------------------------
(***************************************************************************)
(* The folders of one account as the message commands see them: the       *)
(* primitives of crates/email/src/imap.rs, each command to the server one  *)
(* action of the worker that issues it.                                    *)
(*                                                                         *)
(* A move is UID COPY, UID STORE +FLAGS (\Deleted) and an expunge, three   *)
(* commands that fail one by one.  A UID is the position at which its      *)
(* message entered the folder; no UID is used again.                       *)
(***************************************************************************)
EXTENDS Naturals, Sequences, FiniteSets

CONSTANTS
    Message,      \* the messages of the account
    NoMessageId,  \* those without a Message-ID header
    Folder,       \* folder names
    MaxUid,       \* bound on the UIDs a folder hands out
    Uidplus,      \* whether the server has the UIDPLUS capability
    Worker,       \* commands and background tasks that may run at a time
    Nobody        \* stands for a missing message, folder or row

ASSUME NoMessageIdAssumption == NoMessageId \subseteq Message
ASSUME MaxUidAssumption == MaxUid \in Nat \ {0}
ASSUME UidplusAssumption == Uidplus \in BOOLEAN
ASSUME WorkerAssumption == IsFiniteSet(Worker)
ASSUME NobodyAssumption == Nobody \notin [msg : Message, flagged : BOOLEAN] \cup Folder

VARIABLES
    mail,      \* [Folder -> Seq(copy or Nobody)], by UID
    job,       \* [Worker -> the command it executes, with its locals]
    deleted,   \* messages a user asked to delete; not in the code
    unseen,    \* messages a move marked that its COPY had not met; not in the code
    faults,    \* how often the server, the store or a process may still fail
    reliable   \* whether nothing fails at all; set at the start

folderVars == <<mail, deleted, unseen>>

Uid == 1 .. MaxUid
Copy == [msg : Message, flagged : BOOLEAN]
Held(f) == {u \in DOMAIN mail[f] : mail[f][u] # Nobody}
CopiesOf(m) == {c \in Folder \X Uid : c[2] \in Held(c[1]) /\ mail[c[1]][c[2]].msg = m}

-----------------------------------------------------------------------------
(* A job: what the worker does (`task`), where it stands (`at`), the UIDs  *)
(* the command at hand names (`now`), those still to be done one by one    *)
(* (`rest`), and the outcome it will report.  `met` is not in the code: the    *)
(* UIDs its COPY found.                                                    *)

Task == {"none", "snooze", "return", "bulk", "single", "rules"}
At == {"idle", "next", "copy", "mark", "expunge", "record", "forget", "report"}

Idle == [at |-> "idle", task |-> "none", by |-> "cli", delete |-> FALSE, from |-> Nobody,
         to |-> Nobody, now |-> {}, rest |-> {}, batch |-> FALSE, done |-> {}, failed |-> {},
         row |-> Nobody, queue |-> {}, met |-> {}]

Busy(w) == job[w].at # "idle"
Goto(w, at) == job' = [job EXCEPT ![w].at = at]

\* The first command of a move or a deletion.
FirstStep(delete) == IF delete THEN "mark" ELSE "copy"

\* The messages a command names.
Named(w) == {mail[job[w].from][u].msg : u \in job[w].now \cap Held(job[w].from)}

Fault == faults > 0 /\ faults' = faults - 1

-----------------------------------------------------------------------------
(* The commands.                                                           *)

\* UIDs in ascending order, in which a COPY numbers its messages.
InOrder(uids) ==
    [i \in 1 .. Cardinality(uids) |-> CHOOSE u \in uids : Cardinality({v \in uids : v <= u}) = i]

\* Mutant: only the first UID named is copied.
AppendFirstCopy(w) ==
    LET source == mail[job[w].from]
        named == InOrder(job[w].now \cap Held(job[w].from))
    IN  [mail EXCEPT ![job[w].to] = @ \o [i \in DOMAIN named \cap {1} |-> source[named[i]]]]

AppendCopies(w) ==
    LET source == mail[job[w].from]
        named == InOrder(job[w].now \cap Held(job[w].from))
    IN  [mail EXCEPT ![job[w].to] = @ \o [i \in DOMAIN named |-> source[named[i]]]]

\* move_message: UID COPY.  A UID nobody holds is not an error, and the flags
\* are copied with the message.
CopyMessages(w) ==
    /\ job[w].at = "copy"
    /\ mail' = AppendCopies(w)
    /\ \A f \in Folder : Len(mail'[f]) <= MaxUid
    /\ job' = [job EXCEPT ![w].at = "mark", ![w].met = job[w].now \cap Held(job[w].from)]
    /\ UNCHANGED <<deleted, unseen, faults>>

\* The messages a deletion names are the user's to lose from here on.
Renounce(w) ==
    /\ deleted' = IF job[w].delete THEN deleted \cup Named(w) ELSE deleted
    /\ unseen' = IF job[w].delete THEN unseen
                 ELSE unseen \cup {mail[job[w].from][u].msg :
                                      u \in (job[w].now \ job[w].met) \cap Held(job[w].from)}

\* UID STORE +FLAGS (\Deleted).  The answers are consumed unread: a STORE the
\* server refuses looks like one it executed.
MarkDeleted(w) ==
    /\ job[w].at = "mark"
    /\ \/ /\ mail' = [mail EXCEPT ![job[w].from] =
                  [u \in DOMAIN @ |-> IF u \in job[w].now /\ @[u] # Nobody
                                      THEN [@[u] EXCEPT !.flagged = TRUE] ELSE @[u]]]
          /\ UNCHANGED faults
       \/ Fault /\ UNCHANGED mail
    /\ Renounce(w)
    /\ Goto(w, "expunge")

\* expunge_uids: UID EXPUNGE of the UIDs named, or, without UIDPLUS, EXPUNGE
\* of every message that carries \Deleted.
Expunged(w) == IF Uidplus THEN job[w].now ELSE Uid

Expunge(w, after) ==
    /\ job[w].at = "expunge"
    /\ \/ /\ mail' = [mail EXCEPT ![job[w].from] =
                  [u \in DOMAIN @ |-> IF u \in Expunged(w) /\ @[u] # Nobody /\ @[u].flagged
                                      THEN Nobody ELSE @[u]]]
          /\ UNCHANGED faults
       \/ Fault /\ UNCHANGED mail
    /\ after
    /\ UNCHANGED <<deleted, unseen>>

\* A command that fails: what the server did of it before is not undone.
CommandFails(w, after) ==
    /\ Fault
    /\ job[w].at \in {"copy", "mark", "expunge"}
    /\ after
    /\ UNCHANGED folderVars

\* The process ends, whatever it was doing.
WorkerCrashes(w) ==
    /\ Fault
    /\ Busy(w)
    /\ job' = [job EXCEPT ![w] = Idle]
    /\ UNCHANGED folderVars
=============================================================================
