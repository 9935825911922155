------------------------------- MODULE Snooze -------------------------------
(***************************************************************************)
(* Snoozed messages: the rows of the snoozed table                         *)
(* (crates/store/src/snoozed.rs), `envelope snooze set` and the            *)
(* dashboard's snooze, which move a message to the Snoozed folder, and the *)
(* four programs that move it back: the dashboard's sweep and its unsnooze *)
(* button, `envelope unsnooze --once` and `envelope snooze cancel`.        *)
(*                                                                         *)
(* Times are hours of UTC; Skew is how far the local clock is ahead.       *)
(***************************************************************************)
EXTENDS ImapFolders

CONSTANTS
    MaxTime,   \* the last hour
    MaxRow,    \* bound on the rows ever created
    Skew       \* offset of local time from UTC

ASSUME TimeAssumption == MaxTime \in Nat /\ Skew \in Nat /\ MaxRow \in Nat \ {0}

VARIABLES
    rows,      \* the snoozed table
    ever,      \* every row the table ever had; not in the code
    time,      \* the hour
    strays     \* messages a return of another's row moved; not in the code

snoozeVars == <<rows, ever, time, strays>>

Snoozed == "Snoozed"

\* `owner` is the form of the account the row was stored with: its id or its
\* e-mail address.  `of` is the message snoozed, which the code does not store.
Row == [id : 1 .. MaxRow, owner : {"id", "email"}, uid : Uid, from : Folder, at : 0 .. MaxTime,
        mid : Message \cup {Nobody}, of : Message]

CreateSnoozed(row) == rows' = rows \cup {row} /\ ever' = ever \cup {row}
DeleteSnoozed(row) == rows' = {r \in rows : r.id # row.id} /\ UNCHANGED ever
FindSnoozedByUid(u) == {r \in rows : r.owner = "email" /\ r.uid = u}
\* Mutant: the sweep, too, only knows the rows of its own form of the account.
SnoozedOfForm(now, by) ==
    {r \in rows : r.at <= now /\ r.owner = IF by = "cli" THEN "email" ELSE "id"}
SnoozedDue(now, by) == {r \in rows : r.at <= now /\ (by = "cli" => r.owner = "email")}

\* The dashboard keeps one connection for an account id and locks it while a
\* row or a request is at work; a failure
\* evicts it while others may still hold the old one.
OwnerOf(w) == IF job[w].task = "return" THEN job[w].row.owner ELSE "id"
OnConnection(w) == job[w].by = "dashboard" /\ job[w].at \in {"copy", "mark", "expunge"}
ConnectionFree(owner) == ~reliable \/ ~\E v \in Worker : OnConnection(v) /\ OwnerOf(v) = owner

-----------------------------------------------------------------------------
(* Snoozing.                                                               *)

\* run_snooze: the command looks for an earlier snooze of the UID, whatever
\* its folder, and reads the Message-ID itself; the dashboard's request brings
\* one or none and must name a future time.
SnoozeRow(by, f, u, at) ==
    [id |-> Cardinality(ever) + 1, owner |-> IF by = "cli" THEN "email" ELSE "id", uid |-> u, from |-> f,
     at |-> at, mid |-> IF mail[f][u].msg \in NoMessageId THEN Nobody ELSE mail[f][u].msg,
     of |-> mail[f][u].msg]

StartSnooze(w, by, f, u, at) ==
    /\ ~Busy(w)
    /\ f # Snoozed /\ u \in Held(f)
    /\ IF by = "cli" THEN FindSnoozedByUid(u) = {} ELSE at > time /\ ConnectionFree("id")
    /\ job' = [job EXCEPT ![w] = [Idle EXCEPT
           !.at = "copy", !.task = "snooze", !.by = by, !.from = f, !.to = Snoozed, !.now = {u},
           !.row = SnoozeRow(by, f, u, at)]]
    /\ UNCHANGED <<folderVars, faults, snoozeVars>>

\* The row is written after the move; an error leaves the message in Snoozed.
RecordSnooze(w) ==
    /\ job[w].at = "record"
    /\ Cardinality(ever) < MaxRow
    /\ \/ CreateSnoozed([job[w].row EXCEPT !.id = Cardinality(ever) + 1]) /\ UNCHANGED faults
       \/ Fault /\ UNCHANGED <<rows, ever>>
    /\ job' = [job EXCEPT ![w] = Idle]
    /\ UNCHANGED <<folderVars, time, strays>>

-----------------------------------------------------------------------------
(* Returning.                                                              *)

\* run_unsnooze_sweep and run_check: the rows due are listed once, against the
\* clock of the program, and returned one after the other.
StartSweep(w, by) ==
    LET now == IF by = "cli" THEN time + Skew ELSE time
    IN  /\ ~Busy(w)
        /\ SnoozedDue(now, by) # {}
        /\ job' = [job EXCEPT ![w] = [Idle EXCEPT
               !.at = "next", !.task = "return", !.by = by, !.queue = SnoozedDue(now, by)]]
        /\ UNCHANGED <<folderVars, faults, snoozeVars>>

\* run_unsnooze and the dashboard's unsnooze: one row, read before the
\* connection is at hand, due or not.
StartCancel(w, by, row) ==
    /\ ~Busy(w)
    /\ by = "cli" => row \in FindSnoozedByUid(row.uid)
    /\ job' = [job EXCEPT ![w] = [Idle EXCEPT
           !.at = "next", !.task = "return", !.by = by, !.queue = {row}]]
    /\ UNCHANGED <<folderVars, faults, snoozeVars>>

\* Mutant: the Message-ID is not looked for.
FoundNowhere(row) == {}

\* The message is looked for by its Message-ID.  When there is none, the search
\* fails or finds nothing, the UID is the one it had before it was snoozed,
\* which in Snoozed may be the UID of another message.
FoundUids(row) == {u \in Held(Snoozed) : mail[Snoozed][u].msg = row.mid}

ReturnNext(w, row) ==
    /\ job[w].task = "return" /\ job[w].at = "next"
    /\ row \in job[w].queue
    /\ job[w].by = "dashboard" => ConnectionFree(row.owner)
    /\ \E u \in FoundUids(row) \cup {row.uid} :
           /\ CASE u \in FoundUids(row) -> UNCHANGED faults
                [] FoundUids(row) = {} -> UNCHANGED faults
                [] OTHER -> Fault
           /\ job' = [job EXCEPT ![w].at = "copy", ![w].row = row, ![w].from = Snoozed,
                                 ![w].to = row.from, ![w].now = {u}, ![w].queue = @ \ {row}]
    /\ UNCHANGED <<folderVars, snoozeVars>>

ReturnCopies(w) ==
    /\ job[w].task = "return"
    /\ CopyMessages(w)
    /\ strays' = strays \cup (Named(w) \ {job[w].row.of})
    /\ UNCHANGED <<rows, ever, time>>

\* The row goes after the message.  The sweeps and the dashboard's button do
\* not notice when that fails.
ForgetRow(w) ==
    /\ job[w].at = "forget"
    /\ \/ DeleteSnoozed(job[w].row) /\ UNCHANGED faults
       \/ Fault /\ UNCHANGED <<rows, ever>>
    /\ Goto(w, "next")
    /\ UNCHANGED <<folderVars, time, strays>>

ReturnDone(w) ==
    /\ job[w].task = "return" /\ job[w].at = "next" /\ job[w].queue = {}
    /\ job' = [job EXCEPT ![w] = Idle]
    /\ UNCHANGED <<folderVars, faults, snoozeVars>>

\* After the expunge a snooze is recorded and a return forgotten; after a
\* failed command a snooze ends and a return goes on with its next row.
SnoozeExpunged(w) ==
    CASE job[w].task = "snooze" -> Goto(w, "record")
      [] job[w].task = "return" -> Goto(w, "forget")

SnoozeFails(w) ==
    /\ job[w].task \in {"snooze", "return"}
    /\ CommandFails(w, IF job[w].task = "snooze" THEN job' = [job EXCEPT ![w] = Idle]
                                                 ELSE Goto(w, "next"))
    /\ UNCHANGED snoozeVars

Tick ==
    /\ time < MaxTime
    /\ time' = time + 1
    /\ UNCHANGED <<folderVars, job, faults, rows, ever, strays>>
=============================================================================
