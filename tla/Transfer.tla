------------------------------ MODULE Transfer ------------------------------
(***************************************************************************)
(* What `envelope migrate` and `envelope backup` have in common: a source  *)
(* account they only read, a destination account they only append to, and  *)
(* runs that go through the folders one after the other and through the    *)
(* messages of a folder in batches.                                        *)
(***************************************************************************)
EXTENDS Naturals, Functions, FiniteSets

CONSTANTS
    Message,      \* contents of messages
    Damaged,      \* what a file on disk that is no longer the message holds
    MessageId,    \* [Message -> its Message-ID, or Nobody]
    Folder,       \* folder names
    MaxEpoch,     \* bound on the UIDVALIDITY of a folder
    BatchSize,    \* messages fetched at a time
    Worker,       \* commands that may run at a time
    Nobody        \* no message, Message-ID, file or line

ASSUME DamagedAssumption == Damaged \notin Message
ASSUME MessageIdAssumption == DOMAIN MessageId = Message
ASSUME BatchSizeAssumption == BatchSize \in Nat \ {0}
ASSUME MaxEpochAssumption == MaxEpoch \in Nat \ {0}

VARIABLES
    source,   \* [Folder -> [epoch, mail]], mail a function of the UIDs held
    dest,     \* [Folder -> [Message or Damaged -> number of copies]]
    run,      \* [Worker -> the command it executes, with its locals]
    faults,   \* what may still fail: commands, writes, processes, files
    overlap   \* whether two runs were ever at work at a time; not in the code

\* A message of the source: its folder, UIDVALIDITY and UID.
Key == [folder : Folder, epoch : 1 .. MaxEpoch, uid : Nat]
KeyOf(f, u) == [folder |-> f, epoch |-> source[f].epoch, uid |-> u]
Held(f) == DOMAIN source[f].mail

\* A run: the command (`task`) and the step it is at, the folders left, the
\* UIDs of the folder at hand that are still to be fetched, the batch in memory
\* and the message of it at hand (`item`).  A batch has the server's order.
\* `listed` is not in the code: the messages its listings found.
Idle == [at |-> "idle", task |-> "none", folders |-> {}, folder |-> Nobody, epoch |-> 0,
         uids |-> {}, batch |-> {}, item |-> Nobody, failed |-> 0, records |-> {}, listed |-> {}]

Busy(w) == run[w].at # "idle"
Overlaps(w) == overlap' = (overlap \/ \E v \in Worker \ {w} : Busy(v))
Goto(w, at) == run' = [run EXCEPT ![w].at = at]
Abort(w) == run' = [run EXCEPT ![w] = Idle]

Fault == faults > 0 /\ faults' = faults - 1
Crash(w) == Busy(w) /\ Fault /\ Abort(w)

-----------------------------------------------------------------------------
(* The source.                                                             *)

\* The folder is selected (EXAMINE for an export), its UIDVALIDITY kept and
\* its UIDs listed.
OpenFolder(w, f) ==
    /\ run[w].at = "folder" /\ f \in run[w].folders
    /\ run' = [run EXCEPT
           ![w].at = "batch", ![w].folder = f, ![w].folders = @ \ {f},
           ![w].epoch = source[f].epoch, ![w].uids = Held(f),
           ![w].listed = @ \cup {<<f, source[f].mail[u]>> : u \in Held(f)}]

\* The next UIDs, in their order.  One whose message is gone is left out of the
\* answer.  When the folder was renumbered meanwhile, the server has ended
\* the selection: the fetch fails.
FetchBatch(w) ==
    LET r == run[w]
        named == {u \in r.uids : Cardinality({v \in r.uids : v <= u}) <= BatchSize}
    IN  /\ r.at = "batch" /\ r.uids # {}
        /\ source[r.folder].epoch = r.epoch
        /\ run' = [run EXCEPT
               ![w].at = "message", ![w].uids = @ \ named,
               ![w].batch = {[key |-> [folder |-> r.folder, epoch |-> r.epoch, uid |-> u],
                              msg |-> source[r.folder].mail[u]] : u \in named \cap Held(r.folder)}]

FetchFails(w) ==
    /\ run[w].at = "batch" /\ run[w].uids # {}
    /\ IF source[run[w].folder].epoch = run[w].epoch THEN Fault ELSE UNCHANGED faults
    /\ Abort(w)

FolderDone(w) ==
    /\ run[w].at = "batch" /\ run[w].uids = {}
    /\ Goto(w, "folder")

BatchDone(w) ==
    /\ run[w].at = "message" /\ run[w].batch = {}
    /\ Goto(w, "batch")

\* A message of the batch is taken, and the next step is `at`.
Taken(w, item, at) ==
    [run EXCEPT ![w].at = at, ![w].batch = @ \ {item}, ![w].item = IF at = "message" THEN Nobody ELSE item]

\* On to the next message, this one failed or not.
Dropped(w, failed) ==
    [run EXCEPT ![w].at = "message", ![w].item = Nobody, ![w].failed = @ + failed]

-----------------------------------------------------------------------------
(* The destination.                                                        *)

InDest(f, m) ==
    \E n \in Message : /\ dest[f][n] > 0
                       /\ n = m \/ (MessageId[m] # Nobody /\ MessageId[n] = MessageId[m])

\* Mutant: only the very same message is found.
FindByContent(f, m) == MessageId[m] # Nobody /\ dest[f][m] > 0

\* find_uid_by_message_id.
FindByMessageId(f, m) ==
    MessageId[m] # Nobody /\ \E n \in Message : dest[f][n] > 0 /\ MessageId[n] = MessageId[m]

\* append_message_with_date: it succeeds, or the server refuses it, or
\* executes it and the answer is lost.
AppendTo(f, m) == dest' = [dest EXCEPT ![f][m] = @ + 1]

\* Mutant: a refusal is not noticed.
AppendUnnoticed(w, f, m, next) ==
    /\ Goto(w, next)
    /\ \/ AppendTo(f, m) /\ UNCHANGED faults
       \/ Fault /\ UNCHANGED dest

AppendMessage(w, f, m, next) ==
    \/ AppendTo(f, m) /\ Goto(w, next) /\ UNCHANGED faults
    \/ Fault /\ run' = Dropped(w, 1) /\ (UNCHANGED dest \/ AppendTo(f, m))

-----------------------------------------------------------------------------
(* The owner of the source, meanwhile.                                     *)

Removed(f, u) ==
    /\ u \in Held(f)
    /\ source' = [source EXCEPT ![f].mail = Restrict(@, Held(f) \ {u})]

\* The server numbers the messages of a folder anew under another UIDVALIDITY.
Renumbered(f) ==
    /\ source[f].epoch < MaxEpoch
    /\ \E old \in Bijection(1 .. Cardinality(Held(f)), Held(f)) :
           source' = [source EXCEPT ![f] =
               [epoch |-> @.epoch + 1, mail |-> [u \in DOMAIN old |-> source[f].mail[old[u]]]]]
=============================================================================
