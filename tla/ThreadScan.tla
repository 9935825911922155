----------------------------- MODULE ThreadScan -----------------------------
(***************************************************************************)
(* `envelope thread build` and the automatic build of `envelope thread     *)
(* show` (build_threads, crates/email/src/threading.rs), against a server  *)
(* that receives and expunges messages and renumbers a folder.             *)
(*                                                                         *)
(* A scanner goes through the folders, each from the UID the cache has     *)
(* reached, writes one row per message, and then folds what it wrote into  *)
(* the address book.  Each statement is a step.  Most errors are only      *)
(* warned about, and the scan goes on.                                     *)
(***************************************************************************)
EXTENDS AddressBook

CONSTANTS
    Scanner,     \* processes
    Folders,     \* the folders in the order of a scan
    MaxMessages  \* --limit

ASSUME ScanAssumption == Folders \in Seq(Folder) /\ Folders # <<>> /\ MaxMessages \in Nat \ {0}

VARIABLES
    box,       \* [Folder -> [UIDs -> Message]]: the folders at the server
    top,       \* [Folder -> Nat]: the highest UID given out
    epoch,     \* [Folder -> Nat]: their UIDVALIDITY
    scan,      \* [Scanner -> what it is doing]
    parser,    \* the version of the header parser installed
    faults,    \* statements and connections that may still fail
    lapsed     \* a failure was passed over, or the cache or its sync state wiped under
               \* another scan, or after another had begun the folder anew; not in the code

scanVars == <<box, top, epoch, scan, parser, faults, lapsed>>

Idle == [at |-> "idle", todo |-> <<>>, epoch |-> 0, queue |-> {}, seen |-> 0, row |-> 0,
         stale |-> FALSE]
Busy(w) == scan[w].at # "idle"
F(w) == Head(scan[w].todo)
Who(m) == Parsed[parser][m]

Now(w, record) == scan' = [scan EXCEPT ![w] = record]
Goto(w, at) == Now(w, [scan[w] EXCEPT !.at = at])
ServerSame == UNCHANGED <<box, top, epoch, parser>>
Fault == faults > 0 /\ faults' = faults - 1
PassedOver == Fault /\ lapsed' = TRUE
Fine == UNCHANGED <<faults, lapsed>>

-----------------------------------------------------------------------------
(* One folder.                                                             *)

Start(w, rebuild) ==
    /\ ~Busy(w)
    /\ Now(w, [Idle EXCEPT !.at = IF rebuild THEN "clear" ELSE "select", !.todo = Folders])
    /\ UNCHANGED <<faults, lapsed, cacheVars, bookVars>> /\ ServerSame

\* --rebuild forgets how far the cache has come, in every folder.
Clear(w) ==
    /\ scan[w].at = "clear"
    /\ Goto(w, "select")
    /\ \/ /\ ClearLastSyncedUid /\ UNCHANGED faults
          /\ lapsed' = (lapsed \/ \E v \in Scanner \ {w} : Busy(v))
       \/ Fault /\ UNCHANGED <<sync, lapsed>>
    /\ UNCHANGED <<cached, lastId, bookVars>> /\ ServerSame

NextFolder(w) ==
    Now(w, [Idle EXCEPT !.at = IF Len(scan[w].todo) > 1 THEN "select" ELSE "fold",
                        !.todo = Tail(scan[w].todo)])

Select(w) ==
    /\ scan[w].at = "select"
    /\ IF DOMAIN box[F(w)] = {} THEN NextFolder(w)
                                ELSE Now(w, [scan[w] EXCEPT !.at = "check", !.epoch = epoch[F(w)]])
    /\ UNCHANGED <<faults, lapsed, cacheVars, bookVars>> /\ ServerSame

\* Are the cache's UIDs still those of the folder?
Check(w) ==
    /\ scan[w].at = "check"
    /\ Goto(w, IF StoredEpoch(F(w)) = 0 THEN "adopt"
               ELSE IF StoredEpoch(F(w)) = scan[w].epoch THEN "fetch" ELSE "wipe")
    /\ UNCHANGED <<cacheVars, bookVars>> /\ ServerSame /\ Fine

Adopt(w) ==
    /\ scan[w].at = "adopt"
    /\ Goto(w, "fetch")
    /\ \/ SetUidvalidity(F(w), scan[w].epoch) /\ Fine
       \/ PassedOver /\ UNCHANGED sync
    /\ UNCHANGED <<cached, lastId, bookVars>> /\ ServerSame

\* Mutant: the history is not told of the rows that went.
WipeQuietly(w) ==
    /\ scan[w].at = "wipe"
    /\ \/ DeleteRows(F(w)) /\ Goto(w, "restate") /\ Fine
       \/ PassedOver /\ Goto(w, "fetch") /\ UNCHANGED <<cached, lastId>>
    /\ UNCHANGED <<sync, bookVars>> /\ ServerSame

\* reset_folder_sync: rows, history and sync row are three statements, and the
\* first that fails is the last.
Wipe(w) ==
    /\ scan[w].at = "wipe"
    /\ \/ /\ DeleteRows(F(w))
          /\ Goto(w, IF RowsIn(F(w)) = {} THEN "restate" ELSE "disown")
          /\ lapsed' = (lapsed \/ StoredEpoch(F(w)) = epoch[F(w)] \/ \E v \in Scanner \ {w} : Busy(v))
          /\ UNCHANGED faults
       \/ PassedOver /\ Goto(w, "fetch") /\ UNCHANGED <<cached, lastId>>
    /\ UNCHANGED <<sync, bookVars>> /\ ServerSame

Disown(w) ==
    /\ scan[w].at = "disown"
    /\ \/ Invalidate /\ Goto(w, "restate") /\ Fine
       \/ PassedOver /\ Goto(w, "fetch") /\ NotInvalidated
    /\ UNCHANGED cacheVars /\ ServerSame

Restate(w) ==
    /\ scan[w].at = "restate"
    /\ Goto(w, "fetch")
    /\ \/ RestartSync(F(w), scan[w].epoch) /\ Fine
       \/ PassedOver /\ UNCHANGED sync
    /\ UNCHANGED <<cached, lastId, bookVars>> /\ ServerSame

\* What `start:*` names: the UIDs from start on, or the last UID when there is
\* none; and, with no sync row, the newest MaxMessages.
From(f, u) == {v \in DOMAIN box[f] : v >= u}
Newest(f) == {v \in DOMAIN box[f] : Cardinality(From(f, v)) <= MaxMessages}
InRange(f) ==
    IF sync[f] = Nobody THEN Newest(f)
    ELSE From(f, sync[f].uid + 1) \cup {u \in DOMAIN box[f] : u = Max(DOMAIN box[f])}
Listing(f) == {[uid |-> u, msg |-> box[f][u]] : u \in InRange(f)}

\* The range is read and fetched; a session on a renumbered folder is over, and
\* so is the scan.
Fetch(w) ==
    /\ scan[w].at = "fetch"
    /\ IF epoch[F(w)] = scan[w].epoch
       THEN /\ Now(w, [scan[w] EXCEPT !.at = "next", !.queue = Listing(F(w))])
            /\ lapsed' = (lapsed \/ (sync[F(w)] = Nobody /\ InRange(F(w)) # DOMAIN box[F(w)]))
       ELSE Now(w, Idle) /\ UNCHANGED lapsed
    /\ UNCHANGED <<faults, cacheVars, bookVars>> /\ ServerSame

-----------------------------------------------------------------------------
(* One message.                                                            *)

First(w) == CHOOSE x \in scan[w].queue : \A y \in scan[w].queue : x.uid <= y.uid
Rest(w) == scan[w].queue \ {First(w)}

\* upsert_thread_message looks for the row of the message in this folder, and
\* whether its addresses differ.
LookUp(w) ==
    /\ scan[w].at = "next" /\ scan[w].queue # {}
    /\ LET x == First(w)
           found == RowsFor(F(w), x.msg)
           seen == Max({scan[w].seen, x.uid})
           Found(i, stale) ==
               Now(w, [scan[w] EXCEPT !.at = "write", !.row = i, !.stale = stale, !.seen = seen])
       IN  \/ found = {} /\ Found(0, FALSE) /\ Fine
           \/ (\E r \in found : Found(r.id, r.who # Who(x.msg))) /\ Fine
           \/ Now(w, [scan[w] EXCEPT !.queue = Rest(w), !.seen = seen]) /\ PassedOver
    /\ UNCHANGED <<cacheVars, bookVars>> /\ ServerSame

Written(w, at) == Now(w, [scan[w] EXCEPT !.at = at, !.queue = Rest(w)])

Write(w) ==
    LET x == First(w)
    IN  /\ scan[w].at = "write"
        /\ \/ /\ scan[w].row = 0 /\ InsertRow(F(w), x.uid, x.msg, Who(x.msg))
              /\ Written(w, "next") /\ Fine
           \/ /\ scan[w].row # 0 /\ RewriteRow(scan[w].row, x.uid, Who(x.msg))
              /\ Written(w, IF scan[w].stale THEN "invalidate" ELSE "next") /\ Fine
           \/ PassedOver /\ Written(w, "next") /\ UNCHANGED <<cached, lastId>>
        /\ UNCHANGED <<sync, bookVars>> /\ ServerSame

InvalidateHistory(w) ==
    /\ scan[w].at = "invalidate"
    /\ Goto(w, "next")
    /\ \/ Invalidate /\ UNCHANGED faults
       \/ Fault /\ NotInvalidated
    /\ UNCHANGED <<lapsed, cacheVars>> /\ ServerSame

\* The stream breaks: what came so far counts.
ConnectionLost(w) ==
    /\ scan[w].at = "next" /\ scan[w].queue # {} /\ Fault
    /\ Now(w, [scan[w] EXCEPT !.queue = {}])
    /\ UNCHANGED <<lapsed, cacheVars, bookVars>> /\ ServerSame

\* Mutant: the cache is said to have come as far as the folder goes.
AdvanceToTop(w) ==
    /\ scan[w].at = "next" /\ scan[w].queue = {} /\ scan[w].seen > 0
    /\ SetLastSyncedUid(F(w), Max(DOMAIN box[F(w)] \cup {scan[w].seen})) /\ Goto(w, "confirm")
    /\ UNCHANGED <<cached, lastId, faults, lapsed, bookVars>> /\ ServerSame

\* The UID reached is the highest seen, then the UIDVALIDITY is confirmed.
Advance(w) ==
    /\ scan[w].at = "next" /\ scan[w].queue = {}
    /\ IF scan[w].seen = 0 THEN NextFolder(w) /\ UNCHANGED <<sync, faults>>
       ELSE /\ Goto(w, "confirm")
            /\ \/ SetLastSyncedUid(F(w), scan[w].seen) /\ UNCHANGED faults
               \/ Fault /\ UNCHANGED sync
    /\ UNCHANGED <<cached, lastId, lapsed, bookVars>> /\ ServerSame

Confirm(w) ==
    /\ scan[w].at = "confirm"
    /\ NextFolder(w)
    /\ \/ SetUidvalidity(F(w), scan[w].epoch) /\ UNCHANGED faults
       \/ Fault /\ UNCHANGED sync
    /\ UNCHANGED <<cached, lastId, lapsed, bookVars>> /\ ServerSame

\* reconcile_address_history: chunks until the cache is caught up.
Fold(w) ==
    /\ scan[w].at = "fold"
    /\ \/ ReconcileChunk /\ UNCHANGED faults /\ IF Pending THEN UNCHANGED scan ELSE Now(w, Idle)
       \/ Fault /\ Now(w, Idle) /\ UNCHANGED bookVars
    /\ UNCHANGED <<lapsed, cacheVars>> /\ ServerSame

ScanStep(w) ==
    \/ Clear(w) \/ Select(w) \/ Check(w) \/ Adopt(w) \/ Wipe(w) \/ Disown(w) \/ Restate(w)
    \/ Fetch(w) \/ LookUp(w) \/ Write(w) \/ InvalidateHistory(w) \/ ConnectionLost(w)
    \/ Advance(w) \/ Confirm(w) \/ Fold(w)

\* The process ends between two statements.
ScanCrashes(w) ==
    /\ Busy(w) /\ Fault
    /\ Now(w, Idle)
    /\ IF scan[w].at \in {"disown", "invalidate"} THEN NotInvalidated ELSE UNCHANGED bookVars
    /\ UNCHANGED <<lapsed, cacheVars>> /\ ServerSame
=============================================================================
