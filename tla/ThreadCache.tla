---------------------------- MODULE ThreadCache ----------------------------
(***************************************************************************)
(* The deep thread cache of one account: thread_messages and               *)
(* thread_sync_state (crates/store/src/threads.rs).                        *)
(*                                                                         *)
(* A row stands for one message seen in one folder.  `who` is the set of   *)
(* correspondents its address columns name, the account's own address left *)
(* out.  Threads, and how messages are grouped into them, are abstracted   *)
(* away.  Ids are AUTOINCREMENT: never used twice, whatever is deleted.    *)
(***************************************************************************)
EXTENDS Integers, FiniteSets

CONSTANTS
    Nobody,    \* no row, no value
    Message,   \* messages; each has a Message-ID of its own
    Address,   \* correspondents
    Folder,    \* INBOX and, where the account has one, the Sent folder
    MaxEpoch,  \* bound on the UIDVALIDITY values of a folder
    MaxRow     \* bound on the rows ever inserted

\* The largest member of a finite set of numbers.
Max(S) == CHOOSE x \in S : \A y \in S : x >= y

ASSUME CacheAssumption == MaxEpoch \in Nat \ {0} /\ MaxRow \in Nat
ASSUME NoSyncAssumption == Nobody \notin [uid : Nat, epoch : Nat]

VARIABLES
    cached,    \* thread_messages
    lastId,    \* the last id given out
    sync       \* thread_sync_state: [Folder -> Nobody or the row]

cacheVars == <<cached, lastId, sync>>

CachedRow == [id : 1 .. MaxRow, folder : Folder, uid : 1 .. MaxRow, msg : Message,
              who : SUBSET Address]
\* `epoch` is the column uidvalidity, 0 when it is NULL.
SyncRow == [uid : 0 .. MaxRow, epoch : 0 .. MaxEpoch]

RowsIn(f) == {r \in cached : r.folder = f}
RowsFor(f, m) == {r \in RowsIn(f) : r.msg = m}

InsertRow(f, u, m, w) ==
    /\ lastId < MaxRow
    /\ lastId' = lastId + 1
    /\ cached' = cached \cup {[id |-> lastId + 1, folder |-> f, uid |-> u, msg |-> m, who |-> w]}

\* An UPDATE by id: nothing, when another scan has deleted the row.
RewriteRow(i, u, w) ==
    /\ cached' = {IF r.id = i THEN [r EXCEPT !.uid = u, !.who = w] ELSE r : r \in cached}
    /\ UNCHANGED lastId

DeleteRows(f) == cached' = cached \ RowsIn(f) /\ UNCHANGED lastId

StoredEpoch(f) == IF sync[f] = Nobody THEN 0 ELSE sync[f].epoch
LastUid(f) == IF sync[f] = Nobody THEN 0 ELSE sync[f].uid

SetLastSyncedUid(f, u) == sync' = [sync EXCEPT ![f] = [uid |-> u, epoch |-> StoredEpoch(f)]]
SetUidvalidity(f, e) == sync' = [sync EXCEPT ![f] = [uid |-> LastUid(f), epoch |-> e]]
RestartSync(f, e) == sync' = [sync EXCEPT ![f] = [uid |-> 0, epoch |-> e]]
ClearLastSyncedUid == sync' = [f \in Folder |-> Nobody]

CacheInit == cached = {} /\ lastId = 0 /\ sync = [f \in Folder |-> Nobody]
=============================================================================
