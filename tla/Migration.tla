----------------------------- MODULE Migration ------------------------------
(***************************************************************************)
(* `envelope migrate run` (crates/cli/src/commands/migrate.rs) and the     *)
(* table that remembers what it copied (crates/store/src/migration.rs).    *)
(***************************************************************************)
EXTENDS Transfer

VARIABLE uidMap   \* migration_uid_map: the key of the source and the message

\* Mutant: a UID is taken for the same message under any UIDVALIDITY.
IsMigratedByUid(key) == \E row \in uidMap : row.key.folder = key.folder /\ row.key.uid = key.uid

\* is_migrated: source UID under this UIDVALIDITY.
IsMigrated(key) == \E row \in uidMap : row.key = key
RecordMigration(key, m) == uidMap' = {row \in uidMap : row.key # key} \cup {[key |-> key, msg |-> m]}

\* Folders are those folder_selected picked; the map must be writable.
StartMigration(w, folders) ==
    /\ ~Busy(w)
    /\ run' = [run EXCEPT ![w] = [Idle EXCEPT !.at = "folder", !.task = "migrate",
                                              !.folders = folders]]

Migrating(w, at) == run[w].task = "migrate" /\ run[w].at = at

\* A message the map has is left alone; one whose Message-ID the destination
\* folder has is recorded as copied.  A search or a record that fails ends the run.
ConsiderMessage(w, item) ==
    /\ Migrating(w, "message") /\ item \in run[w].batch
    /\ \/ /\ IsMigrated(item.key)
          /\ run' = Taken(w, item, "message") /\ UNCHANGED <<uidMap, faults>>
       \/ /\ ~IsMigrated(item.key) /\ FindByMessageId(item.key.folder, item.msg)
          /\ RecordMigration(item.key, item.msg)
          /\ run' = Taken(w, item, "message") /\ UNCHANGED faults
       \/ /\ ~IsMigrated(item.key) /\ MessageId[item.msg] # Nobody
          /\ Fault /\ Abort(w) /\ UNCHANGED uidMap
       \/ /\ ~IsMigrated(item.key) /\ ~FindByMessageId(item.key.folder, item.msg)
          /\ run' = Taken(w, item, "append") /\ UNCHANGED <<uidMap, faults>>
    /\ UNCHANGED dest

CopyMessage(w) ==
    /\ Migrating(w, "append")
    /\ AppendMessage(w, run[w].item.key.folder, run[w].item.msg, "record")
    /\ UNCHANGED uidMap

\* record_migration_after_append: when the record cannot be written the run
\* ends, before it appends what the next run would append again.
RecordCopy(w) ==
    /\ Migrating(w, "record")
    /\ \/ /\ RecordMigration(run[w].item.key, run[w].item.msg)
          /\ run' = Dropped(w, 0)
          /\ UNCHANGED faults
       \/ Fault /\ Abort(w) /\ UNCHANGED uidMap
    /\ UNCHANGED dest

\* fail_if_any_message_failed.
MigrationDone(w) ==
    /\ Migrating(w, "folder") /\ run[w].folders = {}
    /\ Goto(w, IF run[w].failed > 0 THEN "failed" ELSE "ok")
=============================================================================
