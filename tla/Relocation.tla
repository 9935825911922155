----------------------------- MODULE Relocation -----------------------------
(***************************************************************************)
(* An account moved to another by migration, by backup and restore, or by  *)
(* both, with failures, reruns and overlapping runs, while its owner still *)
(* uses it.                                                                *)
(***************************************************************************)
EXTENDS Sequences, Migration, Backup

CONSTANTS
    Initially,   \* [Folder -> Seq(Message)]: the source at the start
    Settings     \* [crew, faults, edits]: who may run, what may fail, and the
                 \* changes the owner may make in the source

Command == {"migrate", "export", "restore"}

ASSUME InitiallyAssumption == Initially \in [Folder -> Seq(Message)]
ASSUME SettingsAssumption ==
    Settings \subseteq [crew : [Worker -> SUBSET Command], faults : Nat, edits : Nat]

VARIABLES
    setting,   \* the setting chosen
    edits      \* changes the owner may still make

vars == <<source, dest, run, faults, overlap, uidMap, created, files, manifest, exported,
          lines, tail, torn, setting, edits>>

Init ==
    /\ setting \in Settings /\ faults = setting.faults /\ edits = setting.edits
    /\ source = [f \in Folder |-> [epoch |-> 1, mail |-> Initially[f]]]
    /\ dest = [f \in Folder |-> [m \in Message \cup {Damaged} |-> 0]]
    /\ run = [w \in Worker |-> Idle] /\ overlap = FALSE
    /\ uidMap = {} /\ created = FALSE /\ files = NoFiles /\ manifest = Nobody /\ exported = {}
    /\ lines = {} /\ tail = Nobody /\ torn = FALSE

Start(w) ==
    /\ \/ /\ "migrate" \in setting.crew[w] /\ StartMigration(w, Folder)
          /\ UNCHANGED archiveVars
       \/ "export" \in setting.crew[w] /\ StartExport(w, Folder)
       \/ /\ "restore" \in setting.crew[w] /\ StartRestore(w, Folder)
          /\ UNCHANGED archiveVars
    /\ Overlaps(w)
    /\ UNCHANGED <<source, dest, faults, uidMap, sidecarVars, setting, edits>>

\* Going through the folders and batches.
Read(w) ==
    /\ \/ /\ \E f \in Folder : OpenFolder(w, f)
          /\ UNCHANGED faults
       \/ FetchBatch(w) /\ UNCHANGED faults
       \/ FetchFails(w)
       \/ FolderDone(w) /\ UNCHANGED faults
       \/ run[w].task # "restore" /\ BatchDone(w) /\ UNCHANGED faults
    /\ UNCHANGED <<source, dest, overlap, uidMap, archiveVars, sidecarVars, setting, edits>>

Migrate(w) ==
    /\ \/ \E item \in run[w].batch : ConsiderMessage(w, item)
       \/ CopyMessage(w)
       \/ RecordCopy(w)
       \/ MigrationDone(w) /\ UNCHANGED <<dest, faults, uidMap>>
    /\ UNCHANGED <<source, overlap, archiveVars, sidecarVars, setting, edits>>

Export(w) ==
    /\ (\E item \in run[w].batch : WriteMessageFile(w, item)) \/ WriteManifest(w)
    /\ UNCHANGED <<source, dest, overlap, uidMap, sidecarVars, setting, edits>>

Restore(w) ==
    /\ \/ \E record \in run[w].batch : ConsiderRecord(w, record)
       \/ NotePresent(w)
       \/ PersistPending(w)
       \/ RestoreMessage(w)
       \/ PersistDone(w)
       \/ RestoreDone(w) /\ UNCHANGED <<dest, faults, sidecarVars>>
    /\ UNCHANGED <<source, overlap, uidMap, archiveVars, setting, edits>>

\* The process of a run that has ended, or ends now.
Exit(w) ==
    /\ \/ run[w].at \in {"ok", "failed"} /\ Abort(w) /\ UNCHANGED faults
       \/ Crash(w)
    /\ UNCHANGED <<source, dest, overlap, uidMap, archiveVars, sidecarVars, setting, edits>>

Owner ==
    /\ edits > 0 /\ edits' = edits - 1
    /\ \E f \in Folder : Renumbered(f) \/ \E u \in Held(f) : Removed(f, u)
    /\ UNCHANGED <<dest, run, faults, overlap, uidMap, archiveVars, sidecarVars, setting>>

Disk ==
    /\ \/ RemoveDirectory /\ UNCHANGED faults
       \/ \E k \in DOMAIN files : DamageFile(k)
    /\ UNCHANGED <<source, dest, run, overlap, uidMap, sidecarVars, setting, edits>>

Proceed(w) == Read(w) \/ Migrate(w) \/ Export(w) \/ Restore(w)

Next == Owner \/ Disk \/ \E w \in Worker : Start(w) \/ Proceed(w) \/ Exit(w)

Spec == Init /\ [][Next]_vars

-----------------------------------------------------------------------------
(* Properties.                                                             *)

Ended(w, task) == run[w].task = task /\ run[w].at = "ok"

\* A migration that reports success has left nothing behind: every message its
\* listing found and the owner did not remove is in the destination folder,
\* whoever else copies, whatever failed in this run or in earlier ones, and
\* although an earlier UIDVALIDITY gave the same UIDs to other messages
\* (crates/cli/src/commands/migrate.rs, run).
MigrationCovers ==
    \A w \in Worker : Ended(w, "migrate") =>
        \A f \in Folder, m \in Message : <<f, m>> \in run[w].listed =>
            InDest(f, m) \/ \A u \in Held(f) : source[f].mail[u] # m

\* The map never claims a copy that is not there: a rerun skips only what was
\* copied (crates/store/src/migration.rs, record_migration).
MapIsTrue == \A row \in uidMap : InDest(row.key.folder, row.msg)

\* Runs one after the other, migrations and restores mixed, never give a
\* destination folder a second copy of a message with a Message-ID.
NoSecondCopy ==
    ~overlap => \A f \in Folder, m, n \in Message :
        MessageId[m] # Nobody /\ MessageId[m] = MessageId[n] =>
            dest[f][m] <= 1 /\ (m # n => dest[f][m] = 0 \/ dest[f][n] = 0)

Only(command) == \A w \in Worker : setting.crew[w] \subseteq {command, "export"}

\* The records of a message for a folder of the destination.
RecordsOf(f, m) ==
    IF manifest = Nobody THEN {}
    ELSE {record \in manifest : Destination(record) = f /\ record.msg = m}

\* Reruns of a restore never give a folder more copies of a message, with or
\* without Message-ID, than the archive has records of it for that folder,
\* whatever fails and wherever it crashes, as long as every line of the sidecar
\* got its newline (crates/cli/src/commands/backup.rs, run_restore).
RestoreIsIdempotent ==
    ~overlap /\ ~torn /\ Only("restore") =>
        \A f \in Folder, m \in Message : dest[f][m] <= Cardinality(RecordsOf(f, m))

\* The pending line prevents a duplicate "for messages without Message-ID"
\* (crates/cli/src/commands/backup.rs:964).
RestoreNeverDuplicates ==
    ~overlap /\ Only("restore") =>
        \A f \in Folder, m \in Message : dest[f][m] <= Cardinality(RecordsOf(f, m))

\* A manifest is only written when it is complete: it has a record for every
\* message the export listed and the owner did not remove
\* (crates/cli/src/commands/backup.rs, run_export).
ManifestIsComplete ==
    manifest # Nobody => \A f \in Folder, m \in Message : <<f, m>> \in exported =>
        \/ \E record \in manifest : record.key.folder = f /\ record.msg = m
        \/ \A u \in Held(f) : source[f].mail[u] # m

\* Only what the source held reaches the destination, although files are
\* damaged after the archive was verified.
RestoresGenuine == \A f \in Folder : dest[f][Damaged] = 0

LeftOut(named) ==
    {record \in manifest : /\ ~InDest(Destination(record), record.msg)
                           /\ record.key \notin AuditedRows(named)}

\* A restore that reports success leaves out no message but those audit-state
\* names: a message whose APPEND failed is not tried again, and its pending
\* line is all that tells.  A line without its newline can take it away.
RestoreAccounts == \A w \in Worker : Ended(w, "restore") /\ ~torn => LeftOut("id") = {}

\* The same, asked for by the account's e-mail address: "Destination account ID
\* or email whose sidecar should be audited" (crates/cli/src/main.rs:1550).
AuditKnowsTheAccount == \A w \in Worker : Ended(w, "restore") /\ ~torn => LeftOut("email") = {}
=============================================================================
