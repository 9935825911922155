------------------------------- MODULE Backup -------------------------------
(***************************************************************************)
(* `envelope backup export`, `restore`, `verify` and `audit-state`         *)
(* (crates/cli/src/commands/backup.rs, crates/email/src/backup.rs).        *)
(*                                                                         *)
(* One archive directory: the message files, the manifest, and the sidecar *)
(* a restore into the destination keeps beside them.                       *)
(***************************************************************************)
EXTENDS Transfer

CONSTANT FolderMapping   \* [Folder -> Folder]: --map

ASSUME FolderMappingAssumption == FolderMapping \in [Folder -> Folder]

VARIABLES
    created,    \* whether the archive directory is there
    files,      \* [key -> Message or Damaged]: the message files
    manifest,   \* the records of the manifest, or Nobody
    lines,      \* complete lines of the sidecar, as [key, status]
    tail,       \* what follows the last newline: a line, Damaged, or Nobody
    torn,       \* whether a newline was ever missing; not in the code
    exported    \* what the export found in the source; not in the code

archiveVars == <<created, files, manifest, exported>>
sidecarVars == <<lines, tail, torn>>

NoFiles == [k \in {} |-> Nobody]

Doing(w, task, at) == run[w].task = task /\ run[w].at = at

-----------------------------------------------------------------------------
(* Export.                                                                 *)

\* validate_export_output_dir: the directory must not be there, or be empty.
StartExport(w, folders) ==
    /\ ~Busy(w) /\ ~created
    /\ run' = [run EXCEPT ![w] = [Idle EXCEPT !.at = "folder", !.task = "export",
                                              !.folders = folders]]
    /\ created' = TRUE
    /\ UNCHANGED <<files, manifest, exported>>

\* A file that cannot be written is counted and gets no record.
WriteMessageFile(w, item) ==
    /\ Doing(w, "export", "message") /\ item \in run[w].batch
    /\ \/ /\ files' = [k \in DOMAIN files \cup {item.key} |->
                          IF k = item.key THEN item.msg ELSE files[k]]
          /\ run' = [Taken(w, item, "message") EXCEPT ![w].records = @ \cup {item}]
          /\ UNCHANGED faults
       \/ /\ Fault /\ UNCHANGED files
          /\ run' = [Taken(w, item, "message") EXCEPT ![w].failed = @ + 1]
    /\ UNCHANGED <<created, manifest, exported>>

\* Mutant: the failures are not looked at.
WriteManifestAnyway(w) ==
    /\ Doing(w, "export", "folder") /\ run[w].folders = {}
    /\ manifest' = run[w].records /\ exported' = run[w].listed
    /\ Abort(w)
    /\ UNCHANGED <<created, files, faults>>

\* No manifest when a file is missing; write_atomic makes it appear whole or
\* not at all.
WriteManifest(w) ==
    /\ Doing(w, "export", "folder") /\ run[w].folders = {}
    /\ \/ run[w].failed > 0 /\ UNCHANGED <<manifest, exported, faults>>
       \/ /\ run[w].failed = 0
          /\ manifest' = run[w].records /\ exported' = run[w].listed
          /\ UNCHANGED faults
       \/ run[w].failed = 0 /\ Fault /\ UNCHANGED <<manifest, exported>>
    /\ Abort(w)
    /\ UNCHANGED <<created, files>>

\* The operator removes a directory that holds no archive.
RemoveDirectory ==
    /\ created /\ manifest = Nobody /\ \A w \in Worker : run[w].task # "export"
    /\ created' = FALSE /\ files' = NoFiles
    /\ UNCHANGED <<manifest, exported>>

\* A file of the archive is damaged after the export.
DamageFile(k) ==
    /\ Fault
    /\ k \in DOMAIN files /\ manifest # Nobody
    /\ files' = [files EXCEPT ![k] = Damaged]
    /\ UNCHANGED <<created, manifest, exported>>

-----------------------------------------------------------------------------
(* Verify, the sidecar, and the audit of it.                               *)

\* The file of a record is there and has its checksum.
Intact(record) == record.key \in DOMAIN files /\ files[record.key] = record.msg

\* verify_archive, without --strict.
VerifyArchive == manifest # Nobody /\ \A record \in manifest : Intact(record)

\* load_restore_state: a pending line counts as done, and is warned of when no
\* done line follows; a last line without newline reads like any other.
Line(key, status) == [key |-> key, status |-> status]
Loaded == lines \cup ({tail} \ {Nobody, Damaged})
RestoreState == {line.key : line \in Loaded}
PendingWithoutDone == {line.key : line \in {l \in Loaded : Line(l.key, "done") \notin Loaded}}

\* append_restore_state_line.  The line and its newline are two writes; the
\* line after one without newline is read together with it, and neither parses.
AppendLine(line) ==
    /\ lines' = IF tail = Nobody THEN lines \cup {line} ELSE lines
    /\ tail' = Nobody
    /\ UNCHANGED torn

\* The write fails, or the process ends in it: nothing, or the line without its
\* newline, is in the file.
WriteFails(line) ==
    /\ Fault
    /\ \/ UNCHANGED sidecarVars
       \/ /\ tail' = IF tail = Nobody THEN line ELSE Damaged
          /\ torn' = TRUE
          /\ UNCHANGED lines

\* plan_restore_state_audit on the sidecar of the account, named as the
\* command was given it: the sidecar's name has the account's id.
AuditedRows(named) == IF named = "id" THEN PendingWithoutDone ELSE {}

-----------------------------------------------------------------------------
(* Restore.                                                                *)

\* The manifest is read, the archive verified, the state loaded and the plan
\* made before the destination is touched.
PlanRestore(folders) ==
    {record \in manifest : record.key.folder \in folders /\ record.key \notin RestoreState}

StartRestore(w, folders) ==
    /\ ~Busy(w)
    /\ VerifyArchive
    /\ run' = [run EXCEPT ![w] = [Idle EXCEPT
           !.at = "message", !.task = "restore", !.folders = folders,
           !.batch = PlanRestore(folders)]]

Destination(record) == FolderMapping[record.key.folder]

\* The bytes of a file are what will be appended; a message the destination has
\* by its Message-ID is only noted.
ReadFile(w, record) ==
    [Taken(w, record, IF FindByMessageId(Destination(record), record.msg) THEN "note" ELSE "pending")
        EXCEPT ![w].item.msg = files[record.key]]

\* Mutant: the checksum of the bytes read is not compared.
ConsiderUnchecked(w, record) ==
    /\ Doing(w, "restore", "message") /\ record \in run[w].batch
    /\ run' = ReadFile(w, record)
    /\ UNCHANGED <<dest, sidecarVars, faults>>

\* The file is read and its checksum compared.
ConsiderRecord(w, record) ==
    /\ Doing(w, "restore", "message") /\ record \in run[w].batch
    /\ \/ /\ ~Intact(record)
          /\ run' = [Taken(w, record, "message") EXCEPT ![w].failed = @ + 1]
          /\ UNCHANGED faults
       \/ Intact(record) /\ run' = ReadFile(w, record) /\ UNCHANGED faults
       \/ Intact(record) /\ MessageId[record.msg] # Nobody /\ Fault /\ Abort(w)
    /\ UNCHANGED <<dest, sidecarVars>>

\* persist_state and persist_state_pending: a line that cannot be written ends
\* the run.
PersistState(w, at, status, next) ==
    /\ Doing(w, "restore", at)
    /\ LET line == Line(run[w].item.key, status)
       IN  \/ AppendLine(line) /\ run' = next /\ UNCHANGED faults
           \/ WriteFails(line) /\ Abort(w)
    /\ UNCHANGED dest

NotePresent(w) == PersistState(w, "note", "done", Dropped(w, 0))
\* Mutant: nothing is written before the APPEND.
PersistNothing(w) ==
    /\ Doing(w, "restore", "pending")
    /\ Goto(w, "append")
    /\ UNCHANGED <<dest, sidecarVars, faults>>
PersistPending(w) == PersistState(w, "pending", "pending", [run EXCEPT ![w].at = "append"])
PersistDone(w) == PersistState(w, "done", "done", Dropped(w, 0))

\* Mutant: an APPEND that failed is noted as done.
RestoreDoneAnyway(w) ==
    /\ Doing(w, "restore", "append")
    /\ \/ AppendTo(Destination(run[w].item), run[w].item.msg) /\ UNCHANGED faults
       \/ Fault /\ UNCHANGED dest
    /\ Goto(w, "done")
    /\ UNCHANGED sidecarVars

\* The bytes read are the bytes appended.
RestoreMessage(w) ==
    /\ Doing(w, "restore", "append")
    /\ AppendMessage(w, Destination(run[w].item), run[w].item.msg, "done")
    /\ UNCHANGED sidecarVars

RestoreDone(w) ==
    /\ Doing(w, "restore", "message") /\ run[w].batch = {}
    /\ Goto(w, IF run[w].failed > 0 THEN "failed" ELSE "ok")
=============================================================================
