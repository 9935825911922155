-------------------------- MODULE RelocationProofs --------------------------
(***************************************************************************)
(* What a move of an account promises of the destination, for any number   *)
(* of messages, folders, runs, failures and changes by the owner: the map  *)
(* only names copies that are there, only what the source held arrives,    *)
(* runs one after the other make no second copy, a migration that succeeds *)
(* leaves nothing behind, a manifest covers what its export listed, and a  *)
(* restore that succeeds leaves out nothing its audit does not name and,   *)
(* alone, copies no record twice.                                          *)
(*                                                                         *)
(* Each invariant is inductive once it says what a run knows at the step   *)
(* it is at: one about to record has its message in the destination, one   *)
(* about to append has looked for it or has noted it, and a message listed *)
(* is there, gone from the source, in memory or among the UIDs left.  The  *)
(* last needs that a key ever seen keeps its meaning under its             *)
(* UIDVALIDITY, and that a folder renumbered since ends the run.           *)
(***************************************************************************)
EXTENDS Relocation, FiniteSetTheorems, TLAPS

Item == [key : Key, msg : Message]
Step == {"idle", "folder", "batch", "message", "append", "record", "note", "pending",
         "done", "ok", "failed"}
Run == [at : Step, task : Command \cup {"none"}, folders : SUBSET Folder,
        folder : Folder \cup {Nobody}, epoch : Nat, uids : SUBSET Nat,
        batch : SUBSET Item, item : Item \cup {Nobody}, failed : Nat,
        records : SUBSET Item, listed : SUBSET (Folder \X Message)]

\* What a run has at hand follows from its step.
AtHand(r) ==
    /\ r.at = "batch" => r.folder \in Folder
    /\ r.at \in {"folder", "batch"} => r.task # "restore"
    /\ r.at # "idle" => r.task # "none"
    /\ r.task \in {"migrate", "export"} /\ r.at \in {"message", "append", "record"} =>
           r.folder \in Folder
    /\ r.at \in {"append", "record", "note", "pending", "done"} => r.item \in Item

Mail == UNION {[S -> Message] : S \in SUBSET Nat}

SourceOK ==
    /\ source \in [Folder -> [epoch : 1 .. MaxEpoch, mail : Mail]]
    /\ \A f \in Folder : IsFiniteSet(Held(f))
DestOK == dest \in [Folder -> [Message \cup {Damaged} -> Nat]]
RunOK == run \in [Worker -> Run] /\ \A w \in Worker : AtHand(run[w])
MapOK == uidMap \subseteq Item
ManifestOK == manifest # Nobody => manifest \subseteq Item

TypeOK == SourceOK /\ DestOK /\ RunOK /\ MapOK /\ ManifestOK

-----------------------------------------------------------------------------
(* The source.                                                             *)

LEMMA FunctionIsMail ==
    ASSUME NEW S \in SUBSET Nat, NEW g \in [S -> Message]
    PROVE  g \in Mail
BY DEF Mail

LEMMA MailMembers ==
    ASSUME SourceOK, NEW f \in Folder
    PROVE  /\ source[f].epoch \in 1 .. MaxEpoch
           /\ Held(f) \in SUBSET Nat
           /\ \A u \in Held(f) : source[f].mail[u] \in Message
<1>1. source[f].epoch \in 1 .. MaxEpoch /\ source[f].mail \in Mail
  BY DEF SourceOK
<1>2. PICK S \in SUBSET Nat : source[f].mail \in [S -> Message]
  BY <1>1 DEF Mail
<1> QED BY <1>1, <1>2 DEF Held

LEMMA RemovedOK ==
    ASSUME SourceOK, NEW f \in Folder, NEW u, Removed(f, u)
    PROVE  SourceOK'
<1> DEFINE kept == Restrict(source[f].mail, Held(f) \ {u})
<1>1. kept \in Mail
  <2>1. Held(f) \ {u} \in SUBSET Nat
    BY MailMembers
  <2>2. kept \in [Held(f) \ {u} -> Message]
    BY MailMembers DEF Restrict
  <2> QED BY <2>1, <2>2, FunctionIsMail
<1> HIDE DEF kept
<1>2. source' = [source EXCEPT ![f].mail = kept]
  BY DEF Removed, kept
<1>3. source' \in [Folder -> [epoch : 1 .. MaxEpoch, mail : Mail]]
  BY <1>1, <1>2 DEF SourceOK
<1>4. ASSUME NEW g \in Folder PROVE IsFiniteSet(Held(g))'
  <2>1. Held(g)' \in SUBSET Held(g)
    <3>1. CASE g = f
      <4>1. source'[f].mail = kept
        BY <1>2 DEF SourceOK
      <4>2. DOMAIN kept = Held(f) \ {u}
        BY DEF Restrict, kept
      <4> QED BY <3>1, <4>1, <4>2 DEF Held
    <3>2. CASE g # f
      BY <3>2, <1>2 DEF SourceOK, Held
    <3> QED BY <3>1, <3>2
  <2> QED BY <2>1, FS_Subset DEF SourceOK
<1> QED BY <1>3, <1>4 DEF SourceOK

LEMMA RenumberedOK ==
    ASSUME SourceOK, NEW f \in Folder, Renumbered(f)
    PROVE  SourceOK'
<1>1. PICK old \in Bijection(1 .. Cardinality(Held(f)), Held(f)) :
          source' = [source EXCEPT ![f] =
              [epoch |-> @.epoch + 1, mail |-> [u \in DOMAIN old |-> source[f].mail[old[u]]]]]
  BY DEF Renumbered
<1> DEFINE anew == [u \in DOMAIN old |-> source[f].mail[old[u]]]
<1>2. Cardinality(Held(f)) \in Nat
  BY FS_CardinalityType DEF SourceOK
<1>3. DOMAIN old = 1 .. Cardinality(Held(f)) /\ \A u \in DOMAIN old : old[u] \in Held(f)
  BY DEF Bijection, Injection
<1>4. DOMAIN anew \in SUBSET Nat /\ IsFiniteSet(DOMAIN anew)
  BY <1>2, <1>3, FS_Interval
<1>5. anew \in Mail
  <2>1. anew \in [DOMAIN anew -> Message]
    BY <1>3, MailMembers
  <2> QED BY <2>1, <1>4, FunctionIsMail
<1>6. source[f].epoch + 1 \in 1 .. MaxEpoch
  BY MailMembers, MaxEpochAssumption DEF Renumbered
<1>7. source' = [source EXCEPT ![f] = [epoch |-> source[f].epoch + 1, mail |-> anew]]
  BY <1>1
<1> HIDE DEF anew
<1>8. source' \in [Folder -> [epoch : 1 .. MaxEpoch, mail : Mail]]
  BY <1>5, <1>6, <1>7 DEF SourceOK
<1>9. ASSUME NEW g \in Folder PROVE IsFiniteSet(Held(g))'
  BY <1>4, <1>7 DEF SourceOK, Held
<1> QED BY <1>8, <1>9 DEF SourceOK

-----------------------------------------------------------------------------
(* The runs.                                                               *)

LEMMA RunUpdated ==
    ASSUME RunOK, NEW w \in Worker, NEW r \in Run, AtHand(r),
           run' = [run EXCEPT ![w] = r]
    PROVE  RunOK'
<1>1. run' \in [Worker -> Run]
  BY DEF RunOK
<1>2. ASSUME NEW v \in Worker PROVE AtHand(run'[v])
  BY DEF RunOK
<1> QED BY <1>1, <1>2 DEF RunOK, AtHand

LEMMA IdleOK == Idle \in Run /\ AtHand(Idle)
BY DEF Idle, Run, Step, AtHand, Command

LEMMA AbortOK ==
    ASSUME RunOK, NEW w \in Worker, Abort(w)
    PROVE  RunOK'
BY IdleOK, RunUpdated DEF Abort

\* A step that only moves a run on.
LEMMA GotoOK ==
    ASSUME RunOK, NEW w \in Worker, NEW at \in Step, Goto(w, at),
           AtHand([run[w] EXCEPT !.at = at])
    PROVE  RunOK'
<1>1. run[w] \in Run
  BY DEF RunOK
<1>2. [run[w] EXCEPT !.at = at] \in Run
  BY <1>1 DEF Run
<1>3. run' = [run EXCEPT ![w] = [run[w] EXCEPT !.at = at]]
  BY DEF Goto
<1> QED BY <1>2, <1>3, RunUpdated

LEMMA DroppedOK ==
    ASSUME RunOK, NEW w \in Worker, NEW failed \in {0, 1}, run' = Dropped(w, failed),
           run[w].at \in {"append", "record", "note", "pending", "done"},
           run[w].task # "restore" => run[w].at \in {"append", "record"}
    PROVE  RunOK'
<1> DEFINE r == [run[w] EXCEPT !.at = "message", !.item = Nobody, !.failed = @ + failed]
<1>1. run[w] \in Run /\ AtHand(run[w])
  BY DEF RunOK
<1>2. r \in Run
  <2>1. run[w].failed + failed \in Nat
    BY <1>1 DEF Run
  <2>2. "message" \in Step
    BY DEF Step
  <2> QED BY <1>1, <2>1, <2>2 DEF Run
<1>3. AtHand(r)
  BY <1>1 DEF Run, AtHand
<1>4. run' = [run EXCEPT ![w] = r]
  BY DEF Dropped
<1> QED BY <1>2, <1>3, <1>4, RunUpdated

TakenRun(w, item, at) ==
    [run[w] EXCEPT !.at = at, !.batch = @ \ {item},
                   !.item = IF at = "message" THEN Nobody ELSE item]

LEMMA TakenIs ==
    ASSUME RunOK, NEW w \in Worker, NEW item \in run[w].batch,
           NEW at \in {"message", "append", "note", "pending"}, run[w].at = "message"
    PROVE  /\ item \in Item
           /\ TakenRun(w, item, at) \in Run
           /\ AtHand(TakenRun(w, item, at))
           /\ Taken(w, item, at) = [run EXCEPT ![w] = TakenRun(w, item, at)]
<1>1. run[w] \in Run /\ AtHand(run[w])
  BY DEF RunOK
<1>2. item \in Item
  BY <1>1 DEF Run
<1>3. TakenRun(w, item, at) \in Run
  BY <1>1, <1>2 DEF Run, Step, TakenRun
<1>4. AtHand(TakenRun(w, item, at))
  BY <1>1, <1>2 DEF Run, AtHand, TakenRun
<1>5. Taken(w, item, at) = [run EXCEPT ![w] = TakenRun(w, item, at)]
  BY DEF Taken, TakenRun
<1> QED BY <1>2, <1>3, <1>4, <1>5

LEMMA TakenOK ==
    ASSUME RunOK, NEW w \in Worker, NEW item \in run[w].batch,
           NEW at \in {"message", "append", "note", "pending"}, run[w].at = "message",
           run' = Taken(w, item, at)
    PROVE  RunOK'
BY TakenIs, RunUpdated

\* A message that could not be handled.
LEMMA TakenFailedOK ==
    ASSUME RunOK, NEW w \in Worker, NEW item \in run[w].batch, run[w].at = "message",
           run' = [Taken(w, item, "message") EXCEPT ![w].failed = @ + 1]
    PROVE  RunOK'
<1> DEFINE t == TakenRun(w, item, "message")
           r == [t EXCEPT !.failed = @ + 1]
<1>1. /\ t \in Run /\ AtHand(t)
      /\ Taken(w, item, "message") = [run EXCEPT ![w] = t]
  BY TakenIs
<1> HIDE DEF t
<1>2. r \in Run
  <2>1. t.failed + 1 \in Nat
    BY <1>1 DEF Run
  <2> QED BY <1>1, <2>1 DEF Run
<1>3. AtHand(r)
  BY <1>1 DEF Run, AtHand
<1>4. run' = [run EXCEPT ![w] = r]
  BY <1>1 DEF RunOK
<1> QED BY <1>2, <1>3, <1>4, RunUpdated

LEMMA OpenFolderOK ==
    ASSUME SourceOK, RunOK, NEW w \in Worker, NEW f \in Folder, OpenFolder(w, f)
    PROVE  RunOK'
<1> DEFINE found == run[w].listed \cup {<<f, source[f].mail[u]>> : u \in Held(f)}
           r == [run[w] EXCEPT !.at = "batch", !.folder = f, !.folders = @ \ {f},
                               !.epoch = source[f].epoch, !.uids = Held(f), !.listed = found]
<1>1. run[w] \in Run /\ AtHand(run[w])
  BY DEF RunOK
<1>2. found \in SUBSET (Folder \X Message)
  BY <1>1, MailMembers DEF Run
<1>3. Held(f) \in SUBSET Nat /\ source[f].epoch \in Nat
  BY MailMembers, MaxEpochAssumption
<1>4. run' = [run EXCEPT ![w] = r]
  BY DEF OpenFolder
<1> HIDE DEF found
<1>5. r \in Run
  BY <1>1, <1>2, <1>3 DEF Run, Step
<1>6. AtHand(r)
  BY <1>1 DEF Run, AtHand, OpenFolder
<1> QED BY <1>4, <1>5, <1>6, RunUpdated

LEMMA FetchBatchOK ==
    ASSUME SourceOK, RunOK, NEW w \in Worker, FetchBatch(w)
    PROVE  RunOK'
<1> DEFINE old == run[w]
           named == {u \in old.uids : Cardinality({v \in old.uids : v <= u}) <= BatchSize}
           fetched == {[key |-> [folder |-> old.folder, epoch |-> old.epoch, uid |-> u],
                        msg |-> source[old.folder].mail[u]] : u \in named \cap Held(old.folder)}
           r == [old EXCEPT !.at = "message", !.uids = @ \ named, !.batch = fetched]
<1>1. old \in Run /\ AtHand(old)
  BY DEF RunOK
<1>2. old.folder \in Folder /\ source[old.folder].epoch = old.epoch /\ old.at = "batch"
  BY <1>1 DEF FetchBatch, AtHand
<1>3. fetched \subseteq Item
  <2> SUFFICES ASSUME NEW u \in old.uids, u \in Held(old.folder)
               PROVE  [key |-> [folder |-> old.folder, epoch |-> old.epoch, uid |-> u],
                       msg |-> source[old.folder].mail[u]] \in Item
    OBVIOUS
  <2>1. u \in Nat /\ old.epoch \in 1 .. MaxEpoch /\ source[old.folder].mail[u] \in Message
    BY <1>1, <1>2, MailMembers DEF Run
  <2> QED BY <1>2, <2>1 DEF Item, Key
<1>4. run' = [run EXCEPT ![w] = r]
  BY DEF FetchBatch
<1>5. old.uids \ named \in SUBSET Nat
  BY <1>1 DEF Run
<1> HIDE DEF fetched, named, old
<1>6. r \in Run
  BY <1>1, <1>3, <1>5 DEF Run, Step
<1>7. AtHand(r)
  BY <1>1, <1>2 DEF Run, AtHand
<1> QED BY <1>4, <1>6, <1>7, RunUpdated DEF old

LEMMA FolderDoneOK ==
    ASSUME RunOK, NEW w \in Worker, FolderDone(w)
    PROVE  RunOK'
<1>1. run[w] \in Run /\ AtHand(run[w])
  BY DEF RunOK
<1>2. run[w].task # "restore" /\ run[w].task # "none"
  BY <1>1 DEF FolderDone, AtHand
<1>3. AtHand([run[w] EXCEPT !.at = "folder"])
  BY <1>1, <1>2 DEF Run, AtHand
<1> QED BY <1>3, GotoOK DEF Step, FolderDone

LEMMA BatchDoneOK ==
    ASSUME RunOK, NEW w \in Worker, run[w].task # "restore", run[w].task # "none",
           BatchDone(w)
    PROVE  RunOK'
<1>1. run[w] \in Run /\ AtHand(run[w])
  BY DEF RunOK
<1>2. run[w].task \in {"migrate", "export"}
  BY <1>1 DEF Run, Command
<1>3. AtHand([run[w] EXCEPT !.at = "batch"])
  BY <1>1, <1>2 DEF BatchDone, Run, AtHand
<1> QED BY <1>3, GotoOK DEF Step, BatchDone

LEMMA ReadOK ==
    ASSUME SourceOK, RunOK, NEW w \in Worker, Read(w)
    PROVE  RunOK'
<1>1. CASE \E f \in Folder : OpenFolder(w, f)
  BY <1>1, OpenFolderOK
<1>2. CASE FetchBatch(w)
  BY <1>2, FetchBatchOK
<1>3. CASE FetchFails(w)
  BY <1>3, AbortOK DEF FetchFails
<1>4. CASE FolderDone(w)
  BY <1>4, FolderDoneOK
<1>5. CASE run[w].task # "restore" /\ BatchDone(w)
  <2>1. run[w].task # "none"
    BY <1>5 DEF BatchDone, RunOK, AtHand
  <2> QED BY <1>5, <2>1, BatchDoneOK
<1> QED BY <1>1, <1>2, <1>3, <1>4, <1>5 DEF Read

-----------------------------------------------------------------------------
(* The destination.                                                        *)

\* A migration appends to the folder the message comes from, a restore to the
\* one that is mapped to.
Target(r) == IF r.task = "restore" THEN Destination(r.item) ELSE r.item.key.folder

LEMMA ItemFields ==
    ASSUME NEW item \in Item
    PROVE  /\ item.key \in Key /\ item.key.folder \in Folder
           /\ Destination(item) \in Folder
           /\ item.msg \in Message
BY FolderMappingAssumption DEF Item, Key, Destination

LEMMA Appended ==
    ASSUME DestOK, NEW f \in Folder, NEW m \in Message, AppendTo(f, m)
    PROVE  /\ DestOK'
           /\ \A g \in Folder, n \in Message \cup {Damaged} :
                  dest'[g][n] = IF g = f /\ n = m THEN dest[g][n] + 1 ELSE dest[g][n]
<1>1. dest[f] \in [Message \cup {Damaged} -> Nat]
  BY DEF DestOK
<1>2. dest' = [dest EXCEPT ![f] = [dest[f] EXCEPT ![m] = dest[f][m] + 1]]
  BY DEF AppendTo
<1>3. [dest[f] EXCEPT ![m] = dest[f][m] + 1] \in [Message \cup {Damaged} -> Nat]
  BY <1>1
<1>4. DestOK'
  BY <1>2, <1>3 DEF DestOK
<1>5. \A g \in Folder, n \in Message \cup {Damaged} :
          dest'[g][n] = IF g = f /\ n = m THEN dest[g][n] + 1 ELSE dest[g][n]
  BY <1>1, <1>2 DEF DestOK
<1> QED BY <1>4, <1>5

\* A step of a run leaves the destination as it is, or appends the message it
\* has at hand where it belongs.
Appends(w) ==
    /\ run[w].at = "append" /\ run[w].item \in Item
    /\ run[w].task \in {"migrate", "restore"}
    /\ AppendTo(Target(run[w]), run[w].item.msg)

LEMMA AppendMessageOK ==
    ASSUME RunOK, NEW w \in Worker, run[w].at = "append",
           NEW f \in Folder, NEW m \in Message, NEW next \in {"record", "done"},
           next = "record" => run[w].task = "migrate",
           next = "done" => run[w].task = "restore",
           AppendMessage(w, f, m, next)
    PROVE  RunOK'
<1>1. run[w] \in Run /\ AtHand(run[w])
  BY DEF RunOK
<1>2. CASE Goto(w, next)
  <2>1. AtHand([run[w] EXCEPT !.at = next])
    BY <1>1 DEF Run, AtHand
  <2> QED BY <1>2, <2>1, GotoOK DEF Step
<1>3. CASE run' = Dropped(w, 1)
  BY <1>3, DroppedOK
<1> QED BY <1>2, <1>3 DEF AppendMessage

-----------------------------------------------------------------------------
(* The commands.                                                           *)

\* What a step does to the destination and to the two records of what was done.
DestStep(w) == UNCHANGED dest \/ Appends(w)

LEMMA AppendsOK ==
    ASSUME DestOK, NEW w \in Worker, DestStep(w)
    PROVE  /\ DestOK'
           /\ \A f \in Folder, m \in Message : dest[f][m] > 0 => dest'[f][m] > 0
           /\ \A f \in Folder : dest'[f][Damaged] = dest[f][Damaged]
<1>1. CASE UNCHANGED dest
  BY <1>1 DEF DestOK
<1>2. CASE Appends(w)
  <2>1. Target(run[w]) \in Folder /\ run[w].item.msg \in Message
    BY <1>2, ItemFields DEF Appends, Target
  <2>2. \A g \in Folder, n \in Message \cup {Damaged} : dest[g][n] \in Nat
    BY DEF DestOK
  <2>3. run[w].item.msg # Damaged
    BY <2>1, DamagedAssumption
  <2> QED BY <1>2, <2>1, <2>2, <2>3, Appended DEF Appends
<1> QED BY <1>1, <1>2 DEF DestStep

LEMMA ConsiderMessageOK ==
    ASSUME RunOK, MapOK, NEW w \in Worker, NEW item \in run[w].batch, ConsiderMessage(w, item)
    PROVE  RunOK' /\ MapOK' /\ UNCHANGED dest
<1>1. run[w].at = "message" /\ UNCHANGED dest
  BY DEF ConsiderMessage, Migrating
<1>2. item \in Item
  BY <1>1, TakenIs
<1>3. RunOK'
  <2>1. run' = Taken(w, item, "message") => RunOK'
    BY <1>1, TakenOK
  <2>2. run' = Taken(w, item, "append") => RunOK'
    BY <1>1, TakenOK
  <2>3. Abort(w) => RunOK'
    BY AbortOK
  <2> QED BY <2>1, <2>2, <2>3 DEF ConsiderMessage
<1>4. MapOK'
  <2>1. item = [key |-> item.key, msg |-> item.msg]
    BY <1>2 DEF Item
  <2> QED BY <1>2, <2>1 DEF ConsiderMessage, RecordMigration, MapOK
<1> QED BY <1>1, <1>3, <1>4

LEMMA CopyMessageOK ==
    ASSUME RunOK, MapOK, NEW w \in Worker, CopyMessage(w)
    PROVE  RunOK' /\ MapOK' /\ DestStep(w)
<1>1. /\ run[w].at = "append" /\ run[w].task = "migrate" /\ UNCHANGED uidMap
      /\ AppendMessage(w, run[w].item.key.folder, run[w].item.msg, "record")
  BY DEF CopyMessage, Migrating
<1>2. run[w].item \in Item
  BY <1>1 DEF RunOK, AtHand
<1>3. RunOK'
  BY <1>1, <1>2, ItemFields, AppendMessageOK
<1>4. DestStep(w)
  BY <1>1, <1>2 DEF DestStep, Appends, Target, AppendMessage
<1> QED BY <1>1, <1>3, <1>4 DEF MapOK

LEMMA RecordCopyOK ==
    ASSUME RunOK, MapOK, NEW w \in Worker, RecordCopy(w)
    PROVE  RunOK' /\ MapOK' /\ UNCHANGED dest
<1>1. run[w].at = "record" /\ run[w].task = "migrate" /\ UNCHANGED dest
  BY DEF RecordCopy, Migrating
<1>2. run[w].item \in Item
  BY <1>1 DEF RunOK, AtHand
<1>3. CASE RecordMigration(run[w].item.key, run[w].item.msg) /\ run' = Dropped(w, 0)
  <2>1. RunOK'
    BY <1>1, <1>3, DroppedOK
  <2>2. run[w].item = [key |-> run[w].item.key, msg |-> run[w].item.msg]
    BY <1>2 DEF Item
  <2>3. MapOK'
    BY <1>2, <1>3, <2>2 DEF RecordMigration, MapOK
  <2> QED BY <1>1, <2>1, <2>3
<1>4. CASE Abort(w) /\ UNCHANGED uidMap
  BY <1>1, <1>4, AbortOK DEF MapOK
<1> QED BY <1>3, <1>4 DEF RecordCopy

\* A run that reports its end.
LEMMA DoneOK ==
    ASSUME RunOK, NEW w \in Worker, NEW at \in {"ok", "failed"}, Goto(w, at),
           run[w].at # "idle"
    PROVE  RunOK'
<1>1. run[w] \in Run /\ AtHand(run[w])
  BY DEF RunOK
<1>2. AtHand([run[w] EXCEPT !.at = at])
  BY <1>1 DEF Run, AtHand
<1> QED BY <1>2, GotoOK DEF Step

LEMMA MigrateOK ==
    ASSUME RunOK, MapOK, NEW w \in Worker, Migrate(w)
    PROVE  RunOK' /\ MapOK' /\ DestStep(w)
<1>1. CASE \E item \in run[w].batch : ConsiderMessage(w, item)
  BY <1>1, ConsiderMessageOK DEF DestStep
<1>2. CASE CopyMessage(w)
  BY <1>2, CopyMessageOK
<1>3. CASE RecordCopy(w)
  BY <1>3, RecordCopyOK DEF DestStep
<1>4. CASE MigrationDone(w) /\ UNCHANGED <<dest, faults, uidMap>>
  BY <1>4, DoneOK DEF MigrationDone, Migrating, MapOK, DestStep
<1> QED BY <1>1, <1>2, <1>3, <1>4 DEF Migrate

\* A record with its message replaced by the bytes of its file.
LEMMA ReadFileIs ==
    ASSUME RunOK, NEW w \in Worker, NEW record \in run[w].batch, run[w].at = "message",
           Intact(record), run' = ReadFile(w, record)
    PROVE  run' = Taken(w, record,
                        IF FindByMessageId(Destination(record), record.msg)
                        THEN "note" ELSE "pending")
<1> DEFINE at == IF FindByMessageId(Destination(record), record.msg) THEN "note" ELSE "pending"
           t == TakenRun(w, record, at)
<1>1. /\ record \in Item /\ t \in Run
      /\ Taken(w, record, at) = [run EXCEPT ![w] = t]
  BY TakenIs
<1>2. t.item = record /\ record = [record EXCEPT !.msg = files[record.key]]
  BY <1>1 DEF Intact, Item, TakenRun, RunOK, Run
<1>3. run' = [[run EXCEPT ![w] = t] EXCEPT ![w].item.msg = files[record.key]]
  BY <1>1 DEF ReadFile
<1> HIDE DEF t, at
<1>4. run' = [run EXCEPT ![w] = [t EXCEPT !.item = [record EXCEPT !.msg = files[record.key]]]]
  BY <1>2, <1>3 DEF RunOK
<1>5. [t EXCEPT !.item = record] = t
  BY <1>1, <1>2 DEF Run
<1> QED BY <1>1, <1>2, <1>4, <1>5 DEF at

LEMMA ConsiderRecordOK ==
    ASSUME RunOK, NEW w \in Worker, NEW record \in run[w].batch, ConsiderRecord(w, record)
    PROVE  RunOK' /\ UNCHANGED dest
<1>1. run[w].at = "message" /\ UNCHANGED dest
  BY DEF ConsiderRecord, Doing
<1>2. run' = [Taken(w, record, "message") EXCEPT ![w].failed = @ + 1] => RunOK'
  BY <1>1, TakenFailedOK
<1>3. Intact(record) /\ run' = ReadFile(w, record) => RunOK'
  <2>1. run' = Taken(w, record, "note") => RunOK'
    BY <1>1, TakenOK
  <2>2. run' = Taken(w, record, "pending") => RunOK'
    BY <1>1, TakenOK
  <2> QED BY <1>1, <2>1, <2>2, ReadFileIs
<1>4. Abort(w) => RunOK'
  BY AbortOK
<1> QED BY <1>1, <1>2, <1>3, <1>4 DEF ConsiderRecord

LEMMA NotePresentOK ==
    ASSUME RunOK, NEW w \in Worker, NotePresent(w)
    PROVE  RunOK' /\ UNCHANGED dest
<1>1. run[w].at = "note" /\ run[w].task = "restore" /\ UNCHANGED dest
  BY DEF NotePresent, PersistState, Doing
<1>2. run' = Dropped(w, 0) => RunOK'
  BY <1>1, DroppedOK
<1> QED BY <1>1, <1>2, AbortOK DEF NotePresent, PersistState

LEMMA PersistPendingOK ==
    ASSUME RunOK, NEW w \in Worker, PersistPending(w)
    PROVE  RunOK' /\ UNCHANGED dest
<1>1. run[w].at = "pending" /\ run[w].task = "restore" /\ UNCHANGED dest
  BY DEF PersistPending, PersistState, Doing
<1>2. AtHand([run[w] EXCEPT !.at = "append"])
  BY <1>1 DEF RunOK, Run, AtHand
<1>3. Goto(w, "append") => RunOK'
  BY <1>2, GotoOK DEF Step
<1> QED BY <1>1, <1>3, AbortOK DEF PersistPending, PersistState, Goto

LEMMA PersistDoneOK ==
    ASSUME RunOK, NEW w \in Worker, PersistDone(w)
    PROVE  RunOK' /\ UNCHANGED dest
<1>1. run[w].at = "done" /\ run[w].task = "restore" /\ UNCHANGED dest
  BY DEF PersistDone, PersistState, Doing
<1>2. run' = Dropped(w, 0) => RunOK'
  BY <1>1, DroppedOK
<1> QED BY <1>1, <1>2, AbortOK DEF PersistDone, PersistState

LEMMA RestoreMessageOK ==
    ASSUME RunOK, NEW w \in Worker, RestoreMessage(w)
    PROVE  RunOK' /\ DestStep(w)
<1>1. /\ run[w].at = "append" /\ run[w].task = "restore"
      /\ AppendMessage(w, Destination(run[w].item), run[w].item.msg, "done")
  BY DEF RestoreMessage, Doing
<1>2. run[w].item \in Item
  BY <1>1 DEF RunOK, AtHand
<1>3. RunOK'
  BY <1>1, <1>2, ItemFields, AppendMessageOK
<1>4. DestStep(w)
  BY <1>1, <1>2 DEF DestStep, Appends, Target, AppendMessage
<1> QED BY <1>3, <1>4

LEMMA RestoreOK ==
    ASSUME RunOK, NEW w \in Worker, Restore(w)
    PROVE  RunOK' /\ DestStep(w)
<1>1. CASE \E record \in run[w].batch : ConsiderRecord(w, record)
  BY <1>1, ConsiderRecordOK DEF DestStep
<1>2. CASE NotePresent(w)
  BY <1>2, NotePresentOK DEF DestStep
<1>3. CASE PersistPending(w)
  BY <1>3, PersistPendingOK DEF DestStep
<1>4. CASE RestoreMessage(w)
  BY <1>4, RestoreMessageOK
<1>5. CASE PersistDone(w)
  BY <1>5, PersistDoneOK DEF DestStep
<1>6. CASE RestoreDone(w) /\ UNCHANGED <<dest, faults, sidecarVars>>
  BY <1>6, DoneOK DEF RestoreDone, Doing, DestStep
<1> QED BY <1>1, <1>2, <1>3, <1>4, <1>5, <1>6 DEF Restore

LEMMA WriteMessageFileOK ==
    ASSUME RunOK, NEW w \in Worker, NEW item \in run[w].batch, WriteMessageFile(w, item)
    PROVE  RunOK'
<1>1. run[w].at = "message"
  BY DEF WriteMessageFile, Doing
<1>2. CASE run' = [Taken(w, item, "message") EXCEPT ![w].records = @ \cup {item}]
  <2> DEFINE t == TakenRun(w, item, "message")
             r == [t EXCEPT !.records = @ \cup {item}]
  <2>1. /\ item \in Item /\ t \in Run /\ AtHand(t)
        /\ Taken(w, item, "message") = [run EXCEPT ![w] = t]
    BY <1>1, TakenIs
  <2> HIDE DEF t
  <2>2. r \in Run
    BY <2>1 DEF Run
  <2>3. AtHand(r)
    BY <2>1 DEF Run, AtHand
  <2>4. run' = [run EXCEPT ![w] = r]
    BY <1>2, <2>1 DEF RunOK
  <2> QED BY <2>2, <2>3, <2>4, RunUpdated
<1>3. CASE run' = [Taken(w, item, "message") EXCEPT ![w].failed = @ + 1]
  BY <1>1, <1>3, TakenFailedOK
<1> QED BY <1>2, <1>3 DEF WriteMessageFile

LEMMA ExportOK ==
    ASSUME RunOK, ManifestOK, NEW w \in Worker, Export(w)
    PROVE  RunOK' /\ ManifestOK'
<1>1. CASE \E item \in run[w].batch : WriteMessageFile(w, item)
  <2>1. UNCHANGED manifest
    BY <1>1 DEF WriteMessageFile
  <2> QED BY <1>1, <2>1, WriteMessageFileOK DEF ManifestOK
<1>2. CASE WriteManifest(w)
  <2>1. run[w].records \subseteq Item
    BY DEF RunOK, Run
  <2>2. Abort(w) /\ (UNCHANGED manifest \/ manifest' = run[w].records)
    BY <1>2 DEF WriteManifest
  <2> QED BY <2>1, <2>2, AbortOK DEF ManifestOK
<1> QED BY <1>1, <1>2 DEF Export

LEMMA StartOK ==
    ASSUME RunOK, ManifestOK, NEW w \in Worker, Start(w)
    PROVE  RunOK' /\ ManifestOK'
<1>1. CASE StartMigration(w, Folder) /\ UNCHANGED archiveVars
  <2> DEFINE r == [Idle EXCEPT !.at = "folder", !.task = "migrate", !.folders = Folder]
  <2>1. r \in Run /\ AtHand(r)
    BY DEF Idle, Run, Step, AtHand, Command
  <2> QED BY <1>1, <2>1, RunUpdated DEF StartMigration, archiveVars, ManifestOK
<1>2. CASE StartExport(w, Folder)
  <2> DEFINE r == [Idle EXCEPT !.at = "folder", !.task = "export", !.folders = Folder]
  <2>1. r \in Run /\ AtHand(r)
    BY DEF Idle, Run, Step, AtHand, Command
  <2> QED BY <1>2, <2>1, RunUpdated DEF StartExport, ManifestOK
<1>3. CASE StartRestore(w, Folder) /\ UNCHANGED archiveVars
  <2> DEFINE r == [Idle EXCEPT !.at = "message", !.task = "restore", !.folders = Folder,
                               !.batch = PlanRestore(Folder)]
  <2>1. PlanRestore(Folder) \subseteq Item
    BY <1>3 DEF StartRestore, VerifyArchive, ManifestOK, PlanRestore
  <2>2. r \in Run /\ AtHand(r)
    BY <2>1 DEF Idle, Run, Step, AtHand, Command
  <2>3. run' = [run EXCEPT ![w] = r]
    BY <1>3 DEF StartRestore
  <2> QED BY <1>3, <2>2, <2>3, RunUpdated DEF archiveVars, ManifestOK
<1> QED BY <1>1, <1>2, <1>3 DEF Start

LEMMA ExitOK ==
    ASSUME RunOK, NEW w \in Worker, Exit(w)
    PROVE  RunOK'
BY AbortOK DEF Exit, Crash

LEMMA DiskOK ==
    ASSUME ManifestOK, Disk
    PROVE  ManifestOK'
BY DEF Disk, RemoveDirectory, DamageFile, ManifestOK

LEMMA OwnerOK ==
    ASSUME SourceOK, Owner
    PROVE  SourceOK'
BY RemovedOK, RenumberedOK DEF Owner

LEMMA InitTypeOK == Init => TypeOK
<1> SUFFICES ASSUME Init PROVE TypeOK
  OBVIOUS
<1>1. SourceOK
  <2>1. ASSUME NEW f \in Folder
        PROVE  Initially[f] \in Mail /\ IsFiniteSet(DOMAIN Initially[f])
    <3>1. Initially[f] \in Seq(Message)
      BY InitiallyAssumption
    <3>2. /\ Len(Initially[f]) \in Nat /\ DOMAIN Initially[f] = 1 .. Len(Initially[f])
          /\ Initially[f] \in [1 .. Len(Initially[f]) -> Message]
      BY <3>1
    <3>3. 1 .. Len(Initially[f]) \in SUBSET Nat /\ IsFiniteSet(1 .. Len(Initially[f]))
      BY <3>2, FS_Interval
    <3> QED BY <3>2, <3>3, FunctionIsMail
  <2>2. 1 \in 1 .. MaxEpoch
    BY MaxEpochAssumption
  <2>3. source = [f \in Folder |-> [epoch |-> 1, mail |-> Initially[f]]]
    BY DEF Init
  <2> QED BY <2>1, <2>2, <2>3 DEF SourceOK, Held
<1>2. DestOK
  BY DEF Init, DestOK
<1>3. RunOK
  BY IdleOK DEF Init, RunOK
<1>4. MapOK /\ ManifestOK
  BY DEF Init, MapOK, ManifestOK
<1> QED BY <1>1, <1>2, <1>3, <1>4 DEF TypeOK

\* The types are kept, and a step appends at most the message a run has at hand.
LEMMA RunTypeOK ==
    ASSUME TypeOK, NEW w \in Worker, Start(w) \/ Proceed(w) \/ Exit(w)
    PROVE  TypeOK' /\ DestStep(w)
<1> USE DEF TypeOK, DestStep
<1>1. CASE Start(w)
  <2>1. UNCHANGED <<source, dest, uidMap>>
    BY <1>1 DEF Start
  <2> QED BY <1>1, <2>1, StartOK DEF SourceOK, Held, DestOK, MapOK
<1>2. CASE Read(w)
  <2>1. UNCHANGED <<source, dest, uidMap, manifest>>
    BY <1>2 DEF Read, archiveVars
  <2> QED BY <1>2, <2>1, ReadOK DEF SourceOK, Held, DestOK, MapOK, ManifestOK
<1>3. CASE Migrate(w)
  <2>1. UNCHANGED <<source, manifest>>
    BY <1>3 DEF Migrate, archiveVars
  <2> QED BY <1>3, <2>1, MigrateOK, AppendsOK DEF SourceOK, Held, ManifestOK
<1>4. CASE Export(w)
  <2>1. UNCHANGED <<source, dest, uidMap>>
    BY <1>4 DEF Export
  <2> QED BY <1>4, <2>1, ExportOK DEF SourceOK, Held, DestOK, MapOK
<1>5. CASE Restore(w)
  <2>1. UNCHANGED <<source, uidMap, manifest>>
    BY <1>5 DEF Restore, archiveVars
  <2> QED BY <1>5, <2>1, RestoreOK, AppendsOK DEF SourceOK, Held, MapOK, ManifestOK
<1>6. CASE Exit(w)
  <2>1. UNCHANGED <<source, dest, uidMap, manifest>>
    BY <1>6 DEF Exit, archiveVars
  <2> QED BY <1>6, <2>1, ExitOK DEF SourceOK, Held, DestOK, MapOK, ManifestOK
<1> QED BY <1>1, <1>2, <1>3, <1>4, <1>5, <1>6 DEF Proceed

LEMMA NextTypeOK ==
    ASSUME TypeOK, [Next]_vars
    PROVE  TypeOK' /\ (UNCHANGED dest \/ \E w \in Worker : Appends(w))
<1> USE DEF TypeOK
<1>1. CASE Owner
  <2>1. UNCHANGED <<dest, run, uidMap, manifest>>
    BY <1>1 DEF Owner, archiveVars
  <2> QED BY <1>1, <2>1, OwnerOK DEF DestOK, RunOK, MapOK, ManifestOK
<1>2. CASE Disk
  <2>1. UNCHANGED <<source, dest, run, uidMap>>
    BY <1>2 DEF Disk
  <2> QED BY <1>2, <2>1, DiskOK DEF SourceOK, Held, DestOK, RunOK, MapOK
<1>3. ASSUME NEW w \in Worker, Start(w) \/ Proceed(w) \/ Exit(w)
      PROVE  TypeOK' /\ DestStep(w)
  BY <1>3, RunTypeOK
<1>4. CASE UNCHANGED vars
  BY <1>4 DEF vars, SourceOK, Held, DestOK, RunOK, MapOK, ManifestOK
<1> QED BY <1>1, <1>2, <1>3, <1>4
        DEF Next, DestStep, Owner, Disk

-----------------------------------------------------------------------------
(* The steps at which a run knows something of the destination.            *)

\* A step is a run's own: before it records, it has appended; before it
\* appends, it has looked for the message.
Advance(w) ==
    /\ \A v \in Worker \ {w} : run'[v] = run[v]
    /\ run'[w].at = "record" =>
           /\ Appends(w) /\ run[w].task = "migrate"
           /\ run'[w].task = run[w].task /\ run'[w].item = run[w].item
    /\ run'[w].at \in {"pending", "append"} =>
           /\ UNCHANGED dest
           /\ \/ ~FindByMessageId(Target(run'[w]), run'[w].item.msg)
              \/ /\ run[w].at = "pending" /\ run'[w].item = run[w].item
                 /\ run'[w].task = run[w].task

LEMMA RunReplaced ==
    ASSUME RunOK, NEW w \in Worker, NEW r, run' = [run EXCEPT ![w] = r]
    PROVE  run'[w] = r /\ \A v \in Worker \ {w} : run'[v] = run[v]
BY DEF RunOK

LEMMA PlainAdvance ==
    ASSUME RunOK, NEW w \in Worker, NEW r, run' = [run EXCEPT ![w] = r],
           r.at \notin {"record", "pending", "append"}
    PROVE  Advance(w)
BY RunReplaced DEF Advance

LEMMA AbortAdvance == ASSUME RunOK, NEW w \in Worker, Abort(w) PROVE Advance(w)
BY PlainAdvance DEF Abort, Idle

LEMMA GotoAdvance ==
    ASSUME RunOK, NEW w \in Worker, NEW at \in {"folder", "batch", "ok", "failed", "done"},
           Goto(w, at)
    PROVE  Advance(w)
<1>1. run' = [run EXCEPT ![w] = [run[w] EXCEPT !.at = at]]
  BY DEF Goto
<1>2. [run[w] EXCEPT !.at = at].at = at
  BY DEF RunOK, Run
<1> QED BY <1>1, <1>2, PlainAdvance

LEMMA DroppedAdvance ==
    ASSUME RunOK, NEW w \in Worker, NEW failed, run' = Dropped(w, failed)
    PROVE  Advance(w)
<1> DEFINE r == [run[w] EXCEPT !.at = "message", !.item = Nobody, !.failed = @ + failed]
<1>1. run' = [run EXCEPT ![w] = r]
  BY DEF Dropped
<1>2. r.at = "message"
  BY DEF RunOK, Run
<1> HIDE DEF r
<1> QED BY <1>1, <1>2, PlainAdvance

LEMMA TakenAdvance ==
    ASSUME RunOK, NEW w \in Worker, NEW item \in run[w].batch, run[w].at = "message",
           NEW at \in {"message", "append", "note", "pending"}, run' = Taken(w, item, at),
           UNCHANGED dest,
           at = "append" => run[w].task = "migrate" /\ ~FindByMessageId(item.key.folder, item.msg),
           at = "pending" => run[w].task = "restore" /\ ~FindByMessageId(Destination(item), item.msg)
    PROVE  Advance(w)
<1>1. run' = [run EXCEPT ![w] = TakenRun(w, item, at)]
  BY TakenIs
<1>2. /\ TakenRun(w, item, at).at = at
      /\ TakenRun(w, item, at).task = run[w].task
      /\ at # "message" => TakenRun(w, item, at).item = item
  BY DEF RunOK, Run, TakenRun
<1>3. run'[w] = TakenRun(w, item, at) /\ \A v \in Worker \ {w} : run'[v] = run[v]
  BY <1>1, RunReplaced
<1> QED BY <1>2, <1>3 DEF Advance, Target

LEMMA AppendAdvance ==
    ASSUME RunOK, NEW w \in Worker, run[w].at = "append",
           NEW next \in {"record", "done"},
           next = "record" => run[w].task = "migrate",
           next = "done" => run[w].task = "restore",
           AppendMessage(w, Target(run[w]), run[w].item.msg, next)
    PROVE  Advance(w)
<1>1. run[w].item \in Item
  BY DEF RunOK, AtHand
<1>2. CASE Goto(w, next) /\ AppendTo(Target(run[w]), run[w].item.msg)
  <2>1. run' = [run EXCEPT ![w] = [run[w] EXCEPT !.at = next]]
    BY <1>2 DEF Goto
  <2>2. /\ run'[w].at = next /\ run'[w].item = run[w].item /\ run'[w].task = run[w].task
        /\ \A v \in Worker \ {w} : run'[v] = run[v]
    BY <2>1, RunReplaced DEF RunOK, Run
  <2>3. Appends(w)
    BY <1>1, <1>2 DEF Appends
  <2> QED BY <2>2, <2>3 DEF Advance
<1>3. CASE run' = Dropped(w, 1)
  BY <1>3, DroppedAdvance
<1> QED BY <1>2, <1>3 DEF AppendMessage

LEMMA StartAdvance == ASSUME RunOK, NEW w \in Worker, Start(w) PROVE Advance(w)
<1>1. CASE StartMigration(w, Folder)
  BY <1>1, PlainAdvance DEF StartMigration, Idle
<1>2. CASE StartExport(w, Folder)
  BY <1>2, PlainAdvance DEF StartExport, Idle
<1>3. CASE StartRestore(w, Folder)
  BY <1>3, PlainAdvance DEF StartRestore, Idle
<1> QED BY <1>1, <1>2, <1>3 DEF Start

LEMMA ReadAdvance == ASSUME RunOK, NEW w \in Worker, Read(w) PROVE Advance(w)
<1>1. ASSUME NEW f \in Folder, OpenFolder(w, f) PROVE Advance(w)
  <2> DEFINE r == [run[w] EXCEPT !.at = "batch", !.folder = f, !.folders = @ \ {f},
                      !.epoch = source[f].epoch, !.uids = Held(f),
                      !.listed = @ \cup {<<f, source[f].mail[u]>> : u \in Held(f)}]
  <2>1. run' = [run EXCEPT ![w] = r]
    BY <1>1 DEF OpenFolder
  <2>2. r.at = "batch"
    BY DEF RunOK, Run
  <2> HIDE DEF r
  <2> QED BY <2>1, <2>2, PlainAdvance
<1>2. CASE FetchBatch(w)
  <2>1. PICK u, b : run' = [run EXCEPT ![w] = [run[w] EXCEPT !.at = "message", !.uids = u, !.batch = b]]
    BY <1>2 DEF FetchBatch
  <2>2. [run[w] EXCEPT !.at = "message", !.uids = u, !.batch = b].at = "message"
    BY DEF RunOK, Run
  <2> QED BY <2>1, <2>2, PlainAdvance
<1>3. CASE FetchFails(w)
  BY <1>3, AbortAdvance DEF FetchFails
<1>4. CASE FolderDone(w)
  BY <1>4, GotoAdvance DEF FolderDone
<1>5. CASE BatchDone(w)
  BY <1>5, GotoAdvance DEF BatchDone
<1> QED BY <1>1, <1>2, <1>3, <1>4, <1>5 DEF Read

LEMMA MigrateAdvance == ASSUME RunOK, NEW w \in Worker, Migrate(w) PROVE Advance(w)
<1>1. ASSUME NEW item \in run[w].batch, ConsiderMessage(w, item) PROVE Advance(w)
  <2>1. run[w].at = "message" /\ run[w].task = "migrate" /\ UNCHANGED dest
    BY <1>1 DEF ConsiderMessage, Migrating
  <2>2. run' = Taken(w, item, "message") => Advance(w)
    BY <2>1, TakenAdvance
  <2>3. run' = Taken(w, item, "append") /\ ~FindByMessageId(item.key.folder, item.msg)
            => Advance(w)
    BY <2>1, TakenAdvance
  <2> QED BY <1>1, <2>2, <2>3, AbortAdvance DEF ConsiderMessage
<1>2. CASE CopyMessage(w)
  <2>1. /\ run[w].at = "append" /\ run[w].task = "migrate"
        /\ AppendMessage(w, Target(run[w]), run[w].item.msg, "record")
    BY <1>2 DEF CopyMessage, Migrating, Target
  <2> QED BY <2>1, AppendAdvance
<1>3. CASE RecordCopy(w)
  BY <1>3, DroppedAdvance, AbortAdvance DEF RecordCopy
<1>4. CASE MigrationDone(w)
  BY <1>4, GotoAdvance DEF MigrationDone
<1> QED BY <1>1, <1>2, <1>3, <1>4 DEF Migrate

\* A message taken and counted, or recorded.
LEMMA TakenPlain ==
    ASSUME RunOK, NEW w \in Worker, NEW item \in run[w].batch, run[w].at = "message"
    PROVE  /\ run' = [Taken(w, item, "message") EXCEPT ![w].failed = @ + 1] => Advance(w)
           /\ run' = [Taken(w, item, "message") EXCEPT ![w].records = @ \cup {item}] => Advance(w)
<1> DEFINE t == TakenRun(w, item, "message")
<1>1. t \in Run /\ Taken(w, item, "message") = [run EXCEPT ![w] = t]
  BY TakenIs
<1>2. t.at = "message"
  BY DEF TakenRun, RunOK, Run
<1> HIDE DEF t
<1>3. ASSUME run' = [Taken(w, item, "message") EXCEPT ![w].failed = @ + 1] PROVE Advance(w)
  <2>1. run' = [run EXCEPT ![w] = [t EXCEPT !.failed = @ + 1]]
    BY <1>1, <1>3 DEF RunOK
  <2>2. [t EXCEPT !.failed = @ + 1].at = "message"
    BY <1>1, <1>2 DEF Run
  <2> QED BY <2>1, <2>2, PlainAdvance
<1>4. ASSUME run' = [Taken(w, item, "message") EXCEPT ![w].records = @ \cup {item}] PROVE Advance(w)
  <2>1. run' = [run EXCEPT ![w] = [t EXCEPT !.records = @ \cup {item}]]
    BY <1>1, <1>4 DEF RunOK
  <2>2. [t EXCEPT !.records = @ \cup {item}].at = "message"
    BY <1>1, <1>2 DEF Run
  <2> QED BY <2>1, <2>2, PlainAdvance
<1> QED BY <1>3, <1>4

LEMMA ExportAdvance == ASSUME RunOK, NEW w \in Worker, Export(w) PROVE Advance(w)
<1>1. ASSUME NEW item \in run[w].batch, WriteMessageFile(w, item) PROVE Advance(w)
  BY <1>1, TakenPlain DEF WriteMessageFile, Doing
<1>2. CASE WriteManifest(w)
  BY <1>2, AbortAdvance DEF WriteManifest
<1> QED BY <1>1, <1>2 DEF Export

LEMMA RestoreAdvance == ASSUME RunOK, NEW w \in Worker, Restore(w) PROVE Advance(w)
<1>1. ASSUME NEW record \in run[w].batch, ConsiderRecord(w, record) PROVE Advance(w)
  <2>1. run[w].at = "message" /\ run[w].task = "restore" /\ UNCHANGED dest
    BY <1>1 DEF ConsiderRecord, Doing
  <2>2. CASE run' = [Taken(w, record, "message") EXCEPT ![w].failed = @ + 1]
    BY <2>1, <2>2, TakenPlain
  <2>3. CASE Intact(record) /\ run' = ReadFile(w, record)
    <3>1. CASE FindByMessageId(Destination(record), record.msg)
      <4>1. run' = Taken(w, record, "note")
        BY <2>1, <2>3, <3>1, ReadFileIs
      <4> QED BY <2>1, <4>1, TakenAdvance
    <3>2. CASE ~FindByMessageId(Destination(record), record.msg)
      <4>1. run' = Taken(w, record, "pending")
        BY <2>1, <2>3, <3>2, ReadFileIs
      <4> QED BY <2>1, <3>2, <4>1, TakenAdvance
    <3> QED BY <3>1, <3>2
  <2> QED BY <1>1, <2>2, <2>3, AbortAdvance DEF ConsiderRecord
<1>2. CASE NotePresent(w) \/ PersistDone(w)
  BY <1>2, DroppedAdvance, AbortAdvance DEF NotePresent, PersistDone, PersistState
<1>3. CASE PersistPending(w)
  <2>1. run[w].at = "pending" /\ UNCHANGED dest
    BY <1>3 DEF PersistPending, PersistState, Doing
  <2>2. CASE run' = [run EXCEPT ![w].at = "append"]
    <3>1. /\ run'[w].at = "append" /\ run'[w].item = run[w].item /\ run'[w].task = run[w].task
          /\ \A v \in Worker \ {w} : run'[v] = run[v]
      BY <2>2 DEF RunOK, Run
    <3> QED BY <2>1, <3>1 DEF Advance
  <2> QED BY <1>3, <2>2, AbortAdvance DEF PersistPending, PersistState
<1>4. CASE RestoreMessage(w)
  <2>1. /\ run[w].at = "append" /\ run[w].task = "restore"
        /\ AppendMessage(w, Target(run[w]), run[w].item.msg, "done")
    BY <1>4 DEF RestoreMessage, Doing, Target
  <2> QED BY <2>1, AppendAdvance
<1>5. CASE RestoreDone(w)
  BY <1>5, GotoAdvance DEF RestoreDone
<1> QED BY <1>1, <1>2, <1>3, <1>4, <1>5 DEF Restore

LEMMA ExitAdvance == ASSUME RunOK, NEW w \in Worker, Exit(w) PROVE Advance(w)
BY AbortAdvance DEF Exit, Crash

\* Every step is a run's, or leaves the runs, the map and the destination alone.
LEMMA NextAdvance ==
    ASSUME TypeOK, [Next]_vars
    PROVE  \/ UNCHANGED <<dest, run, uidMap, overlap>>
           \/ \E w \in Worker : Advance(w) /\ (Start(w) \/ Busy(w))
<1>1. CASE Owner \/ Disk \/ UNCHANGED vars
  BY <1>1 DEF Owner, Disk, vars
<1>2. ASSUME NEW w \in Worker, Start(w)
      PROVE  Advance(w)
  BY <1>2, StartAdvance DEF TypeOK
<1>3. ASSUME NEW w \in Worker, Proceed(w)
      PROVE  Advance(w)
  BY <1>3, ReadAdvance, MigrateAdvance, ExportAdvance, RestoreAdvance DEF TypeOK, Proceed
<1>4. ASSUME NEW w \in Worker, Exit(w)
      PROVE  Advance(w)
  BY <1>4, ExitAdvance DEF TypeOK
<1>5. ASSUME NEW w \in Worker, Proceed(w) \/ Exit(w)
      PROVE  Busy(w)
  <2>1. CASE Read(w)
    BY <2>1 DEF Read, OpenFolder, FetchBatch, FetchFails, FolderDone, BatchDone, Busy
  <2>2. CASE Migrate(w)
    BY <2>2 DEF Migrate, ConsiderMessage, CopyMessage, RecordCopy, MigrationDone, Migrating, Busy
  <2>3. CASE Export(w)
    BY <2>3 DEF Export, WriteMessageFile, WriteManifest, Doing, Busy
  <2>4. CASE Restore(w)
    BY <2>4 DEF Restore, ConsiderRecord, NotePresent, PersistPending, RestoreMessage,
                PersistDone, PersistState, RestoreDone, Doing, Busy
  <2>5. CASE Exit(w)
    BY <2>5 DEF Exit, Crash, Busy
  <2> QED BY <1>5, <2>1, <2>2, <2>3, <2>4, <2>5 DEF Proceed
<1> QED BY <1>1, <1>2, <1>3, <1>4, <1>5 DEF Next

-----------------------------------------------------------------------------
(* The theorems.                                                           *)

LEMMA InDestStays ==
    ASSUME DestOK, UNCHANGED dest \/ \E w \in Worker : Appends(w),
           NEW f \in Folder, NEW m \in Message, InDest(f, m)
    PROVE  InDest(f, m)'
<1>1. \A g \in Folder, n \in Message : dest[g][n] > 0 => dest'[g][n] > 0
  BY AppendsOK DEF DestStep
<1> QED BY <1>1 DEF InDest

LEMMA AppendedInDest ==
    ASSUME DestOK, NEW f \in Folder, NEW m \in Message, AppendTo(f, m)
    PROVE  InDest(f, m)'
<1>1. dest'[f][m] = dest[f][m] + 1
  BY Appended
<1>2. dest[f][m] \in Nat
  BY DEF DestOK
<1> QED BY <1>1, <1>2 DEF InDest

\* Every variable keeps its type.
THEOREM TypeCorrect == Spec => []TypeOK
<1>1. Init => TypeOK
  BY InitTypeOK
<1>2. TypeOK /\ [Next]_vars => TypeOK'
  BY NextTypeOK
<1> QED BY <1>1, <1>2, PTL DEF Spec

\* Only messages of the source reach the destination: what a restore appends
\* has passed its checksum (crates/cli/src/commands/backup.rs, run_restore).
THEOREM OnlyGenuine == Spec => []RestoresGenuine
<1>1. Init => RestoresGenuine
  BY DEF Init, RestoresGenuine
<1>2. TypeOK /\ RestoresGenuine /\ [Next]_vars => RestoresGenuine'
  <2> SUFFICES ASSUME TypeOK, RestoresGenuine, [Next]_vars PROVE RestoresGenuine'
    OBVIOUS
  <2>1. \A f \in Folder : dest'[f][Damaged] = dest[f][Damaged]
    <3>1. CASE UNCHANGED dest
      BY <3>1
    <3>2. ASSUME NEW w \in Worker, Appends(w)
          PROVE  \A f \in Folder : dest'[f][Damaged] = dest[f][Damaged]
      BY <3>2, AppendsOK DEF DestStep, TypeOK
    <3> QED BY <3>1, <3>2, NextTypeOK
  <2> QED BY <2>1 DEF RestoresGenuine
<1> QED BY <1>1, <1>2, TypeCorrect, PTL DEF Spec

\* A migration about to record a copy has made it.
RecordsCopies ==
    \A w \in Worker : run[w].at = "record" =>
        run[w].task = "migrate" /\ InDest(run[w].item.key.folder, run[w].item.msg)

MapInv == MapIsTrue /\ RecordsCopies

LEMMA MapGrowsTrue ==
    ASSUME TypeOK, MapInv, Next
    PROVE  \A row \in uidMap' : InDest(row.key.folder, row.msg)
<1>1. ASSUME NEW w \in Worker, Migrate(w)
      PROVE  \A row \in uidMap' : InDest(row.key.folder, row.msg)
  <2>1. ASSUME NEW item \in run[w].batch, ConsiderMessage(w, item)
        PROVE  \A row \in uidMap' : InDest(row.key.folder, row.msg)
    <3>1. item \in Item
      BY <2>1 DEF TypeOK, RunOK, Run
    <3>2. FindByMessageId(item.key.folder, item.msg) => InDest(item.key.folder, item.msg)
      BY <3>1, ItemFields DEF FindByMessageId, InDest
    <3> QED BY <2>1, <3>2 DEF ConsiderMessage, RecordMigration, MapInv, MapIsTrue
  <2>2. CASE RecordCopy(w)
    BY <2>2 DEF RecordCopy, RecordMigration, Migrating, MapInv, MapIsTrue, RecordsCopies
  <2>3. CASE CopyMessage(w) \/ UNCHANGED uidMap
    BY <2>3 DEF CopyMessage, MapInv, MapIsTrue
  <2> QED BY <1>1, <2>1, <2>2, <2>3 DEF Migrate
<1>2. CASE UNCHANGED uidMap
  BY <1>2 DEF MapInv, MapIsTrue
<1> QED BY <1>1, <1>2 DEF Next, Owner, Disk, Start, Proceed, Read, Export, Restore, Exit

LEMMA MapInvStep ==
    ASSUME TypeOK, MapInv, [Next]_vars
    PROVE  MapInv'
<1>1. TypeOK' /\ (UNCHANGED dest \/ \E w \in Worker : Appends(w))
  BY NextTypeOK
<1>2. MapIsTrue'
  <2>1. \A row \in uidMap' : InDest(row.key.folder, row.msg)
    BY MapGrowsTrue DEF vars, MapInv, MapIsTrue
  <2>2. ASSUME NEW row \in uidMap' PROVE InDest(row.key.folder, row.msg)'
    <3>1. row \in Item
      BY <1>1 DEF TypeOK, MapOK
    <3> QED BY <1>1, <2>1, <3>1, ItemFields, InDestStays DEF TypeOK
  <2> QED BY <2>2 DEF MapIsTrue
<1>3. ASSUME NEW v \in Worker, run'[v].at = "record", run'[v] = run[v]
      PROVE  run'[v].task = "migrate" /\ InDest(run[v].item.key.folder, run[v].item.msg)'
  <2>1. run[v].item \in Item
    BY <1>3 DEF TypeOK, RunOK, AtHand
  <2>2. PICK f \in Folder, m \in Message : f = run[v].item.key.folder /\ m = run[v].item.msg
    BY <2>1, ItemFields
  <2>3. run[v].task = "migrate" /\ InDest(f, m)
    BY <1>3, <2>2 DEF MapInv, RecordsCopies
  <2>4. InDest(f, m)'
    BY <1>1, <2>3, InDestStays DEF TypeOK
  <2> QED BY <1>3, <2>2, <2>3, <2>4
<1>4. ASSUME NEW v \in Worker, run'[v].at = "record", Advance(v)
      PROVE  run'[v].task = "migrate" /\ InDest(run[v].item.key.folder, run[v].item.msg)'
  <2>1. /\ run'[v].task = "migrate" /\ run'[v].item = run[v].item
        /\ run[v].item \in Item
        /\ AppendTo(run[v].item.key.folder, run[v].item.msg)
    BY <1>4 DEF Advance, Appends, Target
  <2>2. PICK f \in Folder, m \in Message : f = run[v].item.key.folder /\ m = run[v].item.msg
    BY <2>1, ItemFields
  <2>3. InDest(f, m)'
    BY <2>1, <2>2, AppendedInDest DEF TypeOK
  <2> QED BY <2>1, <2>2, <2>3
<1>5. RecordsCopies'
  <2>1. ASSUME NEW v \in Worker
        PROVE  run'[v] = run[v] \/ Advance(v)
    BY NextAdvance DEF Advance
  <2> QED BY <1>3, <1>4, <2>1 DEF RecordsCopies
<1> QED BY <1>2, <1>5 DEF MapInv

\* The map never claims a copy that is not there: a message is recorded after
\* its APPEND, or after the destination was found to have it
\* (crates/cli/src/commands/migrate.rs, record_migration_after_append).
THEOREM MapStaysTrue == Spec => []MapIsTrue
<1>1. Init => MapInv
  BY DEF Init, Idle, MapInv, MapIsTrue, RecordsCopies
<1>2. TypeOK /\ MapInv /\ [Next]_vars => MapInv'
  BY MapInvStep
<1>3. MapInv => MapIsTrue
  BY DEF MapInv
<1> QED BY <1>1, <1>2, <1>3, TypeCorrect, PTL DEF Spec

\* As long as no two runs were at work at a time, at most one is; one about to
\* append has looked for its message, and nothing was appended since.
Alone == ~overlap => \A v, w \in Worker : Busy(v) /\ Busy(w) => v = w
LooksFirst ==
    ~overlap => \A w \in Worker : run[w].at \in {"pending", "append"} =>
                    ~FindByMessageId(Target(run[w]), run[w].item.msg)

CopyInv == NoSecondCopy /\ Alone /\ LooksFirst

LEMMA OverlapStays == ASSUME [Next]_vars, ~overlap' PROVE ~overlap
BY DEF Next, Owner, Disk, Start, Proceed, Read, Migrate, Export, Restore, Exit, Overlaps, vars

LEMMA AloneStep ==
    ASSUME TypeOK, Alone, [Next]_vars
    PROVE  Alone'
<1>1. CASE UNCHANGED <<dest, run, uidMap, overlap>>
  BY <1>1 DEF Alone, Busy
<1>2. ASSUME NEW w \in Worker, Advance(w), Start(w)
      PROVE  Alone'
  <2>1. overlap' = (overlap \/ \E v \in Worker \ {w} : Busy(v))
    BY <1>2 DEF Start, Overlaps
  <2>2. ~overlap' => \A v \in Worker \ {w} : ~Busy(v)
    BY <2>1
  <2>3. \A v \in Worker \ {w} : Busy(v)' => Busy(v)
    BY <1>2 DEF Busy, Advance
  <2> QED BY <2>2, <2>3 DEF Alone
<1>3. ASSUME NEW w \in Worker, Advance(w), Busy(w), ~Start(w)
      PROVE  Alone'
  <2>1. ~overlap' => ~overlap
    BY OverlapStays
  <2>2. \A v \in Worker \ {w} : Busy(v)' => Busy(v)
    BY <1>3 DEF Busy, Advance
  <2> QED BY <1>3, <2>1, <2>2 DEF Alone
<1> QED BY <1>1, <1>2, <1>3, NextAdvance

LEMMA NoSecondCopyStep ==
    ASSUME TypeOK, CopyInv, [Next]_vars
    PROVE  NoSecondCopy'
<1> SUFFICES ASSUME ~overlap' PROVE NoSecondCopy'
  BY DEF NoSecondCopy
<1>1. ~overlap
  BY OverlapStays
<1>2. CASE UNCHANGED dest
  BY <1>1, <1>2 DEF CopyInv, NoSecondCopy
<1>3. ASSUME NEW w \in Worker, Appends(w)
      PROVE  NoSecondCopy'
  <2>1. PICK f \in Folder, m \in Message : f = Target(run[w]) /\ m = run[w].item.msg
    BY <1>3, ItemFields DEF Appends, Target
  <2>2. /\ AppendTo(f, m)
        /\ ~FindByMessageId(f, m)
    BY <1>1, <1>3, <2>1 DEF Appends, CopyInv, LooksFirst
  <2>3. \A g \in Folder, n \in Message : dest[g][n] \in Nat
    BY DEF TypeOK, DestOK
  <2>4. \A g \in Folder, n \in Message :
            dest'[g][n] = IF g = f /\ n = m THEN dest[g][n] + 1 ELSE dest[g][n]
    BY <2>2, Appended DEF TypeOK
  <2>5. MessageId[m] # Nobody =>
            \A n \in Message : MessageId[n] = MessageId[m] => dest[f][n] = 0
    BY <2>2, <2>3 DEF FindByMessageId
  <2>6. ASSUME NEW g \in Folder, NEW n \in Message, NEW k \in Message,
               MessageId[n] # Nobody, MessageId[n] = MessageId[k]
        PROVE  dest'[g][n] <= 1 /\ (n # k => dest'[g][n] = 0 \/ dest'[g][k] = 0)
    <3>1. dest[g][n] <= 1 /\ (n # k => dest[g][n] = 0 \/ dest[g][k] = 0)
      BY <1>1, <2>6 DEF CopyInv, NoSecondCopy
    <3>2. CASE g = f /\ (n = m \/ k = m)
      BY <2>4, <2>5, <2>6, <3>2
    <3>3. CASE ~(g = f /\ (n = m \/ k = m))
      BY <2>4, <3>1, <3>3
    <3> QED BY <3>2, <3>3
  <2> QED BY <2>6 DEF NoSecondCopy
<1> QED BY <1>2, <1>3, NextTypeOK

LEMMA LooksFirstStep ==
    ASSUME TypeOK, CopyInv, [Next]_vars
    PROVE  LooksFirst'
<1> SUFFICES ASSUME ~overlap', NEW v \in Worker, run'[v].at \in {"pending", "append"}
             PROVE  ~FindByMessageId(Target(run[v]), run[v].item.msg)'
  BY DEF LooksFirst
<1>1. ~overlap
  BY OverlapStays
<1>2. run[v].at \in {"pending", "append"} => ~FindByMessageId(Target(run[v]), run[v].item.msg)
  BY <1>1 DEF CopyInv, LooksFirst
<1>3. CASE UNCHANGED <<dest, run>>
  BY <1>2, <1>3 DEF FindByMessageId, Target, Destination
<1>4. ASSUME NEW w \in Worker, Advance(w), Start(w) \/ Busy(w)
      PROVE  ~FindByMessageId(Target(run[v]), run[v].item.msg)'
  <2>1. v = w
    <3>1. SUFFICES ASSUME v # w PROVE FALSE
      OBVIOUS
    <3>2. run'[v] = run[v] /\ Busy(v)
      BY <1>4, <3>1 DEF Advance, Busy
    <3>3. CASE Start(w)
      BY <3>1, <3>2, <3>3 DEF Start, Overlaps
    <3>4. CASE Busy(w)
      BY <1>1, <3>1, <3>2, <3>4 DEF CopyInv, Alone
    <3> QED BY <1>4, <3>3, <3>4
  <2>2. UNCHANGED dest
    BY <1>4, <2>1 DEF Advance
  <2>3. CASE ~FindByMessageId(Target(run'[v]), run'[v].item.msg)
    BY <2>2, <2>3 DEF FindByMessageId, Target, Destination
  <2>4. CASE run[v].at = "pending" /\ run'[v].item = run[v].item /\ run'[v].task = run[v].task
    BY <1>2, <2>2, <2>4 DEF FindByMessageId, Target, Destination
  <2> QED BY <1>4, <2>1, <2>3, <2>4 DEF Advance
<1> QED BY <1>3, <1>4, NextAdvance

\* Runs one after the other make no second copy of a message with a Message-ID:
\* none appends what its search of the destination would find
\* (crates/email/src/imap.rs, find_uid_by_message_id).
THEOREM CopiedOnce == Spec => []NoSecondCopy
<1>1. Init => CopyInv
  BY DEF Init, Idle, CopyInv, NoSecondCopy, Alone, LooksFirst, Busy
<1>2. TypeOK /\ CopyInv /\ [Next]_vars => CopyInv'
  BY AloneStep, LooksFirstStep, NoSecondCopyStep DEF CopyInv
<1>3. CopyInv => NoSecondCopy
  BY DEF CopyInv
<1> QED BY <1>1, <1>2, <1>3, TypeCorrect, PTL DEF Spec

-----------------------------------------------------------------------------
(* A migration that succeeds leaves nothing behind.                        *)

\* The messages a migration has in memory.
Hand(r) == r.batch \cup (IF r.at \in {"append", "record"} THEN {r.item} ELSE {})

\* A key that was ever seen still names the same message, or no message.
IsKnown(i) == i \in uidMap \/ \E w \in Worker : run[w].task = "migrate" /\ i \in Hand(run[w])

Current(i) ==
    /\ i.key.epoch = source[i.key.folder].epoch
    /\ i.key.uid \in Held(i.key.folder)
    /\ i.msg = source[i.key.folder].mail[i.key.uid]

Faithful(i) ==
    /\ i.key.epoch <= source[i.key.folder].epoch
    /\ i.key.epoch = source[i.key.folder].epoch /\ i.key.uid \in Held(i.key.folder) => Current(i)

KeysOK ==
    \A i \in Item : IsKnown(i) =>
        Faithful(i) /\ \A j \in Item : IsKnown(j) /\ i.key = j.key => i.msg = j.msg

\* The owner removed every message with this content.
Gone(f, m) == \A u \in Held(f) : source[f].mail[u] # m

\* The run will still come to it, or fail: it is in memory, or among the UIDs
\* left, as long as the folder was not renumbered.
Remaining(r, f, m) ==
    \/ \E i \in Hand(r) : i.key.folder = f /\ i.msg = m
    \/ /\ r.at \in {"batch", "message", "append", "record"} /\ r.folder = f /\ r.uids # {}
       /\ r.epoch = source[f].epoch => \A u \in Held(f) : source[f].mail[u] = m => u \in r.uids

Covers(w) ==
    run[w].task = "migrate" /\ run[w].failed = 0 =>
        \A f \in Folder, m \in Message : <<f, m>> \in run[w].listed =>
            InDest(f, m) \/ Gone(f, m) \/ Remaining(run[w], f, m)

Tidy(w) ==
    run[w].task = "migrate" =>
        /\ run[w].at \in {"folder", "batch", "ok"} => run[w].batch = {}
        /\ run[w].at = "ok" => run[w].failed = 0
        /\ run[w].at \in {"batch", "message", "append", "record"} =>
               run[w].epoch <= source[run[w].folder].epoch

CoverInv == KeysOK /\ \A w \in Worker : Covers(w) /\ Tidy(w)

-----------------------------------------------------------------------------
(* The owner's changes.                                                    *)

\* What a change in a folder does to it.
Changed(f) ==
    /\ source' = [source EXCEPT ![f] = source'[f]]
    /\ \/ /\ source'[f].epoch = source[f].epoch
          /\ Held(f)' \subseteq Held(f)
          /\ \A u \in Held(f)' : source'[f].mail[u] = source[f].mail[u]
       \/ /\ source'[f].epoch = source[f].epoch + 1
          /\ \A u \in Held(f)' : \E v \in Held(f) : source'[f].mail[u] = source[f].mail[v]

LEMMA OwnerChanges ==
    ASSUME SourceOK, Owner
    PROVE  \E f \in Folder : Changed(f)
<1>1. PICK f \in Folder : Renumbered(f) \/ \E u \in Held(f) : Removed(f, u)
  BY DEF Owner
<1>2. CASE Renumbered(f)
  <2>1. PICK old \in Bijection(1 .. Cardinality(Held(f)), Held(f)) :
            source' = [source EXCEPT ![f] =
                [epoch |-> @.epoch + 1, mail |-> [u \in DOMAIN old |-> source[f].mail[old[u]]]]]
    BY <1>2 DEF Renumbered
  <2>2. \A u \in DOMAIN old : old[u] \in Held(f)
    BY DEF Bijection, Injection
  <2>3. source'[f] = [epoch |-> source[f].epoch + 1,
                      mail |-> [u \in DOMAIN old |-> source[f].mail[old[u]]]]
    BY <2>1 DEF SourceOK
  <2>4. source' = [source EXCEPT ![f] = source'[f]]
    BY <2>1, <2>3
  <2> QED BY <2>2, <2>3, <2>4 DEF Changed, Held
<1>3. ASSUME NEW u \in Held(f), Removed(f, u) PROVE Changed(f)
  <2> DEFINE kept == Restrict(source[f].mail, Held(f) \ {u})
  <2>1. source' = [source EXCEPT ![f].mail = kept]
    BY <1>3 DEF Removed
  <2>2. DOMAIN kept = Held(f) \ {u} /\ \A v \in DOMAIN kept : kept[v] = source[f].mail[v]
    BY DEF Restrict
  <2> HIDE DEF kept
  <2>3. source'[f].epoch = source[f].epoch /\ source'[f].mail = kept
    BY <2>1 DEF SourceOK
  <2>4. source' = [source EXCEPT ![f] = source'[f]]
    BY <2>1 DEF SourceOK
  <2> QED BY <2>2, <2>3, <2>4 DEF Changed, Held
<1> QED BY <1>1, <1>2, <1>3

LEMMA OwnerKeepsKeys ==
    ASSUME SourceOK, NEW f \in Folder, Changed(f), NEW i \in Item, Faithful(i)
    PROVE  Faithful(i)'
<1>1. i.key.folder \in Folder /\ i.key.epoch \in Nat
  BY MaxEpochAssumption DEF Item, Key
<1>2. source[i.key.folder].epoch \in Nat
  BY <1>1, MailMembers, MaxEpochAssumption
<1>3. CASE i.key.folder = f
  BY <1>1, <1>2, <1>3 DEF Changed, Faithful, Current
<1>4. CASE i.key.folder # f
  BY <1>1, <1>4 DEF Changed, Faithful, Current, Held, SourceOK
<1> QED BY <1>3, <1>4

LEMMA OwnerKeepsRest ==
    ASSUME SourceOK, NEW f \in Folder, Changed(f),
           NEW g \in Folder, NEW m \in Message, NEW r \in Run,
           r.at \in {"batch", "message", "append", "record"} /\ r.folder = g =>
               r.epoch <= source[g].epoch
    PROVE  /\ Gone(g, m) => Gone(g, m)'
           /\ Remaining(r, g, m) => Gone(g, m)' \/ Remaining(r, g, m)'
<1>1. source[g].epoch \in Nat /\ r.epoch \in Nat
  BY MailMembers, MaxEpochAssumption DEF Run
<1>2. CASE g # f
  BY <1>2 DEF Changed, Gone, Remaining, Held, SourceOK
<1>3. CASE g = f
  <2>1. Gone(g, m) => Gone(g, m)'
    BY <1>3 DEF Changed, Gone
  <2>2. Remaining(r, g, m) => Gone(g, m)' \/ Remaining(r, g, m)'
    BY <1>1, <1>3 DEF Changed, Remaining
  <2> QED BY <2>1, <2>2
<1> QED BY <1>2, <1>3

LEMMA OwnerCover ==
    ASSUME TypeOK, CoverInv, Owner
    PROVE  CoverInv'
<1>1. PICK f \in Folder : Changed(f)
  BY OwnerChanges DEF TypeOK
<1>2. UNCHANGED <<dest, run, uidMap>>
  BY DEF Owner
<1>3. \A i : IsKnown(i)' <=> IsKnown(i)
  BY <1>2 DEF IsKnown, Hand
<1>4. KeysOK'
  BY <1>1, <1>3, OwnerKeepsKeys DEF TypeOK, CoverInv, KeysOK
<1>5. ASSUME NEW w \in Worker PROVE Tidy(w)'
  <2>1. run[w] \in Run /\ AtHand(run[w]) /\ Tidy(w)
    BY DEF TypeOK, RunOK, CoverInv
  <2>2. \A g \in Folder : source[g].epoch <= source'[g].epoch
    BY <1>1, MailMembers, MaxEpochAssumption DEF Changed, SourceOK, TypeOK
  <2>3. \A g \in Folder : source[g].epoch \in Nat /\ source'[g].epoch \in Nat
    BY <1>1, MailMembers, MaxEpochAssumption DEF Changed, SourceOK, TypeOK
  <2> QED BY <1>2, <2>1, <2>2, <2>3 DEF Tidy, AtHand, Run
<1>6. ASSUME NEW w \in Worker PROVE Covers(w)'
  <2> SUFFICES ASSUME run[w].task = "migrate", run[w].failed = 0,
                      NEW g \in Folder, NEW m \in Message, <<g, m>> \in run[w].listed
               PROVE  InDest(g, m)' \/ Gone(g, m)' \/ Remaining(run[w], g, m)'
    BY <1>2 DEF Covers
  <2>1. run[w] \in Run /\ Tidy(w) /\ Covers(w)
    BY DEF TypeOK, RunOK, CoverInv
  <2>2. InDest(g, m) => InDest(g, m)'
    BY <1>2 DEF InDest
  <2>3. PICK r \in Run : r = run[w]
    BY <2>1
  <2>4. /\ Gone(g, m) => Gone(g, m)'
        /\ Remaining(r, g, m) => Gone(g, m)' \/ Remaining(r, g, m)'
    BY <1>1, <2>1, <2>3, OwnerKeepsRest DEF TypeOK, Tidy
  <2>5. Remaining(r, g, m)' => Remaining(run[w], g, m)'
    BY <1>2, <2>3 DEF Remaining
  <2>6. InDest(g, m) \/ Gone(g, m) \/ Remaining(r, g, m)
    BY <2>1, <2>3 DEF Covers
  <2> QED BY <2>2, <2>4, <2>5, <2>6
<1> QED BY <1>4, <1>5, <1>6 DEF CoverInv

-----------------------------------------------------------------------------
(* The steps of the runs.                                                  *)

\* What a migration has in hand after a step it had before, or has just read.
Fetches(w) ==
    run'[w].task = "migrate" =>
        \A i \in Hand(run'[w]) : (run[w].task = "migrate" /\ i \in Hand(run[w])) \/ Current(i)

\* The map takes only what a migration has in hand.
Records(w) ==
    \A i \in uidMap' : i \in uidMap \/ (run[w].task = "migrate" /\ i \in Hand(run[w]))

KeepsDest == \A f \in Folder, m \in Message : InDest(f, m) => InDest(f, m)'

LEMMA KeysStep ==
    ASSUME KeysOK, NEW w \in Worker, UNCHANGED source, Fetches(w), Records(w),
           \A v \in Worker \ {w} : run'[v] = run[v]
    PROVE  KeysOK'
<1>1. ASSUME NEW i \in Item, IsKnown(i)' PROVE IsKnown(i) \/ Current(i)
  BY <1>1 DEF IsKnown, Fetches, Records
<1>2. \A i \in Item : /\ Faithful(i)' <=> Faithful(i)
                      /\ Current(i) => i.key.epoch = source[i.key.folder].epoch
  BY DEF Faithful, Current, Held
<1>3. ASSUME NEW i \in Item, Current(i) PROVE Faithful(i)
  <2>1. i.key.epoch \in Nat
    BY MaxEpochAssumption DEF Item, Key
  <2> QED BY <1>3, <2>1 DEF Current, Faithful
<1>4. ASSUME NEW i \in Item, NEW j \in Item, i.key = j.key,
             IsKnown(i) \/ Current(i), IsKnown(j) \/ Current(j)
      PROVE  i.msg = j.msg
  <2>1. (IsKnown(i) => Faithful(i)) /\ (IsKnown(j) => Faithful(j))
    BY DEF KeysOK
  <2>2. CASE Current(i) \/ Current(j)
    BY <1>4, <2>1, <2>2 DEF Faithful, Current
  <2>3. CASE IsKnown(i) /\ IsKnown(j)
    BY <1>4, <2>3 DEF KeysOK
  <2> QED BY <1>4, <2>2, <2>3
<1> QED BY <1>1, <1>2, <1>3, <1>4 DEF KeysOK

\* A step of a migration that lists no more: what remains still remains, is in
\* the destination, or made the run fail.
Goes(w) ==
    /\ run[w].task = "migrate" /\ run'[w].listed = run[w].listed
    /\ run'[w].failed = 0 => run[w].failed = 0
    /\ run'[w].failed = 0 => \A f \in Folder, m \in Message :
           Remaining(run[w], f, m) => InDest(f, m)' \/ Gone(f, m) \/ Remaining(run[w], f, m)'

LEMMA GoesCovers ==
    ASSUME NEW w \in Worker, UNCHANGED source, KeepsDest, Goes(w), Covers(w)
    PROVE  Covers(w)'
<1> SUFFICES ASSUME run'[w].task = "migrate", run'[w].failed = 0,
                    NEW f \in Folder, NEW m \in Message, <<f, m>> \in run'[w].listed
             PROVE  InDest(f, m)' \/ Gone(f, m)' \/ Remaining(run[w], f, m)'
  BY DEF Covers
<1>1. Gone(f, m) => Gone(f, m)'
  BY DEF Gone, Held
<1>2. InDest(f, m) \/ Gone(f, m) \/ Remaining(run[w], f, m)
  BY DEF Goes, Covers
<1> QED BY <1>1, <1>2 DEF KeepsDest, Goes

Good(w) == Covers(w) /\ Tidy(w)

LEMMA OtherTask ==
    ASSUME NEW w \in Worker, run'[w].task # "migrate"
    PROVE  Good(w)' /\ Fetches(w)
BY DEF Good, Covers, Tidy, Fetches

\* What a step that goes through the folders does to the run and what remains.
LEMMA FetchBatchIs ==
    ASSUME TypeOK, NEW w \in Worker, FetchBatch(w), run[w].batch = {}, UNCHANGED source
    PROVE  /\ run[w].at = "batch" /\ run'[w].at = "message"
           /\ run'[w].task = run[w].task /\ run'[w].failed = run[w].failed
           /\ run'[w].listed = run[w].listed /\ run'[w].records = run[w].records
           /\ run'[w].epoch \in Nat /\ run'[w].epoch = source[run'[w].folder].epoch
           /\ IsFiniteSet(run'[w].batch) /\ \A i \in run'[w].batch : Current(i)
           /\ \A f \in Folder, m \in Message :
                  Remaining(run[w], f, m) => Gone(f, m) \/ Remaining(run[w], f, m)'
<1> DEFINE old == run[w]
           named == {u \in old.uids : Cardinality({v \in old.uids : v <= u}) <= BatchSize}
           ItemOf(u) == [key |-> [folder |-> old.folder, epoch |-> old.epoch, uid |-> u],
                         msg |-> source[old.folder].mail[u]]
           fetched == {ItemOf(u) : u \in named \cap Held(old.folder)}
           r == [old EXCEPT !.at = "message", !.uids = @ \ named, !.batch = fetched]
<1>1. old \in Run /\ AtHand(old)
  BY DEF TypeOK, RunOK
<1>2. /\ old.at = "batch" /\ old.folder \in Folder /\ old.batch = {}
      /\ source[old.folder].epoch = old.epoch /\ old.epoch \in Nat
  BY <1>1 DEF FetchBatch, AtHand, Run
<1>3. run' = [run EXCEPT ![w] = r]
  BY DEF FetchBatch
<1>4. IsFiniteSet(fetched)
  <2>1. IsFiniteSet(named \cap Held(old.folder))
    BY <1>2, FS_Subset DEF TypeOK, SourceOK
  <2> DEFINE there == named \cap Held(old.folder)
             read == [u \in there |-> ItemOf(u)]
  <2> HIDE DEF named, ItemOf
  <2>2. read \in Surjection(there, fetched)
    BY DEF Surjection
  <2> QED BY <2>1, <2>2, FS_Surjection
<1> HIDE DEF fetched, named
<1>5. run'[w] = r
  BY <1>3, RunReplaced DEF TypeOK
<1>6. /\ r.at = "message" /\ r.batch = fetched /\ r.uids = old.uids \ named
      /\ r.task = old.task /\ r.failed = old.failed /\ r.listed = old.listed
      /\ r.folder = old.folder /\ r.epoch = old.epoch /\ r.records = old.records
  BY <1>1 DEF Run
<1> HIDE DEF r
<1>7. Hand(run[w]) = {} /\ Hand(run'[w]) = fetched
  BY <1>2, <1>5, <1>6 DEF Hand
<1>8. \A u \in Held(old.folder) : Current(ItemOf(u))
  BY <1>2 DEF Current
<1>9. ASSUME NEW f \in Folder, NEW m \in Message, Remaining(run[w], f, m)
      PROVE  Gone(f, m) \/ Remaining(run[w], f, m)'
  <2>1. /\ old.folder = f /\ old.uids # {}
        /\ \A u \in Held(f) : source[f].mail[u] = m => u \in old.uids
    BY <1>2, <1>7, <1>9 DEF Remaining
  <2>2. CASE \E u \in Held(f) : source[f].mail[u] = m /\ u \in named
    <3>1. PICK u \in Held(f) : source[f].mail[u] = m /\ u \in named
      BY <2>2
    <3>2. ItemOf(u) \in Hand(run'[w]) /\ ItemOf(u).key.folder = f /\ ItemOf(u).msg = m
      BY <1>7, <2>1, <3>1 DEF fetched
    <3> HIDE DEF ItemOf
    <3> QED BY <3>2 DEF Remaining, Hand
  <2>3. CASE (\A u \in Held(f) : source[f].mail[u] = m => u \notin named) /\ ~Gone(f, m)
    <3>1. \A u \in Held(f) : source[f].mail[u] = m => u \in r.uids
      BY <1>6, <2>1, <2>3
    <3>2. r.uids # {}
      BY <2>3, <3>1 DEF Gone
    <3> QED BY <1>5, <1>6, <2>1, <3>1, <3>2 DEF Remaining, Held
  <2> QED BY <2>2, <2>3
<1>10. \A i \in run'[w].batch : Current(i)
  BY <1>5, <1>6, <1>8 DEF fetched
<1> QED BY <1>2, <1>4, <1>5, <1>6, <1>9, <1>10

LEMMA OpenFolderIs ==
    ASSUME TypeOK, NEW w \in Worker, NEW g \in Folder, OpenFolder(w, g), run[w].batch = {},
           UNCHANGED source
    PROVE  /\ run[w].at = "folder" /\ run'[w].at = "batch" /\ run'[w].batch = {}
           /\ run'[w].task = run[w].task /\ run'[w].failed = run[w].failed
           /\ run'[w].records = run[w].records
           /\ run'[w].epoch \in Nat /\ run'[w].epoch = source[run'[w].folder].epoch
           /\ \A f \in Folder, m \in Message : ~Remaining(run[w], f, m)
           /\ \A f \in Folder, m \in Message : <<f, m>> \in run'[w].listed =>
                  <<f, m>> \in run[w].listed \/ Gone(f, m) \/ Remaining(run[w], f, m)'
<1> DEFINE found == run[w].listed \cup {<<g, source[g].mail[u]>> : u \in Held(g)}
           r == [run[w] EXCEPT !.at = "batch", !.folder = g, !.folders = @ \ {g},
                               !.epoch = source[g].epoch, !.uids = Held(g), !.listed = found]
<1>1. run[w] \in Run /\ run[w].at = "folder"
  BY DEF TypeOK, RunOK, OpenFolder
<1>2. run' = [run EXCEPT ![w] = r]
  BY DEF OpenFolder
<1> HIDE DEF found
<1>3. run'[w] = r
  BY <1>2, RunReplaced DEF TypeOK
<1>4. /\ r.at = "batch" /\ r.batch = {} /\ r.uids = Held(g) /\ r.folder = g
      /\ r.task = run[w].task /\ r.failed = run[w].failed /\ r.listed = found
      /\ r.epoch = source[g].epoch /\ r.records = run[w].records
  BY <1>1 DEF Run
<1> HIDE DEF r
<1>5. source[g].epoch \in Nat
  BY MailMembers, MaxEpochAssumption DEF TypeOK
<1>6. \A f \in Folder, m \in Message : ~Remaining(run[w], f, m)
  BY <1>1 DEF Remaining, Hand
<1>7. ASSUME NEW f \in Folder, NEW m \in Message, <<f, m>> \in found, <<f, m>> \notin run[w].listed
      PROVE  Gone(f, m) \/ Remaining(run[w], f, m)'
  <2>1. f = g
    BY <1>7 DEF found
  <2>2. Held(g) # {} => Remaining(run[w], f, m)'
    BY <1>3, <1>4, <2>1 DEF Remaining, Held
  <2>3. Held(g) = {} => Gone(f, m)
    BY <2>1 DEF Gone
  <2> QED BY <2>2, <2>3
<1> QED BY <1>1, <1>3, <1>4, <1>5, <1>6, <1>7

\* On to the next batch, the next folder, or the end.
LEMMA GotoIs ==
    ASSUME TypeOK, NEW w \in Worker, NEW at \in Step, Goto(w, at), run[w].batch = {},
           run[w].at \in {"folder", "batch", "message"},
           at = "batch" => run[w].at = "message",
           at # "batch" => run[w].at = "folder" \/ (run[w].at = "batch" /\ run[w].uids = {}),
           UNCHANGED source
    PROVE  /\ run'[w].at = at /\ run'[w].batch = {}
           /\ run'[w].task = run[w].task /\ run'[w].failed = run[w].failed
           /\ run'[w].listed = run[w].listed /\ run'[w].records = run[w].records
           /\ run'[w].folder = run[w].folder /\ run'[w].epoch = run[w].epoch
           /\ \A f \in Folder, m \in Message :
                  Remaining(run[w], f, m) => Remaining(run[w], f, m)'
<1> DEFINE r == [run[w] EXCEPT !.at = at]
<1>1. run[w] \in Run
  BY DEF TypeOK, RunOK
<1>2. run'[w] = r
  BY RunReplaced DEF TypeOK, Goto
<1>3. /\ r.at = at /\ r.batch = {} /\ r.uids = run[w].uids /\ r.folder = run[w].folder
      /\ r.task = run[w].task /\ r.failed = run[w].failed /\ r.listed = run[w].listed
      /\ r.epoch = run[w].epoch /\ r.records = run[w].records
  BY <1>1 DEF Run
<1> HIDE DEF r
<1>4. ASSUME NEW f \in Folder, NEW m \in Message, Remaining(run[w], f, m)
      PROVE  Remaining(run[w], f, m)'
  <2>1. run[w].at = "message" /\ at = "batch"
    BY <1>4 DEF Remaining, Hand
  <2> QED BY <1>2, <1>3, <1>4, <2>1 DEF Remaining, Hand, Held
<1> QED BY <1>2, <1>3, <1>4

LEMMA FetchBatchCover ==
    ASSUME TypeOK, NEW w \in Worker, Good(w), run[w].task = "migrate", FetchBatch(w),
           UNCHANGED source
    PROVE  Fetches(w) /\ Goes(w) /\ Tidy(w)'
<1>1. run[w].batch = {}
  BY DEF FetchBatch, Good, Tidy
<1>2. /\ run'[w].at = "message" /\ run'[w].task = "migrate" /\ run'[w].failed = run[w].failed
      /\ run'[w].listed = run[w].listed
      /\ run'[w].epoch \in Nat /\ run'[w].epoch = source[run'[w].folder].epoch
      /\ \A i \in run'[w].batch : Current(i)
      /\ \A f \in Folder, m \in Message :
             Remaining(run[w], f, m) => Gone(f, m) \/ Remaining(run[w], f, m)'
  BY <1>1, FetchBatchIs
<1>3. Fetches(w)
  BY <1>2 DEF Fetches, Hand
<1>4. Goes(w)
  BY <1>2 DEF Goes
<1>5. Tidy(w)'
  BY <1>2 DEF Tidy
<1> QED BY <1>3, <1>4, <1>5

LEMMA OpenFolderCover ==
    ASSUME TypeOK, KeepsDest, NEW w \in Worker, Good(w), run[w].task = "migrate",
           NEW g \in Folder, OpenFolder(w, g), UNCHANGED source
    PROVE  Fetches(w) /\ Good(w)'
<1>1. run[w].batch = {}
  BY DEF OpenFolder, Good, Tidy
<1>2. /\ run'[w].at = "batch" /\ run'[w].batch = {}
      /\ run'[w].task = "migrate" /\ run'[w].failed = run[w].failed
      /\ run'[w].epoch \in Nat /\ run'[w].epoch = source[run'[w].folder].epoch
      /\ \A f \in Folder, m \in Message : ~Remaining(run[w], f, m)
      /\ \A f \in Folder, m \in Message : <<f, m>> \in run'[w].listed =>
             <<f, m>> \in run[w].listed \/ Gone(f, m) \/ Remaining(run[w], f, m)'
  BY <1>1, OpenFolderIs
<1>3. Fetches(w)
  BY <1>2 DEF Fetches, Hand
<1>4. Tidy(w)'
  BY <1>2 DEF Tidy
<1>5. \A f \in Folder, m \in Message : Gone(f, m) => Gone(f, m)'
  BY DEF Gone, Held
<1>6. Covers(w)'
  BY <1>2, <1>5 DEF Covers, Good, KeepsDest
<1> QED BY <1>3, <1>4, <1>6 DEF Good

\* Steps between batches and folders.
LEMMA MoveOnCover ==
    ASSUME TypeOK, NEW w \in Worker, Good(w), run[w].task = "migrate",
           FolderDone(w) \/ BatchDone(w) \/ MigrationDone(w), UNCHANGED source
    PROVE  Fetches(w) /\ Goes(w) /\ Tidy(w)'
<1>1. run[w] \in Run /\ run[w].batch = {}
  BY DEF TypeOK, RunOK, Good, Tidy, FolderDone, BatchDone, MigrationDone, Migrating
<1>2. PICK at \in {"folder", "batch", "ok", "failed"} :
          /\ Goto(w, at) /\ run[w].at \in {"folder", "batch", "message"}
          /\ at = "batch" => run[w].at = "message"
          /\ at # "batch" => \/ run[w].at = "folder"
                             \/ run[w].at = "batch" /\ run[w].uids = {}
          /\ at = "ok" => run[w].failed = 0
  <2>1. FolderDone(w) => Goto(w, "folder") /\ run[w].at = "batch" /\ run[w].uids = {}
    BY DEF FolderDone
  <2>2. BatchDone(w) => Goto(w, "batch") /\ run[w].at = "message"
    BY DEF BatchDone
  <2>3. MigrationDone(w) => /\ run[w].at = "folder"
                            /\ Goto(w, "failed") \/ (Goto(w, "ok") /\ ~(run[w].failed > 0))
    BY DEF MigrationDone, Migrating
  <2>4. ~(run[w].failed > 0) => run[w].failed = 0
    BY <1>1 DEF Run
  <2> QED BY <2>1, <2>2, <2>3, <2>4
<1>3. /\ run'[w].at = at /\ run'[w].batch = {} /\ run'[w].task = "migrate"
      /\ run'[w].failed = run[w].failed /\ run'[w].listed = run[w].listed
      /\ run'[w].folder = run[w].folder /\ run'[w].epoch = run[w].epoch
      /\ \A f \in Folder, m \in Message : Remaining(run[w], f, m) => Remaining(run[w], f, m)'
  BY <1>1, <1>2, GotoIs DEF Step
<1>4. Fetches(w)
  BY <1>2, <1>3 DEF Fetches, Hand
<1>5. Tidy(w)'
  BY <1>2, <1>3 DEF Tidy, Good
<1>6. Goes(w)
  BY <1>3 DEF Goes
<1> QED BY <1>4, <1>5, <1>6

\* A message is taken out of the batch: into hand, or because it is there.
LEMMA TakenCover ==
    ASSUME TypeOK, NEW w \in Worker, Good(w), run[w].task = "migrate", run[w].at = "message",
           NEW item \in run[w].batch, NEW at \in {"message", "append"},
           run' = Taken(w, item, at), UNCHANGED source,
           at = "message" => InDest(item.key.folder, item.msg)'
    PROVE  Fetches(w) /\ Goes(w) /\ Tidy(w)'
<1> DEFINE r == TakenRun(w, item, at)
<1>1. run[w] \in Run /\ item \in Item /\ run' = [run EXCEPT ![w] = r]
  BY TakenIs DEF TypeOK, RunOK
<1>2. run'[w] = r
  BY <1>1, RunReplaced DEF TypeOK
<1>3. /\ r.at = at /\ r.batch = run[w].batch \ {item} /\ r.uids = run[w].uids
      /\ r.folder = run[w].folder /\ r.task = "migrate" /\ r.failed = run[w].failed
      /\ r.listed = run[w].listed /\ r.epoch = run[w].epoch
      /\ at = "append" => r.item = item
  BY <1>1 DEF Run, TakenRun
<1> HIDE DEF r
<1>4. Hand(run[w]) = run[w].batch
  BY DEF Hand
<1>5. Hand(run'[w]) = IF at = "append" THEN run[w].batch ELSE run[w].batch \ {item}
  BY <1>2, <1>3 DEF Hand
<1>6. Fetches(w)
  BY <1>4, <1>5 DEF Fetches
<1>7. Tidy(w)'
  BY <1>2, <1>3 DEF Tidy, Good
<1>8. ASSUME NEW f \in Folder, NEW m \in Message, Remaining(run[w], f, m)
      PROVE  InDest(f, m)' \/ Remaining(run[w], f, m)'
  <2>1. CASE at = "message" /\ item.key.folder = f /\ item.msg = m
    BY <2>1
  <2>2. CASE ~(at = "message" /\ item.key.folder = f /\ item.msg = m)
    <3>1. CASE \E i \in Hand(run[w]) : i.key.folder = f /\ i.msg = m
      <4>1. \E i \in Hand(run'[w]) : i.key.folder = f /\ i.msg = m
        BY <1>4, <1>5, <2>2, <3>1
      <4> QED BY <4>1 DEF Remaining
    <3>2. CASE ~\E i \in Hand(run[w]) : i.key.folder = f /\ i.msg = m
      BY <1>2, <1>3, <1>8, <3>2 DEF Remaining, Held
    <3> QED BY <3>1, <3>2
  <2> QED BY <2>1, <2>2
<1>9. Goes(w)
  BY <1>2, <1>3, <1>8 DEF Goes
<1> QED BY <1>6, <1>7, <1>9

\* The message at hand is put down: it is in the destination, or it failed.
LEMMA DroppedCover ==
    ASSUME TypeOK, NEW w \in Worker, Good(w), run[w].task = "migrate",
           run[w].at \in {"append", "record"}, NEW failed \in {0, 1},
           run' = Dropped(w, failed), UNCHANGED source,
           NEW g \in Folder, NEW n \in Message,
           g = run[w].item.key.folder, n = run[w].item.msg,
           failed = 0 => InDest(g, n)'
    PROVE  Fetches(w) /\ Goes(w) /\ Tidy(w)'
<1> DEFINE r == [run[w] EXCEPT !.at = "message", !.item = Nobody, !.failed = @ + failed]
<1>1. run[w] \in Run /\ run[w].failed \in Nat
  BY DEF TypeOK, RunOK, Run
<1>2. run'[w] = r
  <2>1. run' = [run EXCEPT ![w] = r]
    BY DEF Dropped
  <2> QED BY <2>1, RunReplaced DEF TypeOK
<1>3. /\ r.at = "message" /\ r.batch = run[w].batch /\ r.uids = run[w].uids
      /\ r.folder = run[w].folder /\ r.task = "migrate" /\ r.failed = run[w].failed + failed
      /\ r.listed = run[w].listed /\ r.epoch = run[w].epoch
  BY <1>1 DEF Run
<1> HIDE DEF r
<1>4. Hand(run'[w]) = run[w].batch /\ Hand(run[w]) = run[w].batch \cup {run[w].item}
  BY <1>2, <1>3 DEF Hand
<1>5. Fetches(w)
  BY <1>4 DEF Fetches
<1>6. Tidy(w)'
  BY <1>2, <1>3 DEF Tidy, Good
<1>7. r.failed = 0 => failed = 0 /\ run[w].failed = 0
  BY <1>1, <1>3
<1>8. ASSUME failed = 0, NEW f \in Folder, NEW m \in Message, Remaining(run[w], f, m)
      PROVE  InDest(f, m)' \/ Remaining(run[w], f, m)'
  <2>1. CASE \E i \in Hand(run[w]) : i.key.folder = f /\ i.msg = m
    <3>1. PICK i \in Hand(run[w]) : i.key.folder = f /\ i.msg = m
      BY <2>1
    <3>2. CASE i = run[w].item
      <4>1. f = g /\ m = n
        BY <3>1, <3>2
      <4> QED BY <1>8, <4>1
    <3>3. CASE i \in run[w].batch
      BY <1>4, <3>1, <3>3 DEF Remaining
    <3> QED BY <1>4, <3>2, <3>3
  <2>2. CASE ~\E i \in Hand(run[w]) : i.key.folder = f /\ i.msg = m
    BY <1>2, <1>3, <1>8, <2>2 DEF Remaining, Held
  <2> QED BY <2>1, <2>2
<1>9. Goes(w)
  BY <1>2, <1>3, <1>7, <1>8 DEF Goes
<1> QED BY <1>5, <1>6, <1>9

LEMMA MigrateCover ==
    ASSUME TypeOK, MapInv, KeysOK, KeepsDest, NEW w \in Worker, Good(w), Migrate(w),
           UNCHANGED source
    PROVE  Fetches(w) /\ Good(w)' /\ Records(w)
<1>1. run[w].task = "migrate"
  BY DEF Migrate, ConsiderMessage, CopyMessage, RecordCopy, MigrationDone, Migrating
<1>2. ASSUME Abort(w)
      PROVE  run'[w].task # "migrate"
  <2>1. run'[w] = Idle
    BY <1>2, RunReplaced DEF Abort, TypeOK
  <2> QED BY <2>1 DEF Idle
<1>3. CASE \E item \in run[w].batch : ConsiderMessage(w, item)
  <2>1. PICK item \in run[w].batch : ConsiderMessage(w, item)
    BY <1>3
  <2>2. run[w].at = "message" /\ item \in Item /\ UNCHANGED dest
    BY <2>1, TakenIs DEF ConsiderMessage, Migrating, TypeOK
  <2>3. item.key.folder \in Folder /\ item.msg \in Message
    BY <2>2, ItemFields
  <2>4. IsMigrated(item.key) => InDest(item.key.folder, item.msg)
    <3>1. SUFFICES ASSUME NEW row \in uidMap, row.key = item.key
                   PROVE  InDest(item.key.folder, item.msg)
      BY DEF IsMigrated
    <3>2. row \in Item /\ IsKnown(row) /\ IsKnown(item)
      BY <1>1, <2>2 DEF TypeOK, MapOK, IsKnown, Hand
    <3>3. row.msg = item.msg
      BY <2>2, <3>1, <3>2 DEF KeysOK
    <3> QED BY <3>1, <3>3 DEF MapInv, MapIsTrue
  <2>5. FindByMessageId(item.key.folder, item.msg) => InDest(item.key.folder, item.msg)
    BY <2>3 DEF FindByMessageId, InDest
  <2>6. item = [key |-> item.key, msg |-> item.msg] /\ item \in Hand(run[w])
    BY <2>2 DEF Item, Hand
  <2>7. Records(w)
    BY <1>1, <2>1, <2>6 DEF ConsiderMessage, RecordMigration, Records
  <2>8. CASE run' = Taken(w, item, "message") /\ InDest(item.key.folder, item.msg)
    <3>1. InDest(item.key.folder, item.msg)'
      BY <2>3, <2>8 DEF KeepsDest
    <3> QED BY <1>1, <2>2, <2>7, <2>8, <3>1, TakenCover, GoesCovers DEF Good
  <2>9. CASE run' = Taken(w, item, "append")
    BY <1>1, <2>2, <2>7, <2>9, TakenCover, GoesCovers DEF Good
  <2>10. CASE Abort(w)
    BY <1>2, <2>7, <2>10, OtherTask
  <2> QED BY <2>1, <2>4, <2>5, <2>8, <2>9, <2>10 DEF ConsiderMessage
<1>4. CASE CopyMessage(w)
  <2>1. /\ run[w].at = "append" /\ UNCHANGED uidMap
        /\ AppendMessage(w, run[w].item.key.folder, run[w].item.msg, "record")
    BY <1>4 DEF CopyMessage, Migrating
  <2>2. run[w].item \in Item
    BY <2>1 DEF TypeOK, RunOK, AtHand
  <2>3. PICK g \in Folder, n \in Message : g = run[w].item.key.folder /\ n = run[w].item.msg
    BY <2>2, ItemFields
  <2>4. Records(w)
    BY <2>1 DEF Records
  <2>5. CASE Goto(w, "record")
    <3> DEFINE r == [run[w] EXCEPT !.at = "record"]
    <3>1. run'[w] = r
      BY <2>5, RunReplaced DEF Goto, TypeOK
    <3>2. /\ r.at = "record" /\ r.batch = run[w].batch /\ r.uids = run[w].uids
          /\ r.folder = run[w].folder /\ r.task = "migrate" /\ r.failed = run[w].failed
          /\ r.listed = run[w].listed /\ r.epoch = run[w].epoch /\ r.item = run[w].item
      BY <1>1 DEF Run, RunOK, TypeOK
    <3> HIDE DEF r
    <3>3. Hand(run'[w]) = Hand(run[w])
      BY <2>1, <3>1, <3>2 DEF Hand
    <3>4. Fetches(w)
      BY <1>1, <3>3 DEF Fetches
    <3>5. Tidy(w)'
      BY <1>1, <2>1, <3>1, <3>2 DEF Tidy, Good
    <3>6. \A f \in Folder, m \in Message : Remaining(run[w], f, m) => Remaining(run[w], f, m)'
      BY <2>1, <3>1, <3>2, <3>3 DEF Remaining, Held
    <3>7. Goes(w)
      BY <1>1, <3>1, <3>2, <3>6 DEF Goes
    <3> QED BY <2>4, <3>4, <3>5, <3>7, GoesCovers DEF Good
  <2>6. CASE run' = Dropped(w, 1)
    BY <1>1, <2>1, <2>3, <2>4, <2>6, DroppedCover, GoesCovers DEF Good
  <2> QED BY <2>1, <2>5, <2>6 DEF AppendMessage
<1>5. CASE RecordCopy(w)
  <2>1. run[w].at = "record" /\ UNCHANGED dest
    BY <1>5 DEF RecordCopy, Migrating
  <2>2. run[w].item \in Item
    BY <2>1 DEF TypeOK, RunOK, AtHand
  <2>3. PICK g \in Folder, n \in Message : g = run[w].item.key.folder /\ n = run[w].item.msg
    BY <2>2, ItemFields
  <2>4. InDest(g, n)'
    BY <2>1, <2>3 DEF MapInv, RecordsCopies, KeepsDest
  <2>5. Records(w)
    <3>1. run[w].item = [key |-> run[w].item.key, msg |-> run[w].item.msg]
      BY <2>2 DEF Item
    <3>2. run[w].item \in Hand(run[w])
      BY <2>1 DEF Hand
    <3> QED BY <1>1, <1>5, <3>1, <3>2 DEF RecordCopy, RecordMigration, Records
  <2>6. CASE run' = Dropped(w, 0)
    BY <1>1, <2>1, <2>3, <2>4, <2>5, <2>6, DroppedCover, GoesCovers DEF Good
  <2>7. CASE Abort(w)
    BY <1>2, <2>5, <2>7, OtherTask
  <2> QED BY <1>5, <2>6, <2>7 DEF RecordCopy
<1>6. CASE MigrationDone(w) /\ UNCHANGED uidMap
  BY <1>1, <1>6, MoveOnCover, GoesCovers DEF Good, Records
<1> QED BY <1>3, <1>4, <1>5, <1>6 DEF Migrate

LEMMA ReadCover ==
    ASSUME TypeOK, KeepsDest, NEW w \in Worker, Good(w), Read(w), run[w].task = "migrate",
           UNCHANGED source
    PROVE  Fetches(w) /\ Good(w)'
<1>1. CASE \E f \in Folder : OpenFolder(w, f)
  BY <1>1, OpenFolderCover
<1>2. CASE FetchBatch(w)
  BY <1>2, FetchBatchCover, GoesCovers DEF Good
<1>3. CASE FetchFails(w)
  <2>1. run'[w] = Idle
    BY <1>3, RunReplaced DEF FetchFails, Abort, TypeOK
  <2>2. run'[w].task # "migrate"
    BY <2>1 DEF Idle
  <2> QED BY <2>2, OtherTask
<1>4. CASE FolderDone(w) \/ BatchDone(w)
  BY <1>4, MoveOnCover, GoesCovers DEF Good
<1> QED BY <1>1, <1>2, <1>3, <1>4 DEF Read

\* A migration starts with nothing listed.
LEMMA StartCover ==
    ASSUME TypeOK, NEW w \in Worker, Start(w)
    PROVE  Fetches(w) /\ Good(w)'
<1>1. CASE StartMigration(w, Folder)
  <2>1. run'[w] = [Idle EXCEPT !.at = "folder", !.task = "migrate", !.folders = Folder]
    BY <1>1, RunReplaced DEF StartMigration, TypeOK
  <2> QED BY <2>1 DEF Idle, Fetches, Hand, Good, Covers, Tidy
<1>2. CASE StartExport(w, Folder)
  <2>1. run'[w] = [Idle EXCEPT !.at = "folder", !.task = "export", !.folders = Folder]
    BY <1>2, RunReplaced DEF StartExport, TypeOK
  <2>2. run'[w].task # "migrate"
    BY <2>1 DEF Idle
  <2> QED BY <2>2, OtherTask
<1>3. CASE StartRestore(w, Folder)
  <2>1. run'[w] = [Idle EXCEPT !.at = "message", !.task = "restore", !.folders = Folder,
                               !.batch = PlanRestore(Folder)]
    BY <1>3, RunReplaced DEF StartRestore, TypeOK
  <2>2. run'[w].task # "migrate"
    BY <2>1 DEF Idle
  <2> QED BY <2>2, OtherTask
<1> QED BY <1>1, <1>2, <1>3 DEF Start

\* No step turns a command into another.
Same(w) == run'[w].task \in {run[w].task, "none"}

LEMMA SameAfter ==
    ASSUME RunOK, NEW w \in Worker
    PROVE  /\ Abort(w) => Same(w)
           /\ \A at : Goto(w, at) => Same(w)
           /\ \A failed : run' = Dropped(w, failed) => Same(w)
<1>1. Abort(w) => Same(w)
  BY RunReplaced DEF Abort, Idle, Same
<1>2. ASSUME NEW at, Goto(w, at) PROVE Same(w)
  <2>1. run' = [run EXCEPT ![w] = [run[w] EXCEPT !.at = at]]
    BY <1>2 DEF Goto
  <2> QED BY <2>1 DEF RunOK, Run, Same
<1>3. ASSUME NEW failed, run' = Dropped(w, failed) PROVE Same(w)
  <2> DEFINE r == [run[w] EXCEPT !.at = "message", !.item = Nobody, !.failed = @ + failed]
  <2>1. run' = [run EXCEPT ![w] = r]
    BY <1>3 DEF Dropped
  <2>2. r.task = run[w].task
    BY DEF RunOK, Run
  <2> HIDE DEF r
  <2> QED BY <2>1, <2>2 DEF RunOK, Same
<1> QED BY <1>1, <1>2, <1>3

LEMMA SameTaken ==
    ASSUME RunOK, NEW w \in Worker, NEW item \in run[w].batch, run[w].at = "message"
    PROVE  /\ \A at \in {"message", "append", "note", "pending"} : run' = Taken(w, item, at) => Same(w)
           /\ run' = [Taken(w, item, "message") EXCEPT ![w].failed = @ + 1] => Same(w)
           /\ run' = [Taken(w, item, "message") EXCEPT ![w].records = @ \cup {item}] => Same(w)
<1>1. \A at \in {"message", "append", "note", "pending"} :
          /\ TakenRun(w, item, at) \in Run
          /\ Taken(w, item, at) = [run EXCEPT ![w] = TakenRun(w, item, at)]
  BY TakenIs
<1>2. \A at : TakenRun(w, item, at).task = run[w].task
  BY DEF TakenRun, RunOK, Run
<1> DEFINE t == TakenRun(w, item, "message")
<1>3. \A at \in {"message", "append", "note", "pending"} : run' = Taken(w, item, at) => Same(w)
  BY <1>1, <1>2 DEF RunOK, Same
<1>4. t \in Run /\ Taken(w, item, "message") = [run EXCEPT ![w] = t] /\ t.task = run[w].task
  BY <1>1, <1>2
<1> HIDE DEF t
<1>5. ASSUME run' = [Taken(w, item, "message") EXCEPT ![w].failed = @ + 1] PROVE Same(w)
  <2>1. run' = [run EXCEPT ![w] = [t EXCEPT !.failed = @ + 1]]
    BY <1>4, <1>5 DEF RunOK
  <2>2. [t EXCEPT !.failed = @ + 1].task = run[w].task
    BY <1>4 DEF Run
  <2> QED BY <2>1, <2>2 DEF RunOK, Same
<1>6. ASSUME run' = [Taken(w, item, "message") EXCEPT ![w].records = @ \cup {item}] PROVE Same(w)
  <2>1. run' = [run EXCEPT ![w] = [t EXCEPT !.records = @ \cup {item}]]
    BY <1>4, <1>6 DEF RunOK
  <2>2. [t EXCEPT !.records = @ \cup {item}].task = run[w].task
    BY <1>4 DEF Run
  <2> QED BY <2>1, <2>2 DEF RunOK, Same
<1> QED BY <1>3, <1>5, <1>6

LEMMA ReadSame == ASSUME RunOK, NEW w \in Worker, Read(w) PROVE Same(w)
<1>1. CASE \E f \in Folder : OpenFolder(w, f)
  BY <1>1 DEF OpenFolder, RunOK, Run, Same
<1>2. CASE FetchBatch(w)
  BY <1>2 DEF FetchBatch, RunOK, Run, Same
<1>3. CASE FetchFails(w) \/ FolderDone(w) \/ BatchDone(w)
  BY <1>3, SameAfter DEF FetchFails, FolderDone, BatchDone
<1> QED BY <1>1, <1>2, <1>3 DEF Read

LEMMA ExportSame == ASSUME RunOK, NEW w \in Worker, Export(w) PROVE Same(w)
<1>1. ASSUME NEW item \in run[w].batch, WriteMessageFile(w, item) PROVE Same(w)
  BY <1>1, SameTaken DEF WriteMessageFile, Doing
<1>2. CASE WriteManifest(w)
  BY <1>2, SameAfter DEF WriteManifest
<1> QED BY <1>1, <1>2 DEF Export

LEMMA RestoreSame == ASSUME RunOK, NEW w \in Worker, Restore(w) PROVE Same(w)
<1>1. ASSUME NEW record \in run[w].batch, ConsiderRecord(w, record) PROVE Same(w)
  <2>1. run[w].at = "message"
    BY <1>1 DEF ConsiderRecord, Doing
  <2>2. Intact(record) /\ run' = ReadFile(w, record) => Same(w)
    BY <2>1, ReadFileIs, SameTaken
  <2> QED BY <1>1, <2>1, <2>2, SameTaken, SameAfter DEF ConsiderRecord
<1>2. CASE NotePresent(w) \/ PersistDone(w)
  BY <1>2, SameAfter DEF NotePresent, PersistDone, PersistState
<1>3. CASE PersistPending(w)
  BY <1>3, SameAfter DEF PersistPending, PersistState, Goto
<1>4. CASE RestoreMessage(w)
  BY <1>4, SameAfter DEF RestoreMessage, AppendMessage
<1>5. CASE RestoreDone(w)
  BY <1>5, SameAfter DEF RestoreDone
<1> QED BY <1>1, <1>2, <1>3, <1>4, <1>5 DEF Restore

-----------------------------------------------------------------------------
(* The invariant.                                                          *)

LEMMA RunCover ==
    ASSUME TypeOK, MapInv, KeysOK, KeepsDest, NEW w \in Worker, Good(w), UNCHANGED source,
           Start(w) \/ Proceed(w) \/ Exit(w)
    PROVE  Fetches(w) /\ Good(w)' /\ Records(w)
<1> USE DEF TypeOK
<1>1. CASE Migrate(w)
  BY <1>1, MigrateCover
<1>2. CASE Start(w)
  BY <1>2, StartCover DEF Start, Records
<1>3. CASE Read(w)
  <2>1. Records(w)
    BY <1>3 DEF Read, Records
  <2>2. CASE run[w].task = "migrate"
    BY <1>3, <2>1, <2>2, ReadCover
  <2>3. CASE run[w].task # "migrate"
    BY <1>3, <2>1, <2>3, ReadSame, OtherTask DEF Same
  <2> QED BY <2>2, <2>3
<1>4. CASE Export(w) \/ Restore(w) \/ Exit(w)
  <2>1. Records(w)
    BY <1>4 DEF Export, Restore, Exit, Records
  <2>2. run'[w].task # "migrate"
    <3>1. CASE Exit(w)
      <4>1. run'[w] = Idle
        BY <3>1, RunReplaced DEF Exit, Crash, Abort
      <4> QED BY <4>1 DEF Idle
    <3>2. CASE Export(w)
      <4>1. run[w].task = "export"
        BY <3>2 DEF Export, WriteMessageFile, WriteManifest, Doing
      <4> QED BY <3>2, <4>1, ExportSame DEF Same
    <3>3. CASE Restore(w)
      <4>1. run[w].task = "restore"
        BY <3>3 DEF Restore, ConsiderRecord, NotePresent, PersistPending, RestoreMessage,
                    PersistDone, PersistState, RestoreDone, Doing
      <4> QED BY <3>3, <4>1, RestoreSame DEF Same
    <3> QED BY <1>4, <3>1, <3>2, <3>3
  <2> QED BY <2>1, <2>2, OtherTask
<1> QED BY <1>1, <1>2, <1>3, <1>4 DEF Proceed

LEMMA CoverStep ==
    ASSUME TypeOK, MapInv, CoverInv, [Next]_vars
    PROVE  CoverInv'
<1>1. KeepsDest
  <2>1. ASSUME NEW f \in Folder, NEW m \in Message, InDest(f, m)
        PROVE  InDest(f, m)'
    BY <2>1, NextTypeOK, InDestStays DEF TypeOK
  <2> QED BY <2>1 DEF KeepsDest
<1>2. CASE Owner
  BY <1>2, OwnerCover
<1>3. CASE Disk \/ UNCHANGED vars
  <2>1. UNCHANGED <<source, dest, run, uidMap>>
    BY <1>3 DEF Disk, vars
  <2> QED BY <2>1 DEF CoverInv, KeysOK, IsKnown, Faithful, Current, Hand, Held, Covers, Tidy,
                      InDest, Gone, Remaining
<1>4. ASSUME NEW w \in Worker, Start(w) \/ Proceed(w) \/ Exit(w)
      PROVE  CoverInv'
  <2>1. UNCHANGED source /\ \A v \in Worker \ {w} : run'[v] = run[v]
    <3>1. Advance(w)
      BY <1>4, StartAdvance, ReadAdvance, MigrateAdvance, ExportAdvance, RestoreAdvance,
         ExitAdvance DEF Proceed, TypeOK
    <3> QED BY <1>4, <3>1 DEF Advance, Start, Proceed, Read, Migrate, Export, Restore, Exit
  <2>2. Fetches(w) /\ Good(w)' /\ Records(w)
    BY <1>1, <1>4, <2>1, RunCover DEF CoverInv, Good
  <2>3. KeysOK'
    BY <2>1, <2>2, KeysStep DEF CoverInv
  <2>4. ASSUME NEW v \in Worker \ {w} PROVE Covers(v)' /\ Tidy(v)'
    <3>1. Tidy(v)'
      BY <2>1 DEF CoverInv, Tidy
    <3>2. ASSUME NEW f \in Folder, NEW m \in Message
          PROVE  /\ Gone(f, m) => Gone(f, m)'
                 /\ Remaining(run[v], f, m) => Remaining(run[v], f, m)'
      BY <2>1 DEF Gone, Remaining, Held
    <3> QED BY <1>1, <2>1, <3>1, <3>2 DEF CoverInv, Covers, KeepsDest
  <2> QED BY <2>2, <2>3, <2>4 DEF CoverInv, Good
<1> QED BY <1>2, <1>3, <1>4 DEF Next

\* A migration that reports success has left nothing behind: every message its
\* listings found and the owner did not remove is in the destination, whoever
\* else copies and whatever failed before (crates/cli/src/commands/migrate.rs, run).
THEOREM NothingLeftBehind == Spec => []MigrationCovers
<1>1. Init => MapInv /\ CoverInv
  BY DEF Init, Idle, MapInv, MapIsTrue, RecordsCopies, CoverInv, KeysOK, IsKnown, Hand, Covers, Tidy
<1>2. TypeOK /\ MapInv /\ CoverInv /\ [Next]_vars => MapInv' /\ CoverInv'
  BY MapInvStep, CoverStep
<1>3. TypeOK /\ CoverInv => MigrationCovers
  <2> SUFFICES ASSUME CoverInv, NEW w \in Worker, run[w].task = "migrate", run[w].at = "ok",
                      NEW f \in Folder, NEW m \in Message, <<f, m>> \in run[w].listed
               PROVE  InDest(f, m) \/ Gone(f, m)
    BY DEF MigrationCovers, Ended, Gone
  <2>1. run[w].batch = {} /\ run[w].failed = 0
    BY DEF CoverInv, Tidy
  <2>2. ~Remaining(run[w], f, m)
    BY <2>1 DEF Remaining, Hand
  <2> QED BY <2>1, <2>2 DEF CoverInv, Covers
<1> QED BY <1>1, <1>2, <1>3, TypeCorrect, PTL DEF Spec
-----------------------------------------------------------------------------
(* What an export has written.                                             *)

Archived == IF manifest = Nobody THEN {} ELSE manifest
Has(records, f, m) == \E record \in records : record.key.folder = f /\ record.msg = m

\* A key in the manifest, in an export's records or in its batch still names
\* the same message, or no message.
Saved(r) == r.batch \cup r.records
IsSaved(i) == i \in Archived \/ \E w \in Worker : run[w].task = "export" /\ i \in Saved(run[w])

SavedKeys ==
    \A i \in Item : IsSaved(i) =>
        Faithful(i) /\ \A j \in Item : IsSaved(j) /\ i.key = j.key => i.msg = j.msg

\* Only one export ever writes a manifest.
OneExport ==
    /\ ~created => manifest = Nobody
    /\ \A w \in Worker : run[w].task = "export" =>
           /\ created /\ manifest = Nobody
           /\ \A v \in Worker : run[v].task = "export" => v = w

Exports(w) ==
    run[w].task = "export" =>
        /\ run[w].at \in {"folder", "batch", "message"}
        /\ run[w].at # "message" => run[w].batch = {}
        /\ run[w].at # "folder" => run[w].epoch <= source[run[w].folder].epoch
        /\ IsFiniteSet(run[w].batch) /\ IsFiniteSet(run[w].records)

\* As long as no file failed, what was listed has a record, is gone, or is
\* still to come.
Gathers(w) ==
    run[w].task = "export" /\ run[w].failed = 0 =>
        \A f \in Folder, m \in Message : <<f, m>> \in run[w].listed =>
            Has(run[w].records, f, m) \/ Gone(f, m) \/ Remaining(run[w], f, m)

Complete ==
    manifest # Nobody =>
        /\ IsFiniteSet(manifest)
        /\ \A f \in Folder, m \in Message : <<f, m>> \in exported =>
               Has(manifest, f, m) \/ Gone(f, m)

ExportInv == SavedKeys /\ OneExport /\ Complete /\ \A w \in Worker : Exports(w) /\ Gathers(w)

\* What an export reads it has just seen in the source.
Saves(w) == \A i \in Saved(run'[w]) : i \in Saved(run[w]) \/ Current(i)

LEMMA SavedKeysStep ==
    ASSUME SavedKeys, UNCHANGED source,
           \A i \in Item : IsSaved(i)' => IsSaved(i) \/ Current(i)
    PROVE  SavedKeys'
<1>1. \A i \in Item : /\ Faithful(i)' <=> Faithful(i)
                      /\ Current(i) => i.key.epoch = source[i.key.folder].epoch
  BY DEF Faithful, Current, Held
<1>2. ASSUME NEW i \in Item, Current(i) PROVE Faithful(i)
  <2>1. i.key.epoch \in Nat
    BY MaxEpochAssumption DEF Item, Key
  <2> QED BY <1>2, <2>1 DEF Current, Faithful
<1>3. ASSUME NEW i \in Item, NEW j \in Item, i.key = j.key,
             IsSaved(i) \/ Current(i), IsSaved(j) \/ Current(j)
      PROVE  i.msg = j.msg
  <2>1. (IsSaved(i) => Faithful(i)) /\ (IsSaved(j) => Faithful(j))
    BY DEF SavedKeys
  <2>2. CASE Current(i) \/ Current(j)
    BY <1>3, <2>1, <2>2 DEF Faithful, Current
  <2>3. CASE IsSaved(i) /\ IsSaved(j)
    BY <1>3, <2>3 DEF SavedKeys
  <2> QED BY <1>3, <2>2, <2>3
<1> QED BY <1>1, <1>2, <1>3 DEF SavedKeys

\* A step of an export that keeps what it has.
GathersOn(w) ==
    /\ run'[w].failed = 0 => run[w].failed = 0
    /\ run[w].records \subseteq run'[w].records
    /\ \A f \in Folder, m \in Message : <<f, m>> \in run'[w].listed =>
           <<f, m>> \in run[w].listed \/ Gone(f, m) \/ Remaining(run[w], f, m)'
    /\ run'[w].failed = 0 => \A f \in Folder, m \in Message : Remaining(run[w], f, m) =>
           Has(run'[w].records, f, m) \/ Gone(f, m) \/ Remaining(run[w], f, m)'

LEMMA GathersOnGathers ==
    ASSUME NEW w \in Worker, UNCHANGED source, run[w].task = "export", Gathers(w), GathersOn(w)
    PROVE  Gathers(w)'
<1> SUFFICES ASSUME run'[w].failed = 0, NEW f \in Folder, NEW m \in Message,
                    <<f, m>> \in run'[w].listed
             PROVE  Has(run'[w].records, f, m) \/ Gone(f, m)' \/ Remaining(run[w], f, m)'
  BY DEF Gathers, Has
<1>1. Gone(f, m) => Gone(f, m)'
  BY DEF Gone, Held
<1>2. CASE <<f, m>> \in run[w].listed
  <2>1. Has(run[w].records, f, m) \/ Gone(f, m) \/ Remaining(run[w], f, m)
    BY <1>2 DEF Gathers, GathersOn
  <2>2. Has(run[w].records, f, m) => Has(run'[w].records, f, m)
    BY DEF GathersOn, Has
  <2> QED BY <1>1, <2>1, <2>2 DEF GathersOn
<1>3. CASE <<f, m>> \notin run[w].listed
  BY <1>1, <1>3 DEF GathersOn
<1> QED BY <1>2, <1>3

LEMMA ReadGathers ==
    ASSUME TypeOK, NEW w \in Worker, Exports(w), Gathers(w), run[w].task = "export",
           run'[w].task = "export", Read(w), UNCHANGED source
    PROVE  Exports(w)' /\ Gathers(w)' /\ Saves(w)
<1>1. run[w] \in Run /\ AtHand(run[w])
  BY DEF TypeOK, RunOK
<1>2. CASE \E f \in Folder : OpenFolder(w, f)
  <2>1. PICK g \in Folder : OpenFolder(w, g)
    BY <1>2
  <2>2. run[w].batch = {}
    BY <2>1 DEF OpenFolder, Exports
  <2>3. /\ run'[w].at = "batch" /\ run'[w].batch = {}
        /\ run'[w].failed = run[w].failed /\ run'[w].records = run[w].records
        /\ run'[w].epoch \in Nat /\ run'[w].epoch = source[run'[w].folder].epoch
        /\ \A f \in Folder, m \in Message : ~Remaining(run[w], f, m)
        /\ \A f \in Folder, m \in Message : <<f, m>> \in run'[w].listed =>
               <<f, m>> \in run[w].listed \/ Gone(f, m) \/ Remaining(run[w], f, m)'
    BY <2>1, <2>2, OpenFolderIs
  <2>4. GathersOn(w)
    BY <2>3 DEF GathersOn
  <2>5. Exports(w)'
    BY <2>3, FS_EmptySet DEF Exports
  <2>6. Saves(w)
    BY <2>3 DEF Saves, Saved
  <2> QED BY <2>4, <2>5, <2>6, GathersOnGathers
<1>3. CASE FetchBatch(w)
  <2>1. run[w].batch = {}
    BY <1>3 DEF FetchBatch, Exports
  <2>2. /\ run'[w].at = "message"
        /\ run'[w].failed = run[w].failed
        /\ run'[w].listed = run[w].listed /\ run'[w].records = run[w].records
        /\ run'[w].epoch \in Nat /\ run'[w].epoch = source[run'[w].folder].epoch
        /\ IsFiniteSet(run'[w].batch) /\ \A i \in run'[w].batch : Current(i)
        /\ \A f \in Folder, m \in Message :
               Remaining(run[w], f, m) => Gone(f, m) \/ Remaining(run[w], f, m)'
    BY <1>3, <2>1, FetchBatchIs
  <2>3. GathersOn(w)
    BY <2>2 DEF GathersOn
  <2>4. Exports(w)'
    BY <2>2 DEF Exports
  <2>5. Saves(w)
    BY <2>2 DEF Saves, Saved
  <2> QED BY <2>3, <2>4, <2>5, GathersOnGathers
<1>4. CASE FetchFails(w)
  <2>1. run'[w] = Idle
    BY <1>4, RunReplaced DEF FetchFails, Abort, TypeOK
  <2> QED BY <2>1 DEF Idle
<1>5. CASE FolderDone(w) \/ BatchDone(w)
  <2>1. run[w].batch = {}
    BY <1>5 DEF FolderDone, BatchDone, Exports
  <2>2. PICK at \in {"folder", "batch"} :
            /\ Goto(w, at) /\ run[w].at \in {"batch", "message"}
            /\ at = "batch" => run[w].at = "message"
            /\ at # "batch" => run[w].at = "batch" /\ run[w].uids = {}
    BY <1>5 DEF FolderDone, BatchDone
  <2>3. /\ run'[w].at = at /\ run'[w].batch = {}
        /\ run'[w].failed = run[w].failed
        /\ run'[w].listed = run[w].listed /\ run'[w].records = run[w].records
        /\ run'[w].folder = run[w].folder /\ run'[w].epoch = run[w].epoch
        /\ \A f \in Folder, m \in Message : Remaining(run[w], f, m) => Remaining(run[w], f, m)'
    BY <2>1, <2>2, GotoIs DEF Step
  <2>4. GathersOn(w)
    BY <2>3 DEF GathersOn
  <2>5. Exports(w)'
    BY <2>2, <2>3, FS_EmptySet DEF Exports
  <2>6. Saves(w)
    BY <2>3 DEF Saves, Saved
  <2> QED BY <2>4, <2>5, <2>6, GathersOnGathers
<1> QED BY <1>2, <1>3, <1>4, <1>5 DEF Read

\* A message whose file is written gets its record; one whose file fails is counted.
LEMMA WriteGathers ==
    ASSUME TypeOK, NEW w \in Worker, Exports(w), Gathers(w), run[w].task = "export",
           NEW item \in run[w].batch, WriteMessageFile(w, item), UNCHANGED source
    PROVE  Exports(w)' /\ Gathers(w)' /\ Saves(w)
<1>1. run[w] \in Run /\ run[w].at = "message"
  BY DEF TypeOK, RunOK, WriteMessageFile, Doing
<1> DEFINE t == TakenRun(w, item, "message")
<1>2. t \in Run /\ Taken(w, item, "message") = [run EXCEPT ![w] = t]
  BY <1>1, TakenIs DEF TypeOK
<1>3. /\ t.at = "message" /\ t.batch = run[w].batch \ {item} /\ t.uids = run[w].uids
      /\ t.folder = run[w].folder /\ t.task = "export" /\ t.failed = run[w].failed
      /\ t.listed = run[w].listed /\ t.epoch = run[w].epoch /\ t.records = run[w].records
  BY <1>1 DEF Run, TakenRun
<1> HIDE DEF t
<1>4. PICK failed \in Nat, records \in SUBSET Item :
          /\ run' = [run EXCEPT ![w] = [t EXCEPT !.failed = failed, !.records = records]]
          /\ \/ failed = run[w].failed /\ records = run[w].records \cup {item}
             \/ failed = run[w].failed + 1 /\ records = run[w].records
  <2>1. /\ item \in Item /\ run[w].records \in SUBSET Item
        /\ run[w].failed \in Nat /\ run[w].failed + 1 \in Nat
    BY <1>1, TakenIs DEF TypeOK, Run
  <2>2. CASE run' = [Taken(w, item, "message") EXCEPT ![w].records = @ \cup {item}]
    <3>1. run' = [run EXCEPT ![w] = [t EXCEPT !.failed = t.failed, !.records = t.records \cup {item}]]
      BY <1>2, <2>2 DEF TypeOK, RunOK, Run
    <3> QED BY <1>3, <2>1, <3>1
  <2>3. CASE run' = [Taken(w, item, "message") EXCEPT ![w].failed = @ + 1]
    <3>1. run' = [run EXCEPT ![w] = [t EXCEPT !.failed = t.failed + 1, !.records = t.records]]
      BY <1>2, <2>3 DEF TypeOK, RunOK, Run
    <3>2. t.failed + 1 = run[w].failed + 1 /\ t.records = run[w].records
      BY <1>3
    <3> QED BY <2>1, <3>1, <3>2, Zenon
  <2> QED BY <2>2, <2>3 DEF WriteMessageFile
<1> DEFINE r == [t EXCEPT !.failed = failed, !.records = records]
<1>5. run'[w] = r
  BY <1>4, RunReplaced DEF TypeOK
<1>6. /\ r.at = "message" /\ r.batch = run[w].batch \ {item} /\ r.uids = run[w].uids
      /\ r.folder = run[w].folder /\ r.task = "export" /\ r.failed = failed
      /\ r.listed = run[w].listed /\ r.epoch = run[w].epoch /\ r.records = records
  BY <1>2, <1>3 DEF Run
<1> HIDE DEF r
<1>7. run[w].records \subseteq records /\ records \subseteq run[w].records \cup {item}
  BY <1>4
<1>8. failed = 0 => run[w].failed = 0 /\ item \in records
  <2>1. run[w].failed \in Nat
    BY <1>1 DEF Run
  <2> QED BY <1>4, <2>1
<1>9. ASSUME failed = 0, NEW f \in Folder, NEW m \in Message, Remaining(run[w], f, m)
      PROVE  Has(records, f, m) \/ Remaining(run[w], f, m)'
  <2>1. CASE item.key.folder = f /\ item.msg = m
    BY <1>8, <1>9, <2>1 DEF Has
  <2>2. CASE ~(item.key.folder = f /\ item.msg = m)
    <3>1. CASE \E i \in run[w].batch : i.key.folder = f /\ i.msg = m
      <4>1. \E i \in run'[w].batch : i.key.folder = f /\ i.msg = m
        BY <1>5, <1>6, <2>2, <3>1
      <4> QED BY <4>1 DEF Remaining, Hand
    <3>2. CASE ~\E i \in run[w].batch : i.key.folder = f /\ i.msg = m
      BY <1>1, <1>5, <1>6, <1>9, <3>2 DEF Remaining, Hand, Held
    <3> QED BY <3>1, <3>2
  <2> QED BY <2>1, <2>2
<1>10. GathersOn(w)
  BY <1>5, <1>6, <1>7, <1>8, <1>9 DEF GathersOn
<1>11. Exports(w)'
  <2>1. IsFiniteSet(run[w].batch \ {item})
    BY <1>1, FS_RemoveElement DEF Exports
  <2>2. IsFiniteSet(records)
    <3>1. IsFiniteSet(run[w].records \cup {item})
      BY FS_AddElement DEF Exports
    <3> QED BY <1>7, <3>1, FS_Subset
  <2> QED BY <1>1, <1>5, <1>6, <2>1, <2>2 DEF Exports
<1>12. Saves(w)
  BY <1>5, <1>6, <1>7 DEF Saves, Saved
<1> QED BY <1>10, <1>11, <1>12, GathersOnGathers

LEMMA MigrateSame == ASSUME RunOK, NEW w \in Worker, Migrate(w) PROVE Same(w)
<1>1. ASSUME NEW item \in run[w].batch, ConsiderMessage(w, item) PROVE Same(w)
  <2>1. run[w].at = "message"
    BY <1>1 DEF ConsiderMessage, Migrating
  <2> QED BY <1>1, <2>1, SameTaken, SameAfter DEF ConsiderMessage
<1>2. CASE CopyMessage(w)
  BY <1>2, SameAfter DEF CopyMessage, AppendMessage
<1>3. CASE RecordCopy(w)
  BY <1>3, SameAfter DEF RecordCopy
<1>4. CASE MigrationDone(w)
  BY <1>4, SameAfter DEF MigrationDone
<1> QED BY <1>1, <1>2, <1>3, <1>4 DEF Migrate

\* What a run does to the archive: an export that ends writes the manifest.
LEMMA RunArchives ==
    ASSUME TypeOK, NEW w \in Worker, Start(w) \/ Proceed(w) \/ Exit(w)
    PROVE  /\ created => created'
           /\ \/ UNCHANGED <<manifest, exported>>
              \/ /\ run[w].task = "export" /\ run[w].at = "folder" /\ run[w].failed = 0
                 /\ manifest' = run[w].records /\ exported' = run[w].listed
                 /\ run'[w].task = "none"
<1>1. CASE Start(w)
  BY <1>1 DEF Start, StartExport, archiveVars
<1>2. CASE Read(w) \/ Migrate(w) \/ Restore(w) \/ Exit(w)
  BY <1>2 DEF Read, Migrate, Restore, Exit, archiveVars
<1>3. ASSUME NEW item \in run[w].batch, WriteMessageFile(w, item)
      PROVE  UNCHANGED <<created, manifest, exported>>
  BY <1>3 DEF WriteMessageFile
<1>4. CASE WriteManifest(w)
  <2>1. run'[w] = Idle
    BY <1>4, RunReplaced DEF WriteManifest, Abort, TypeOK
  <2> QED BY <1>4, <2>1 DEF WriteManifest, Doing, Idle
<1> QED BY <1>1, <1>2, <1>3, <1>4 DEF Proceed, Export

\* A run that is an export after a step started it, or went on with it.
LEMMA RunExports ==
    ASSUME TypeOK, NEW w \in Worker, Exports(w), Gathers(w), UNCHANGED source,
           Start(w) \/ Proceed(w) \/ Exit(w), run'[w].task = "export"
    PROVE  /\ Exports(w)' /\ Gathers(w)'
           /\ \/ run[w].task = "export" /\ Saves(w)
              \/ ~created /\ created' /\ Saved(run'[w]) = {}
<1>1. CASE Start(w)
  <2>1. StartExport(w, Folder)
    <3>1. CASE StartMigration(w, Folder)
      <4>1. run'[w] = [Idle EXCEPT !.at = "folder", !.task = "migrate", !.folders = Folder]
        BY <3>1, RunReplaced DEF StartMigration, TypeOK
      <4> QED BY <4>1 DEF Idle
    <3>2. CASE StartRestore(w, Folder)
      <4>1. run'[w] = [Idle EXCEPT !.at = "message", !.task = "restore", !.folders = Folder,
                                   !.batch = PlanRestore(Folder)]
        BY <3>2, RunReplaced DEF StartRestore, TypeOK
      <4> QED BY <4>1 DEF Idle
    <3> QED BY <1>1, <3>1, <3>2 DEF Start
  <2>2. run'[w] = [Idle EXCEPT !.at = "folder", !.task = "export", !.folders = Folder]
    BY <2>1, RunReplaced DEF StartExport, TypeOK
  <2>3. /\ run'[w].at = "folder" /\ run'[w].batch = {} /\ run'[w].records = {}
        /\ run'[w].listed = {}
    BY <2>2 DEF Idle
  <2>4. Exports(w)' /\ Gathers(w)'
    BY <2>3, FS_EmptySet DEF Exports, Gathers
  <2> QED BY <2>1, <2>3, <2>4 DEF Saved, StartExport
<1>2. CASE Exit(w)
  <2>1. run'[w] = Idle
    BY <1>2, RunReplaced DEF Exit, Crash, Abort, TypeOK
  <2> QED BY <2>1 DEF Idle
<1>3. CASE Proceed(w)
  <2>1. Same(w)
    BY <1>3, ReadSame, MigrateSame, ExportSame, RestoreSame DEF Proceed, TypeOK
  <2>2. run[w].task = "export"
    BY <2>1 DEF Same
  <2>3. Read(w) \/ Export(w)
    BY <1>3, <2>2 DEF Proceed, Migrate, ConsiderMessage, CopyMessage, RecordCopy, MigrationDone,
                      Migrating, Restore, ConsiderRecord, NotePresent, PersistPending,
                      RestoreMessage, PersistDone, PersistState, RestoreDone, Doing
  <2>4. ~WriteManifest(w)
    <3>1. WriteManifest(w) => run'[w] = Idle
      BY RunReplaced DEF WriteManifest, Abort, TypeOK
    <3> QED BY <3>1 DEF Idle
  <2> QED BY <2>2, <2>3, <2>4, ReadGathers, WriteGathers DEF Export
<1> QED BY <1>1, <1>2, <1>3

LEMMA OwnerExports ==
    ASSUME TypeOK, ExportInv, Owner
    PROVE  ExportInv'
<1>1. PICK f \in Folder : Changed(f)
  BY OwnerChanges DEF TypeOK
<1>2. UNCHANGED <<run, created, manifest, exported>>
  BY DEF Owner, archiveVars
<1>3. SavedKeys'
  <2>1. \A i : IsSaved(i)' <=> IsSaved(i)
    BY <1>2 DEF IsSaved, Archived, Saved
  <2> QED BY <1>1, <2>1, OwnerKeepsKeys DEF TypeOK, ExportInv, SavedKeys
<1>4. OneExport'
  BY <1>2 DEF ExportInv, OneExport
<1>5. \A g \in Folder, m \in Message : Gone(g, m) => Gone(g, m)'
  BY <1>1 DEF Changed, Gone, Held, TypeOK, SourceOK
<1>6. Complete'
  BY <1>2, <1>5 DEF ExportInv, Complete, Has
<1>7. ASSUME NEW w \in Worker PROVE Exports(w)'
  <2>1. run[w] \in Run /\ AtHand(run[w]) /\ Exports(w)
    BY DEF TypeOK, RunOK, ExportInv
  <2>2. \A g \in Folder : source[g].epoch <= source'[g].epoch
    BY <1>1, MailMembers, MaxEpochAssumption DEF Changed, SourceOK, TypeOK
  <2>3. \A g \in Folder : source[g].epoch \in Nat /\ source'[g].epoch \in Nat
    BY <1>1, MailMembers, MaxEpochAssumption DEF Changed, SourceOK, TypeOK
  <2> QED BY <1>2, <2>1, <2>2, <2>3 DEF Exports, AtHand, Run
<1>8. ASSUME NEW w \in Worker PROVE Gathers(w)'
  <2> SUFFICES ASSUME run[w].task = "export", run[w].failed = 0,
                      NEW g \in Folder, NEW m \in Message, <<g, m>> \in run[w].listed
               PROVE  Has(run[w].records, g, m) \/ Gone(g, m)' \/ Remaining(run[w], g, m)'
    BY <1>2 DEF Gathers, Has
  <2>1. PICK r \in Run : r = run[w]
    BY DEF TypeOK, RunOK
  <2>2. Remaining(r, g, m) => Gone(g, m)' \/ Remaining(r, g, m)'
    BY <1>1, <2>1, OwnerKeepsRest DEF TypeOK, ExportInv, Exports
  <2>3. Remaining(r, g, m)' => Remaining(run[w], g, m)'
    BY <1>2, <2>1 DEF Remaining
  <2>4. Has(run[w].records, g, m) \/ Gone(g, m) \/ Remaining(r, g, m)
    BY <2>1 DEF ExportInv, Gathers
  <2> QED BY <1>5, <2>2, <2>3, <2>4
<1> QED BY <1>3, <1>4, <1>6, <1>7, <1>8 DEF ExportInv

LEMMA DiskExports ==
    ASSUME ExportInv, Disk \/ UNCHANGED vars
    PROVE  ExportInv'
<1>1. /\ UNCHANGED <<source, run, manifest, exported>>
      /\ \/ UNCHANGED created
         \/ manifest = Nobody /\ \A w \in Worker : run[w].task # "export"
  BY DEF Disk, RemoveDirectory, DamageFile, vars
<1>2. OneExport'
  BY <1>1 DEF ExportInv, OneExport
<1>3. SavedKeys'
  BY <1>1 DEF ExportInv, SavedKeys, IsSaved, Archived, Saved, Faithful, Current, Held
<1>4. Complete' /\ \A w \in Worker : Exports(w)' /\ Gathers(w)'
  BY <1>1 DEF ExportInv, Complete, Exports, Gathers, Has, Gone, Remaining, Hand, Held
<1> QED BY <1>2, <1>3, <1>4 DEF ExportInv

\* The step of one run: the others and the source stay.
LEMMA RunAlone ==
    ASSUME TypeOK, NEW w \in Worker, Start(w) \/ Proceed(w) \/ Exit(w)
    PROVE  UNCHANGED source /\ \A v \in Worker \ {w} : run'[v] = run[v]
<1>1. Advance(w)
  BY StartAdvance, ReadAdvance, MigrateAdvance, ExportAdvance, RestoreAdvance, ExitAdvance
     DEF Proceed, TypeOK
<1> QED BY <1>1 DEF Advance, Start, Proceed, Read, Migrate, Export, Restore, Exit

LEMMA RunKeepsExports ==
    ASSUME TypeOK, ExportInv, NEW w \in Worker, Start(w) \/ Proceed(w) \/ Exit(w)
    PROVE  ExportInv'
<1>1. UNCHANGED source /\ \A v \in Worker \ {w} : run'[v] = run[v]
  BY RunAlone
<1>2. /\ created => created'
      /\ \/ UNCHANGED <<manifest, exported>>
         \/ /\ run[w].task = "export" /\ run[w].at = "folder" /\ run[w].failed = 0
            /\ manifest' = run[w].records /\ exported' = run[w].listed
            /\ run'[w].task = "none"
  BY RunArchives
<1>3. run'[w].task = "export" =>
          /\ Exports(w)' /\ Gathers(w)'
          /\ \/ run[w].task = "export" /\ Saves(w)
             \/ ~created /\ created' /\ Saved(run'[w]) = {}
  BY <1>1, RunExports DEF ExportInv
<1>4. \A f \in Folder, m \in Message : Gone(f, m) => Gone(f, m)'
  BY <1>1 DEF Gone, Held
<1>5. OneExport'
  BY <1>1, <1>2, <1>3 DEF ExportInv, OneExport
<1>6. SavedKeys'
  <2>1. ASSUME NEW i \in Item, i \in Archived' PROVE IsSaved(i)
    BY <1>2, <2>1 DEF Archived, IsSaved, Saved
  <2>2. ASSUME NEW i \in Item, NEW v \in Worker, run'[v].task = "export", i \in Saved(run'[v])
        PROVE  IsSaved(i) \/ Current(i)
    BY <1>1, <1>3, <2>2 DEF IsSaved, Saves
  <2>3. \A i \in Item : IsSaved(i)' => IsSaved(i) \/ Current(i)
    <3> SUFFICES ASSUME NEW i \in Item, IsSaved(i)' PROVE IsSaved(i) \/ Current(i)
      OBVIOUS
    <3>1. \/ i \in Archived'
          \/ \E v \in Worker : run'[v].task = "export" /\ i \in Saved(run'[v])
      BY DEF IsSaved, Saved
    <3> QED BY <2>1, <2>2, <3>1
  <2> QED BY <1>1, <2>3, SavedKeysStep DEF ExportInv
<1>7. Complete'
  <2>1. CASE UNCHANGED <<manifest, exported>>
    BY <1>4, <2>1 DEF ExportInv, Complete, Has
  <2>2. CASE /\ run[w].task = "export" /\ run[w].at = "folder" /\ run[w].failed = 0
             /\ manifest' = run[w].records /\ exported' = run[w].listed
    <3>1. run[w].batch = {} /\ IsFiniteSet(run[w].records)
      BY <2>2 DEF ExportInv, Exports
    <3>2. \A f \in Folder, m \in Message : ~Remaining(run[w], f, m)
      BY <2>2, <3>1 DEF Remaining, Hand
    <3> QED BY <1>4, <2>2, <3>1, <3>2 DEF ExportInv, Gathers, Complete, Has
  <2> QED BY <1>2, <2>1, <2>2
<1>8. ASSUME NEW v \in Worker PROVE Exports(v)' /\ Gathers(v)'
  <2>1. CASE v = w
    BY <1>3, <2>1 DEF Exports, Gathers
  <2>2. CASE v # w
    <3>1. run'[v] = run[v]
      BY <1>1, <2>2
    <3>2. \A f \in Folder, m \in Message : Remaining(run[v], f, m) => Remaining(run[v], f, m)'
      BY <1>1, <3>1 DEF Remaining, Held
    <3> QED BY <1>1, <1>4, <3>1, <3>2 DEF ExportInv, Exports, Gathers, Has
  <2> QED BY <2>1, <2>2
<1> QED BY <1>5, <1>6, <1>7, <1>8 DEF ExportInv

LEMMA ExportInvStep ==
    ASSUME TypeOK, ExportInv, [Next]_vars
    PROVE  ExportInv'
BY OwnerExports, DiskExports, RunKeepsExports DEF Next

LEMMA ExportInvariance == Spec => []ExportInv
<1>1. Init => ExportInv
  BY DEF Init, Idle, NoFiles, ExportInv, SavedKeys, IsSaved, Saved, Archived, OneExport, Complete,
         Exports, Gathers
<1>2. TypeOK /\ ExportInv /\ [Next]_vars => ExportInv'
  BY ExportInvStep
<1> QED BY <1>1, <1>2, TypeCorrect, PTL DEF Spec

\* A manifest is only written when it is complete: it has a record of every
\* message the export listed and the owner did not remove, whatever fails and
\* whoever removes or renumbers meanwhile (crates/cli/src/commands/backup.rs,
\* run_export).
THEOREM ManifestCovers == Spec => []ManifestIsComplete
<1>1. ExportInv => ManifestIsComplete
  BY DEF ExportInv, Complete, ManifestIsComplete, Has, Gone
<1> QED BY <1>1, ExportInvariance, PTL

-----------------------------------------------------------------------------
(* What a restore knows of the sidecar.                                    *)

Noted(k) == \E line \in lines : line.key = k

\* A line is written after those there; into a torn file it is lost.
Writes(line) ==
    /\ lines' = IF tail = Nobody THEN lines \cup {line} ELSE lines
    /\ tail' = Nobody /\ UNCHANGED <<torn, dest>>

\* The steps of a restore: it starts with a plan, ...
Plans(w) ==
    /\ manifest # Nobody
    /\ run'[w].at = "message" /\ run'[w].batch = PlanRestore(Folder) /\ run'[w].failed = 0
    /\ UNCHANGED <<dest, sidecarVars>>

\* ... leaves out a record whose file is no longer the message, ...
LeavesOut(w) ==
    /\ run[w].at = "message" /\ run'[w].at = "message"
    /\ run'[w].batch \subseteq run[w].batch /\ run'[w].failed # 0
    /\ UNCHANGED <<dest, sidecarVars>>

\* ... or takes one up, ...
TakesUp(w) ==
    /\ run[w].at = "message" /\ run'[w].at \in {"note", "pending"}
    /\ run'[w].item \in run[w].batch /\ run'[w].batch = run[w].batch \ {run'[w].item}
    /\ run'[w].failed = run[w].failed
    /\ run'[w].at = "note" =>
           FindByMessageId(Destination(run'[w].item), run'[w].item.msg)
    /\ UNCHANGED <<dest, sidecarVars>>

Keeps(w) == run'[w].batch = run[w].batch /\ run'[w].failed = run[w].failed

\* ... notes it done, ...
NotesDone(w) ==
    /\ run[w].at \in {"note", "done"} /\ run'[w].at = "message" /\ Keeps(w)
    /\ Writes(Line(run[w].item.key, "done"))

\* ... or pending before it appends it, ...
NotesPending(w) ==
    /\ run[w].at = "pending" /\ run'[w].at = "append" /\ run'[w].item = run[w].item /\ Keeps(w)
    /\ Writes(Line(run[w].item.key, "pending"))

Appended1(w) ==
    /\ run[w].at = "append" /\ run'[w].at = "done" /\ run'[w].item = run[w].item /\ Keeps(w)
    /\ AppendTo(Destination(run[w].item), run[w].item.msg)
    /\ UNCHANGED sidecarVars

\* ... which may fail, with or without a copy, ...
AppendFails(w) ==
    /\ run[w].at = "append" /\ run'[w].at = "message"
    /\ run'[w].batch = run[w].batch /\ run'[w].failed # 0
    /\ UNCHANGED sidecarVars

\* ... and ends.
Ends(w) ==
    /\ run[w].at = "message" /\ run[w].batch = {} /\ run'[w].at \in {"ok", "failed"} /\ Keeps(w)
    /\ run'[w].at = "ok" => run[w].failed = 0
    /\ UNCHANGED <<dest, sidecarVars>>

RestoreMoves(w) ==
    \/ LeavesOut(w) \/ TakesUp(w) \/ NotesDone(w) \/ NotesPending(w)
    \/ Appended1(w) \/ AppendFails(w) \/ Ends(w)

LEMMA GotoFields ==
    ASSUME RunOK, NEW w \in Worker, NEW at, Goto(w, at)
    PROVE  run'[w].at = at /\ run'[w].item = run[w].item /\ Keeps(w)
<1>1. run' = [run EXCEPT ![w] = [run[w] EXCEPT !.at = at]]
  BY DEF Goto
<1> QED BY <1>1 DEF RunOK, Run, Keeps

LEMMA DroppedFields ==
    ASSUME RunOK, NEW w \in Worker, NEW failed \in {0, 1}, run' = Dropped(w, failed)
    PROVE  /\ run'[w].at = "message" /\ run'[w].batch = run[w].batch
           /\ run'[w].failed = run[w].failed + failed /\ run[w].failed \in Nat
<1> DEFINE r == [run[w] EXCEPT !.at = "message", !.item = Nobody, !.failed = @ + failed]
<1>1. run' = [run EXCEPT ![w] = r]
  BY DEF Dropped
<1>2. /\ r.at = "message" /\ r.batch = run[w].batch /\ r.failed = run[w].failed + failed
      /\ run[w].failed \in Nat
  BY DEF RunOK, Run
<1> HIDE DEF r
<1> QED BY <1>1, <1>2 DEF RunOK

LEMMA ConsiderMoves ==
    ASSUME RunOK, NEW w \in Worker, NEW record \in run[w].batch, ConsiderRecord(w, record),
           ~Abort(w)
    PROVE  RestoreMoves(w)
<1>1. /\ run[w].at = "message" /\ UNCHANGED <<dest, sidecarVars>> /\ run[w] \in Run
  BY DEF ConsiderRecord, Doing, RunOK
<1>2. ASSUME NEW at \in {"message", "note", "pending"}
      PROVE  /\ TakenRun(w, record, at) \in Run
             /\ Taken(w, record, at) = [run EXCEPT ![w] = TakenRun(w, record, at)]
             /\ TakenRun(w, record, at).at = at
             /\ TakenRun(w, record, at).batch = run[w].batch \ {record}
             /\ TakenRun(w, record, at).failed = run[w].failed
             /\ at # "message" => TakenRun(w, record, at).item = record
  <2>1. /\ TakenRun(w, record, at) \in Run
        /\ Taken(w, record, at) = [run EXCEPT ![w] = TakenRun(w, record, at)]
    BY <1>1, TakenIs
  <2> QED BY <1>1, <2>1 DEF TakenRun, Run
<1>3. CASE run' = [Taken(w, record, "message") EXCEPT ![w].failed = @ + 1]
  <2>1. PICK t \in Run : t = TakenRun(w, record, "message")
    BY <1>2
  <2>2. run' = [run EXCEPT ![w] = [t EXCEPT !.failed = @ + 1]]
    BY <1>2, <1>3, <2>1 DEF RunOK
  <2>3. /\ [t EXCEPT !.failed = @ + 1].at = "message"
        /\ [t EXCEPT !.failed = @ + 1].batch = run[w].batch \ {record}
        /\ [t EXCEPT !.failed = @ + 1].failed = t.failed + 1 /\ t.failed \in Nat
    BY <1>2, <2>1 DEF Run
  <2>4. run'[w].at = "message" /\ run'[w].batch \subseteq run[w].batch /\ run'[w].failed # 0
    BY <2>2, <2>3 DEF RunOK
  <2> QED BY <1>1, <2>4 DEF LeavesOut, RestoreMoves
<1>4. CASE Intact(record) /\ run' = ReadFile(w, record)
  <2> DEFINE at == IF FindByMessageId(Destination(record), record.msg) THEN "note" ELSE "pending"
  <2>1. run' = Taken(w, record, at)
    BY <1>1, <1>4, ReadFileIs
  <2>2. run'[w] = TakenRun(w, record, at)
    BY <1>2, <2>1, RunReplaced
  <2>3. /\ run'[w].at = at /\ run'[w].batch = run[w].batch \ {record}
        /\ run'[w].failed = run[w].failed /\ run'[w].item = record
    BY <1>2, <2>2
  <2> QED BY <1>1, <2>3 DEF TakesUp, RestoreMoves
<1> QED BY <1>3, <1>4 DEF ConsiderRecord

\* Every step of a restore is one of these, or ends the process.
LEMMA RestoreMovesOn ==
    ASSUME RunOK, NEW w \in Worker, Restore(w), ~Abort(w)
    PROVE  RestoreMoves(w)
<1>1. CASE \E record \in run[w].batch : ConsiderRecord(w, record)
  BY <1>1, ConsiderMoves
<1>2. CASE NotePresent(w) \/ PersistDone(w)
  <2>1. /\ run[w].at \in {"note", "done"} /\ UNCHANGED dest
        /\ AppendLine(Line(run[w].item.key, "done")) /\ run' = Dropped(w, 0)
    BY <1>2 DEF NotePresent, PersistDone, PersistState, Doing
  <2>2. run'[w].at = "message" /\ Keeps(w)
    BY <2>1, DroppedFields DEF Keeps
  <2> QED BY <2>1, <2>2 DEF AppendLine, Writes, NotesDone, RestoreMoves
<1>3. CASE PersistPending(w)
  <2>1. /\ run[w].at = "pending" /\ UNCHANGED dest
        /\ AppendLine(Line(run[w].item.key, "pending")) /\ Goto(w, "append")
    BY <1>3 DEF PersistPending, PersistState, Doing, Goto
  <2> QED BY <2>1, GotoFields DEF AppendLine, Writes, NotesPending, RestoreMoves
<1>4. CASE RestoreMessage(w)
  <2>1. /\ run[w].at = "append" /\ UNCHANGED sidecarVars
        /\ AppendMessage(w, Destination(run[w].item), run[w].item.msg, "done")
    BY <1>4 DEF RestoreMessage, Doing
  <2>2. CASE /\ AppendTo(Destination(run[w].item), run[w].item.msg) /\ Goto(w, "done")
    BY <2>1, <2>2, GotoFields DEF Appended1, RestoreMoves
  <2>3. CASE run' = Dropped(w, 1)
    <3>1. /\ run'[w].at = "message" /\ run'[w].batch = run[w].batch /\ run'[w].failed # 0
      BY <2>3, DroppedFields
    <3> QED BY <2>1, <3>1 DEF AppendFails, RestoreMoves
  <2> QED BY <2>1, <2>2, <2>3 DEF AppendMessage
<1>5. CASE RestoreDone(w) /\ UNCHANGED <<dest, faults, sidecarVars>>
  <2>1. run[w].at = "message" /\ run[w].batch = {} /\ run[w].failed \in Nat
    BY <1>5 DEF RestoreDone, Doing, RunOK, Run
  <2>2. Goto(w, "failed") \/ (Goto(w, "ok") /\ run[w].failed = 0)
    BY <1>5, <2>1 DEF RestoreDone
  <2> QED BY <1>5, <2>1, <2>2, GotoFields DEF Ends, RestoreMoves
<1> QED BY <1>1, <1>2, <1>3, <1>4, <1>5 DEF Restore

\* What the step of a run does to what a restore knows.
LEMMA RunRestores ==
    ASSUME TypeOK, NEW w \in Worker, Start(w) \/ Proceed(w) \/ Exit(w)
    PROVE  /\ run'[w].task = "restore" =>
                  Plans(w) \/ (run[w].task = "restore" /\ RestoreMoves(w))
           /\ run'[w].task # "restore" =>
                  UNCHANGED lines /\ (torn' \/ UNCHANGED <<tail, torn>>)
<1>1. CASE Start(w)
  <2>1. CASE StartRestore(w, Folder)
    <3>1. run'[w] = [Idle EXCEPT !.at = "message", !.task = "restore", !.folders = Folder,
                                 !.batch = PlanRestore(Folder)]
      BY <2>1, RunReplaced DEF StartRestore, TypeOK
    <3>2. run'[w].at = "message" /\ run'[w].batch = PlanRestore(Folder) /\ run'[w].failed = 0
      BY <3>1 DEF Idle
    <3> QED BY <1>1, <2>1, <3>2 DEF Start, StartRestore, VerifyArchive, Plans, sidecarVars
  <2>2. CASE StartMigration(w, Folder)
    <3>1. run'[w] = [Idle EXCEPT !.at = "folder", !.task = "migrate", !.folders = Folder]
      BY <2>2, RunReplaced DEF StartMigration, TypeOK
    <3> QED BY <1>1, <3>1 DEF Idle, Start, sidecarVars
  <2>3. CASE StartExport(w, Folder)
    <3>1. run'[w] = [Idle EXCEPT !.at = "folder", !.task = "export", !.folders = Folder]
      BY <2>3, RunReplaced DEF StartExport, TypeOK
    <3> QED BY <1>1, <3>1 DEF Idle, Start, sidecarVars
  <2> QED BY <1>1, <2>1, <2>2, <2>3 DEF Start
<1>2. CASE Restore(w)
  <2>1. run[w].task = "restore"
    BY <1>2 DEF Restore, ConsiderRecord, NotePresent, PersistPending, RestoreMessage,
                PersistDone, PersistState, RestoreDone, Doing
  <2>2. CASE Abort(w)
    <3>1. run'[w].task # "restore" /\ run'[w].at = "idle"
      <4>1. run'[w] = Idle
        BY <2>2, RunReplaced DEF Abort, TypeOK
      <4> QED BY <4>1 DEF Idle
    <3>2. ASSUME NEW record \in run[w].batch, ConsiderRecord(w, record)
          PROVE  UNCHANGED sidecarVars
      BY <3>2 DEF ConsiderRecord
    <3>3. CASE RestoreMessage(w) \/ (RestoreDone(w) /\ UNCHANGED <<dest, faults, sidecarVars>>)
      BY <3>1, <3>3 DEF RestoreMessage, sidecarVars
    <3>4. ASSUME NotePresent(w) \/ PersistPending(w) \/ PersistDone(w)
          PROVE  UNCHANGED lines /\ (torn' \/ UNCHANGED <<tail, torn>>)
      <4>1. run' # Dropped(w, 0)
        BY <3>1, DroppedFields DEF TypeOK
      <4>2. run' # [run EXCEPT ![w].at = "append"]
        BY <3>1, GotoFields DEF TypeOK, Goto
      <4>3. PICK line : WriteFails(line)
        BY <3>4, <4>1, <4>2 DEF NotePresent, PersistPending, PersistDone, PersistState
      <4> QED BY <4>3 DEF WriteFails, sidecarVars
    <3> QED BY <1>2, <3>1, <3>2, <3>3, <3>4 DEF Restore, sidecarVars
  <2>3. CASE ~Abort(w)
    <3>1. RestoreMoves(w)
      BY <1>2, <2>3, RestoreMovesOn DEF TypeOK
    <3>2. run'[w].at # "idle"
      BY <3>1 DEF RestoreMoves, LeavesOut, TakesUp, NotesDone, NotesPending, Appended1,
                  AppendFails, Ends
    <3>3. run'[w].task # "none"
      <4>1. TypeOK'
        BY <1>2, NextTypeOK DEF Next, Proceed
      <4> QED BY <3>2, <4>1 DEF TypeOK, RunOK, AtHand
    <3>4. run'[w].task = "restore"
      BY <1>2, <2>1, <3>3, RestoreSame DEF Same, TypeOK
    <3> QED BY <2>1, <3>1, <3>4
  <2> QED BY <2>2, <2>3
<1>3. CASE Read(w) \/ Migrate(w) \/ Export(w) \/ Exit(w)
  <2>1. UNCHANGED sidecarVars
    BY <1>3 DEF Read, Migrate, Export, Exit
  <2>2. run'[w].task # "restore"
    <3>1. CASE Exit(w)
      <4>1. run'[w] = Idle
        BY <3>1, RunReplaced DEF Exit, Crash, Abort, TypeOK
      <4> QED BY <4>1 DEF Idle
    <3>2. CASE Read(w) \/ Migrate(w) \/ Export(w)
      <4>1. run[w].task # "restore"
        BY <3>2 DEF Read, OpenFolder, FetchBatch, FetchFails, FolderDone, BatchDone,
                    Migrate, ConsiderMessage, CopyMessage, RecordCopy, MigrationDone, Migrating,
                    Export, WriteMessageFile, WriteManifest, Doing, TypeOK, RunOK, AtHand
      <4> QED BY <3>2, <4>1, ReadSame, MigrateSame, ExportSame DEF Same, TypeOK
    <3> QED BY <1>3, <3>1, <3>2
  <2> QED BY <2>1, <2>2 DEF sidecarVars
<1> QED BY <1>1, <1>2, <1>3 DEF Proceed

\* As the run's steps leave it: what it has at hand is of the manifest, what it
\* noted or found is in the destination.
Restores(w) ==
    run[w].task = "restore" =>
        /\ manifest # Nobody /\ run[w].batch \subseteq manifest
        /\ run[w].at \in {"message", "note", "pending", "append", "done", "ok", "failed"}
        /\ run[w].at \in {"note", "pending", "append", "done"} => run[w].item \in manifest
        /\ run[w].at \in {"note", "done"} => InDest(Destination(run[w].item), run[w].item.msg)
        /\ run[w].at \in {"ok", "failed"} => run[w].batch = {}
        /\ run[w].at = "ok" => run[w].failed = 0

\* As long as nothing failed in it, every record was noted or is still to come.
Planned(w) ==
    run[w].task = "restore" /\ ~torn /\ run[w].failed = 0 =>
        \A record \in manifest :
            \/ Noted(record.key) \/ record \in run[w].batch
            \/ run[w].at \in {"note", "pending"} /\ record = run[w].item

SidecarOK == (~torn => tail = Nobody) /\ (manifest = Nobody => lines = {})

\* A record noted as done is in the destination.
DoneIsThere ==
    \A record \in Archived :
        Line(record.key, "done") \in lines => InDest(Destination(record), record.msg)

SidecarInv == SidecarOK /\ DoneIsThere /\ \A w \in Worker : Restores(w) /\ Planned(w)

\* No two records of an archive have the same key.
LEMMA UniqueRecords ==
    ASSUME TypeOK, ExportInv, NEW r \in Archived, NEW s \in Archived, r.key = s.key
    PROVE  r = s
<1>1. r \in Item /\ s \in Item
  BY DEF TypeOK, ManifestOK, Archived
<1>2. r.msg = s.msg
  BY <1>1 DEF ExportInv, SavedKeys, IsSaved
<1> QED BY <1>1, <1>2 DEF Item

\* A manifest stays.
LEMMA ManifestStays ==
    ASSUME ExportInv, TypeOK, NEW w \in Worker, Start(w) \/ Proceed(w) \/ Exit(w)
    PROVE  manifest # Nobody => UNCHANGED manifest
BY RunArchives DEF ExportInv, OneExport

LEMMA PlanFields ==
    ASSUME SidecarOK, NEW w \in Worker, Plans(w)
    PROVE  ~torn => /\ \A record \in PlanRestore(Folder) : ~Noted(record.key)
                    /\ \A record \in manifest : record \in Item =>
                           Noted(record.key) \/ record \in PlanRestore(Folder)
<1> SUFFICES ASSUME ~torn
             PROVE  /\ \A record \in PlanRestore(Folder) : ~Noted(record.key)
                    /\ \A record \in manifest : record \in Item =>
                           Noted(record.key) \/ record \in PlanRestore(Folder)
  OBVIOUS
<1>1. Loaded = lines
  BY DEF SidecarOK, Loaded
<1>2. \A k : k \in RestoreState <=> Noted(k)
  BY <1>1 DEF RestoreState, Noted
<1> QED BY <1>2, ItemFields DEF PlanRestore

\* A line that was written is noted, in a file that was never torn.
LEMMA WritesNoted ==
    ASSUME NEW k, NEW status, Writes(Line(k, status)), SidecarOK
    PROVE  /\ ~torn' => \A j : Noted(j)' <=> Noted(j) \/ j = k
           /\ lines' \subseteq lines \cup {Line(k, status)}
<1>1. PICK line : line = Line(k, status)
  OBVIOUS
<1>2. line.key = k
  BY <1>1 DEF Line
<1>3. /\ ~torn' => lines' = lines \cup {line}
      /\ lines' \subseteq lines \cup {line}
  BY <1>1 DEF Writes, SidecarOK
<1> QED BY <1>1, <1>2, <1>3 DEF Noted

\* What any step does to the sidecar.
SidecarMoves(w) ==
    \/ UNCHANGED lines /\ (torn' \/ UNCHANGED <<tail, torn>>)
    \/ /\ run[w].task = "restore"
       /\ \/ run[w].at = "pending" /\ Writes(Line(run[w].item.key, "pending"))
          \/ run[w].at \in {"note", "done"} /\ Writes(Line(run[w].item.key, "done"))

LEMMA RunMovesSidecar ==
    ASSUME TypeOK, NEW w \in Worker, Start(w) \/ Proceed(w) \/ Exit(w)
    PROVE  SidecarMoves(w)
<1>1. CASE Plans(w) \/ run'[w].task # "restore"
  BY <1>1, RunRestores DEF Plans, sidecarVars, SidecarMoves
<1>2. CASE run[w].task = "restore" /\ RestoreMoves(w)
  BY <1>2 DEF RestoreMoves, LeavesOut, TakesUp, NotesDone, NotesPending, Appended1, AppendFails,
              Ends, sidecarVars, SidecarMoves
<1> QED BY <1>1, <1>2, RunRestores

LEMMA SidecarGrows ==
    ASSUME SidecarOK, NEW w \in Worker, SidecarMoves(w)
    PROVE  /\ ~torn' => ~torn /\ tail' = Nobody
           /\ ~torn' => \A k : Noted(k) => Noted(k)'
<1>1. CASE UNCHANGED lines /\ (torn' \/ UNCHANGED <<tail, torn>>)
  BY <1>1 DEF SidecarOK, Noted
<1>2. ASSUME NEW line, Writes(line)
      PROVE  /\ ~torn' => ~torn /\ tail' = Nobody
             /\ ~torn' => \A k : Noted(k) => Noted(k)'
  BY <1>2 DEF Writes, SidecarOK, Noted
<1> QED BY <1>1, <1>2 DEF SidecarMoves

LEMMA RestoresStep ==
    ASSUME TypeOK, ExportInv, SidecarInv, KeepsDest, NEW w \in Worker,
           Start(w) \/ Proceed(w) \/ Exit(w)
    PROVE  Restores(w)'
<1> SUFFICES ASSUME run'[w].task = "restore" PROVE Restores(w)'
  BY DEF Restores
<1>1. manifest # Nobody /\ manifest' = manifest
  BY RunRestores, ManifestStays DEF Plans, SidecarInv, Restores
<1>2. run[w].task = "restore" => Restores(w) /\ manifest \subseteq Item
  BY <1>1 DEF SidecarInv, TypeOK, ManifestOK
<1>3. CASE Plans(w)
  BY <1>1, <1>3 DEF Plans, PlanRestore, Restores
<1>4. CASE run[w].task = "restore" /\ (LeavesOut(w) \/ TakesUp(w))
  <2>1. CASE LeavesOut(w)
    BY <1>1, <1>2, <1>4, <2>1 DEF LeavesOut, Restores
  <2>2. CASE TakesUp(w)
    <3>1. PICK item : item = run'[w].item
      OBVIOUS
    <3>2. item \in manifest /\ item \in Item
      BY <1>2, <1>4, <2>2, <3>1 DEF TakesUp, Restores
    <3>3. run'[w].at = "note" => InDest(Destination(item), item.msg)'
      <4>1. SUFFICES ASSUME FindByMessageId(Destination(item), item.msg)
                     PROVE  InDest(Destination(item), item.msg)'
        BY <2>2, <3>1 DEF TakesUp
      <4>2. InDest(Destination(item), item.msg)
        BY <3>2, <4>1, ItemFields DEF FindByMessageId, InDest
      <4> QED BY <3>2, <4>2, ItemFields DEF KeepsDest
    <3>4. run'[w].at = "note" => InDest(Destination(run[w].item), run[w].item.msg)'
      BY <3>1, <3>3
    <3> QED BY <1>1, <1>2, <1>4, <2>2, <3>1, <3>2, <3>4 DEF TakesUp, Restores
  <2> QED BY <1>4, <2>1, <2>2
<1>5. CASE run[w].task = "restore" /\ (NotesDone(w) \/ NotesPending(w) \/ AppendFails(w) \/ Ends(w))
  BY <1>1, <1>2, <1>5 DEF NotesDone, NotesPending, AppendFails, Ends, Keeps, Restores
<1>6. CASE run[w].task = "restore" /\ Appended1(w)
  <2>1. PICK item : item = run[w].item
    OBVIOUS
  <2>2. /\ item \in Item /\ item \in manifest /\ run'[w].item = item
        /\ AppendTo(Destination(item), item.msg)
    BY <1>2, <1>6, <2>1 DEF Appended1, Restores
  <2>3. InDest(Destination(item), item.msg)'
    <3>1. PICK f \in Folder, m \in Message : f = Destination(item) /\ m = item.msg
      BY <2>2, ItemFields
    <3>2. InDest(f, m)'
      BY <2>2, <3>1, AppendedInDest DEF TypeOK
    <3> QED BY <3>1, <3>2
  <2>4. InDest(Destination(run[w].item), run[w].item.msg)'
    BY <2>2, <2>3
  <2> QED BY <1>1, <1>2, <1>6, <2>2, <2>4 DEF Appended1, Keeps, Restores
<1> QED BY <1>3, <1>4, <1>5, <1>6, RunRestores DEF RestoreMoves

LEMMA PlannedStep ==
    ASSUME TypeOK, ExportInv, SidecarInv, NEW w \in Worker, Start(w) \/ Proceed(w) \/ Exit(w)
    PROVE  Planned(w)'
<1> SUFFICES ASSUME run'[w].task = "restore", ~torn', run'[w].failed = 0, NEW record \in manifest'
             PROVE  \/ Noted(record.key)' \/ record \in run'[w].batch
                    \/ run'[w].at \in {"note", "pending"} /\ record = run'[w].item
  BY DEF Planned
<1>1. manifest # Nobody /\ manifest' = manifest
  BY RunRestores, ManifestStays DEF Plans, SidecarInv, Restores
<1>2. record \in manifest /\ record \in Item
  BY <1>1 DEF TypeOK, ManifestOK
<1>3. ~torn /\ (Noted(record.key) => Noted(record.key)')
  BY RunMovesSidecar, SidecarGrows DEF SidecarInv
<1>4. CASE Plans(w)
  BY <1>2, <1>3, <1>4, PlanFields DEF Plans, SidecarInv
<1>5. CASE run[w].task = "restore" /\ RestoreMoves(w)
  <2>1. ~LeavesOut(w) /\ ~AppendFails(w)
    BY DEF LeavesOut, AppendFails
  <2>2. run[w].failed = 0
    BY <1>5, <2>1 DEF RestoreMoves, TakesUp, NotesDone, NotesPending, Appended1, Ends, Keeps
  <2>3. \/ Noted(record.key) \/ record \in run[w].batch
        \/ run[w].at \in {"note", "pending"} /\ record = run[w].item
    BY <1>2, <1>3, <1>5, <2>2 DEF SidecarInv, Planned
  <2>4. CASE TakesUp(w) \/ Appended1(w) \/ Ends(w)
    BY <1>3, <2>3, <2>4 DEF TakesUp, Appended1, Ends, Keeps
  <2>5. CASE NotesDone(w) \/ NotesPending(w)
    <3>1. PICK status : Writes(Line(run[w].item.key, status))
      BY <2>5 DEF NotesDone, NotesPending
    <3>2. record = run[w].item => Noted(record.key)'
      BY <3>1, WritesNoted DEF SidecarInv
    <3> QED BY <1>3, <2>3, <2>5, <3>2 DEF NotesDone, NotesPending, Keeps
  <2> QED BY <1>5, <2>1, <2>4, <2>5 DEF RestoreMoves
<1> QED BY <1>4, <1>5, RunRestores

LEMMA DoneStep ==
    ASSUME TypeOK, ExportInv, SidecarInv, KeepsDest, NEW w \in Worker,
           Start(w) \/ Proceed(w) \/ Exit(w)
    PROVE  SidecarOK' /\ DoneIsThere'
<1>1. SidecarMoves(w) /\ (manifest # Nobody => UNCHANGED manifest)
  BY RunMovesSidecar, ManifestStays
<1>2. manifest = Nobody => UNCHANGED lines
  BY <1>1 DEF SidecarMoves, SidecarInv, Restores
<1>3. SidecarOK'
  BY <1>1, <1>2, SidecarGrows DEF SidecarInv, SidecarOK
<1>4. ASSUME NEW record \in Archived', Line(record.key, "done") \in lines'
      PROVE  InDest(Destination(record), record.msg)'
  <2>1. manifest # Nobody /\ manifest' = manifest /\ record \in manifest /\ record \in Item
    BY <1>1, <1>2, <1>4 DEF SidecarInv, SidecarOK, Archived, TypeOK, ManifestOK
  <2>2. InDest(Destination(record), record.msg)
    <3>1. CASE Line(record.key, "done") \in lines
      BY <2>1, <3>1 DEF SidecarInv, DoneIsThere, Archived
    <3>2. CASE Line(record.key, "done") \notin lines
      <4>1. PICK status \in {"pending", "done"} :
                /\ run[w].task = "restore" /\ Writes(Line(run[w].item.key, status))
                /\ status = "pending" => run[w].at = "pending"
                /\ status = "done" => run[w].at \in {"note", "done"}
        BY <1>1, <1>4, <3>2 DEF SidecarMoves
      <4>2. Line(record.key, "done") = Line(run[w].item.key, status)
        BY <1>4, <3>2, <4>1, WritesNoted DEF SidecarInv
      <4>3. status = "done" /\ run[w].item.key = record.key
        BY <4>2 DEF Line
      <4>4. run[w].item \in manifest /\ InDest(Destination(run[w].item), run[w].item.msg)
        BY <4>1, <4>3 DEF SidecarInv, Restores
      <4>5. run[w].item = record
        BY <2>1, <4>3, <4>4, UniqueRecords DEF Archived
      <4> QED BY <4>4, <4>5
    <3> QED BY <3>1, <3>2
  <2> QED BY <2>1, <2>2, ItemFields DEF KeepsDest
<1>5. DoneIsThere'
  BY <1>4 DEF DoneIsThere
<1> QED BY <1>3, <1>5

\* The other runs: the sidecar grows, and the destination keeps what it has.
LEMMA OtherRestores ==
    ASSUME TypeOK, ExportInv, SidecarInv, KeepsDest, NEW w \in Worker,
           Start(w) \/ Proceed(w) \/ Exit(w), NEW v \in Worker \ {w}
    PROVE  Restores(v)' /\ Planned(v)'
<1>1. run'[v] = run[v] /\ (manifest # Nobody => UNCHANGED manifest)
  BY RunAlone, ManifestStays
<1>2. ~torn' => ~torn /\ \A k : Noted(k) => Noted(k)'
  BY RunMovesSidecar, SidecarGrows DEF SidecarInv
<1>3. ASSUME run[v].task = "restore", run[v].at \in {"note", "done"}
      PROVE  InDest(Destination(run[v].item), run[v].item.msg)'
  <2>1. PICK item : item = run[v].item
    OBVIOUS
  <2>2. item \in Item /\ InDest(Destination(item), item.msg)
    BY <1>3, <2>1 DEF SidecarInv, Restores, TypeOK, ManifestOK
  <2>3. InDest(Destination(item), item.msg)'
    BY <2>2, ItemFields DEF KeepsDest
  <2> QED BY <1>1, <2>1, <2>3
<1>4. Restores(v)'
  BY <1>1, <1>3 DEF SidecarInv, Restores
<1>5. Planned(v)'
  BY <1>1, <1>2 DEF SidecarInv, Restores, Planned
<1> QED BY <1>4, <1>5

LEMMA KeepsDestStep ==
    ASSUME TypeOK, [Next]_vars
    PROVE  KeepsDest
<1>1. ASSUME NEW f \in Folder, NEW m \in Message, InDest(f, m)
      PROVE  InDest(f, m)'
  BY <1>1, NextTypeOK, InDestStays DEF TypeOK
<1> QED BY <1>1 DEF KeepsDest

LEMMA SidecarInvStep ==
    ASSUME TypeOK, ExportInv, SidecarInv, [Next]_vars
    PROVE  SidecarInv'
<1>1. CASE Owner \/ Disk \/ UNCHANGED vars
  <2>1. UNCHANGED <<dest, run, manifest, lines, tail, torn>>
    BY <1>1 DEF Owner, Disk, RemoveDirectory, DamageFile, archiveVars, sidecarVars, vars
  <2> QED BY <2>1 DEF SidecarInv, SidecarOK, DoneIsThere, Archived, Restores, Planned, Noted, Line,
                      InDest, Destination
<1>2. ASSUME NEW w \in Worker, Start(w) \/ Proceed(w) \/ Exit(w)
      PROVE  SidecarInv'
  <2>1. KeepsDest
    BY <1>2, KeepsDestStep DEF Next
  <2>2. SidecarOK' /\ DoneIsThere'
    BY <1>2, <2>1, DoneStep
  <2>3. \A v \in Worker : Restores(v)' /\ Planned(v)'
    BY <1>2, <2>1, RestoresStep, PlannedStep, OtherRestores
  <2> QED BY <2>2, <2>3 DEF SidecarInv
<1> QED BY <1>1, <1>2 DEF Next

LEMMA SidecarInvariance == Spec => []SidecarInv
<1>1. Init => SidecarInv
  BY DEF Init, Idle, SidecarInv, SidecarOK, DoneIsThere, Archived, Restores, Planned
<1>2. TypeOK /\ ExportInv /\ SidecarInv /\ [Next]_vars => SidecarInv'
  BY SidecarInvStep
<1> QED BY <1>1, <1>2, TypeCorrect, ExportInvariance, PTL DEF Spec

\* A restore that reports success leaves out no message but those audit-state
\* names, whatever failed in earlier runs and whoever restores at the same time
\* (crates/cli/src/commands/backup.rs, load_restore_state and
\* plan_restore_state_audit).
THEOREM RestoreLeavesNothingSilently == Spec => []RestoreAccounts
<1>1. TypeOK /\ SidecarInv => RestoreAccounts
  <2> SUFFICES ASSUME TypeOK, SidecarInv, NEW w \in Worker, Ended(w, "restore"), ~torn,
                      NEW record \in manifest, ~InDest(Destination(record), record.msg)
               PROVE  record.key \in PendingWithoutDone
    BY DEF RestoreAccounts, LeftOut, AuditedRows
  <2>1. /\ manifest # Nobody /\ run[w].batch = {} /\ run[w].failed = 0
    BY DEF Ended, SidecarInv, Restores
  <2>2. Noted(record.key)
    BY <2>1 DEF Ended, SidecarInv, Planned
  <2>3. PICK line \in lines : line.key = record.key
    BY <2>2 DEF Noted
  <2>4. Line(line.key, "done") \notin lines
    BY <2>1, <2>3 DEF SidecarInv, DoneIsThere, Archived
  <2>5. Loaded = lines
    BY DEF SidecarInv, SidecarOK, Loaded
  <2> QED BY <2>3, <2>4, <2>5 DEF PendingWithoutDone
<1> QED BY <1>1, TypeCorrect, SidecarInvariance, PTL

-----------------------------------------------------------------------------
(* Restores one after the other append a message no more often than the    *)
(* archive has it.                                                         *)

\* What runs is what may run.
Crewed == \A w \in Worker : run[w].task \in setting.crew[w] \cup {"none"}

LEMMA CrewedStep ==
    ASSUME TypeOK, Crewed, [Next]_vars
    PROVE  Crewed' /\ UNCHANGED setting
<1>1. CASE Owner \/ Disk \/ UNCHANGED vars
  <2>1. UNCHANGED <<run, setting>>
    BY <1>1 DEF Owner, Disk, vars
  <2> QED BY <2>1 DEF Crewed
<1>2. ASSUME NEW w \in Worker, Start(w) \/ Proceed(w) \/ Exit(w)
      PROVE  Crewed' /\ UNCHANGED setting
  <2>1. UNCHANGED setting /\ \A v \in Worker \ {w} : run'[v] = run[v]
    BY <1>2, RunAlone DEF Start, Proceed, Read, Migrate, Export, Restore, Exit
  <2>2. run'[w].task \in setting.crew[w] \cup {"none"}
    <3>1. CASE Start(w)
      <4>1. StartMigration(w, Folder) => run'[w].task = "migrate"
        BY DEF StartMigration, Idle, TypeOK, RunOK
      <4>2. StartExport(w, Folder) => run'[w].task = "export"
        BY DEF StartExport, Idle, TypeOK, RunOK
      <4>3. StartRestore(w, Folder) => run'[w].task = "restore"
        BY DEF StartRestore, Idle, TypeOK, RunOK
      <4> QED BY <3>1, <4>1, <4>2, <4>3 DEF Start
    <3>2. CASE Proceed(w)
      BY <3>2, ReadSame, MigrateSame, ExportSame, RestoreSame
         DEF Proceed, Same, Crewed, TypeOK
    <3>3. CASE Exit(w)
      <4>1. run'[w] = Idle
        BY <3>3, RunReplaced DEF Exit, Crash, Abort, TypeOK
      <4> QED BY <4>1 DEF Idle
    <3> QED BY <1>2, <3>1, <3>2, <3>3
  <2> QED BY <2>1, <2>2 DEF Crewed
<1> QED BY <1>1, <1>2 DEF Next

\* A restore that is alone has not noted what is to come, and has noted what it
\* is about to append.
Fresh(w) ==
    run[w].task = "restore" /\ ~torn /\ ~overlap =>
        /\ \A record \in run[w].batch :
               /\ ~Noted(record.key)
               /\ run[w].at \in {"note", "pending", "append", "done"} => record # run[w].item
        /\ run[w].at \in {"note", "pending"} => ~Noted(run[w].item.key)
        /\ run[w].at \in {"append", "done"} => Noted(run[w].item.key)

\* The records noted whose message no restore is about to append.
AboutToAppend(record) ==
    \E w \in Worker : run[w].task = "restore" /\ run[w].at = "append" /\ run[w].item = record
Spent(f, m) == {record \in RecordsOf(f, m) : Noted(record.key) /\ ~AboutToAppend(record)}

Counted ==
    ~overlap /\ ~torn /\ Only("restore") =>
        \A f \in Folder, m \in Message : dest[f][m] <= Cardinality(Spent(f, m))

RestoreInv == Alone /\ Crewed /\ (\A w \in Worker : Fresh(w)) /\ Counted

\* Another run that writes to the sidecar is not alone.
LEMMA OtherFresh ==
    ASSUME TypeOK, SidecarInv, Alone, NEW w \in Worker, Start(w) \/ Proceed(w) \/ Exit(w),
           NEW v \in Worker \ {w}, Fresh(v), ~overlap' => ~overlap
    PROVE  Fresh(v)'
<1> SUFFICES ASSUME run'[v].task = "restore", ~torn', ~overlap' PROVE Fresh(v)'
  BY DEF Fresh
<1>1. run'[v] = run[v] /\ ~torn /\ SidecarMoves(w) /\ ~overlap
  BY RunAlone, RunMovesSidecar, SidecarGrows DEF SidecarInv
<1>2. CASE UNCHANGED lines
  BY <1>1, <1>2 DEF Fresh, Noted
<1>3. CASE run[w].at \in {"pending", "note", "done"}
  <2>1. ~Busy(v)
    BY <1>1, <1>3 DEF Alone, Busy
  <2>2. run[v].at \in {"ok", "failed"} /\ run[v].batch = {}
    BY <1>1, <2>1 DEF Busy, SidecarInv, Restores
  <2> QED BY <1>1, <2>2 DEF Fresh
<1> QED BY <1>1, <1>2, <1>3 DEF SidecarMoves

LEMMA FreshStep ==
    ASSUME TypeOK, ExportInv, SidecarInv, NEW w \in Worker, Start(w) \/ Proceed(w) \/ Exit(w),
           Fresh(w), ~overlap' => ~overlap
    PROVE  Fresh(w)'
<1> SUFFICES ASSUME run'[w].task = "restore", ~torn', ~overlap' PROVE Fresh(w)'
  BY DEF Fresh
<1>1. ~torn /\ ~overlap
  BY RunMovesSidecar, SidecarGrows DEF SidecarInv
<1>2. CASE Plans(w)
  <2>1. /\ run'[w].at = "message" /\ run'[w].batch = PlanRestore(Folder) /\ UNCHANGED lines
        /\ \A record \in PlanRestore(Folder) : ~Noted(record.key)
    BY <1>1, <1>2, PlanFields DEF Plans, SidecarInv, sidecarVars
  <2> QED BY <2>1 DEF Fresh, Noted
<1>3. CASE run[w].task = "restore" /\ (LeavesOut(w) \/ TakesUp(w) \/ Appended1(w) \/ AppendFails(w) \/ Ends(w))
  BY <1>1, <1>3 DEF Fresh, Noted, LeavesOut, TakesUp, Appended1, AppendFails, Ends, Keeps,
                    sidecarVars
<1>4. CASE run[w].task = "restore" /\ (NotesDone(w) \/ NotesPending(w))
  <2>1. PICK item : item = run[w].item
    OBVIOUS
  <2>2. PICK status : Writes(Line(item.key, status))
    BY <1>4, <2>1 DEF NotesDone, NotesPending
  <2>3. \A k : Noted(k)' <=> Noted(k) \/ k = item.key
    BY <2>2, WritesNoted DEF SidecarInv
  <2>4. item \in Archived /\ run[w].batch \subseteq Archived
    BY <1>4, <2>1 DEF NotesDone, NotesPending, SidecarInv, Restores, Archived
  <2>5. \A record \in run[w].batch : ~Noted(record.key) /\ record # item /\ record \in Archived
    BY <1>1, <1>4, <2>1, <2>4 DEF NotesDone, NotesPending, Fresh
  <2>6. \A record \in run[w].batch : ~Noted(record.key)' /\ record # item
    BY <2>3, <2>4, <2>5, UniqueRecords
  <2> QED BY <1>4, <2>1, <2>3, <2>6 DEF NotesDone, NotesPending, Keeps, Fresh
<1> QED BY <1>2, <1>3, <1>4, RunRestores DEF RestoreMoves

\* A record that is spent stays so.
LEMMA SpentStays ==
    ASSUME TypeOK, ExportInv, SidecarInv, NEW w \in Worker, Start(w) \/ Proceed(w) \/ Exit(w),
           Fresh(w), ~overlap, ~torn', NEW f \in Folder, NEW m \in Message
    PROVE  Spent(f, m) \subseteq Spent(f, m)'
<1> SUFFICES ASSUME NEW record \in Spent(f, m) PROVE record \in Spent(f, m)'
  OBVIOUS
<1>1. /\ manifest # Nobody /\ record \in manifest
      /\ Destination(record) = f /\ record.msg = m
      /\ Noted(record.key) /\ ~AboutToAppend(record)
  BY DEF Spent, RecordsOf
<1>2. record \in RecordsOf(f, m)'
  BY <1>1, ManifestStays DEF RecordsOf, Destination
<1>3. ~torn /\ Noted(record.key)'
  BY <1>1, RunMovesSidecar, SidecarGrows DEF SidecarInv
<1>4. ~AboutToAppend(record)'
  <2> SUFFICES ASSUME NEW v \in Worker, run'[v].task = "restore", run'[v].at = "append",
                      run'[v].item = record
               PROVE  FALSE
    BY DEF AboutToAppend
  <2>1. v = w
    BY <1>1, RunAlone DEF AboutToAppend
  <2>2. run[w].task = "restore" /\ NotesPending(w)
    BY <2>1, RunRestores DEF Plans, RestoreMoves, LeavesOut, TakesUp, NotesDone, Appended1,
                             AppendFails, Ends
  <2> QED BY <1>1, <1>3, <2>1, <2>2 DEF NotesPending, Fresh
<1> QED BY <1>2, <1>3, <1>4 DEF Spent

LEMMA SpentIsFinite ==
    ASSUME ExportInv, NEW f, NEW m
    PROVE  /\ IsFiniteSet(RecordsOf(f, m)) /\ IsFiniteSet(Spent(f, m))
           /\ Cardinality(Spent(f, m)) \in Nat
           /\ Cardinality(RecordsOf(f, m)) \in Nat
           /\ Cardinality(Spent(f, m)) <= Cardinality(RecordsOf(f, m))
<1>1. IsFiniteSet(RecordsOf(f, m))
  BY FS_EmptySet, FS_Subset DEF RecordsOf, ExportInv, Complete
<1>2. Spent(f, m) \subseteq RecordsOf(f, m)
  BY DEF Spent
<1>3. IsFiniteSet(Spent(f, m)) /\ Cardinality(Spent(f, m)) <= Cardinality(RecordsOf(f, m))
  BY <1>1, <1>2, FS_Subset
<1> QED BY <1>1, <1>3, FS_CardinalityType

\* The copy a restore makes is of a record not yet spent, which now is.
LEMMA AppendSpends ==
    ASSUME TypeOK, ExportInv, SidecarInv, Alone, NEW w \in Worker,
           Start(w) \/ Proceed(w) \/ Exit(w), Fresh(w), ~overlap, ~torn',
           Appends(w), run[w].task = "restore", NEW item \in Item, item = run[w].item
    PROVE  /\ item \notin Spent(Destination(item), item.msg)
           /\ item \in Spent(Destination(item), item.msg)'
<1>1. /\ run[w].at = "append" /\ item \in manifest /\ item \in Item /\ manifest # Nobody
  BY DEF Appends, SidecarInv, Restores
<1>2. ~torn /\ Noted(item.key)'
  BY <1>1, RunMovesSidecar, SidecarGrows DEF Fresh, SidecarInv
<1>3. item \notin Spent(Destination(item), item.msg)
  BY <1>1 DEF Spent, AboutToAppend
<1>4. item \in RecordsOf(Destination(item), item.msg)'
  BY <1>1, ManifestStays DEF RecordsOf, Destination
<1>5. ~AboutToAppend(item)'
  <2> SUFFICES ASSUME NEW v \in Worker, run'[v].task = "restore", run'[v].at = "append"
               PROVE  FALSE
    BY DEF AboutToAppend
  <2>1. CASE v = w
    BY <1>1, <2>1, RunRestores DEF Plans, RestoreMoves, LeavesOut, TakesUp, NotesDone,
                                   NotesPending, Appended1, AppendFails, Ends
  <2>2. CASE v # w
    <3>1. Busy(v) /\ Busy(w)
      BY <1>1, <2>2, RunAlone DEF Busy
    <3> QED BY <2>2, <3>1 DEF Alone
  <2> QED BY <2>1, <2>2
<1>6. item \in Spent(Destination(item), item.msg)'
  BY <1>2, <1>4, <1>5 DEF Spent
<1> QED BY <1>3, <1>6

LEMMA CountedStep ==
    ASSUME TypeOK, ExportInv, ExportInv', SidecarInv, Alone, Crewed, UNCHANGED setting,
           NEW w \in Worker, Start(w) \/ Proceed(w) \/ Exit(w), Fresh(w), Counted,
           DestStep(w), ~overlap' => ~overlap
    PROVE  Counted'
<1> SUFFICES ASSUME ~overlap', ~torn', Only("restore"), NEW f \in Folder, NEW m \in Message
             PROVE  dest'[f][m] <= Cardinality(Spent(f, m)')
  BY DEF Counted, Only
<1>1. ~overlap /\ ~torn
  BY RunMovesSidecar, SidecarGrows DEF SidecarInv
<1>2. PICK s, t : s = Spent(f, m) /\ t = Spent(f, m)'
  OBVIOUS
<1>3. /\ IsFiniteSet(s) /\ IsFiniteSet(t)
      /\ Cardinality(s) \in Nat /\ Cardinality(t) \in Nat
  <2>1. IsFiniteSet(t)
    <3>1. IsFiniteSet(RecordsOf(f, m)')
      BY FS_EmptySet, FS_Subset DEF RecordsOf, ExportInv, Complete
    <3> QED BY <1>2, <3>1, FS_Subset DEF Spent
  <2> QED BY <1>2, <2>1, SpentIsFinite, FS_CardinalityType
<1>4. s \subseteq t
  BY <1>1, <1>2, SpentStays
<1>5. Cardinality(s) <= Cardinality(t)
  BY <1>3, <1>4, FS_Subset
<1>6. dest[f][m] <= Cardinality(s) /\ dest[f][m] \in Nat
  BY <1>1, <1>2 DEF Counted, TypeOK, DestOK
<1>7. CASE UNCHANGED dest
  BY <1>2, <1>3, <1>5, <1>6, <1>7
<1>8. CASE Appends(w)
  <2>1. run[w].task = "restore"
    BY <1>8 DEF Appends, Crewed, Only
  <2>2. PICK item : item = run[w].item
    OBVIOUS
  <2>3. /\ item \in Item /\ Destination(item) \in Folder /\ item.msg \in Message
        /\ AppendTo(Destination(item), item.msg)
    BY <1>8, <2>1, <2>2, ItemFields DEF Appends, Target
  <2>4. dest'[f][m] = IF f = Destination(item) /\ m = item.msg THEN dest[f][m] + 1 ELSE dest[f][m]
    BY <2>3, Appended DEF TypeOK
  <2>5. CASE f = Destination(item) /\ m = item.msg
    <3>1. item \notin s /\ item \in t
      BY <1>1, <1>2, <1>8, <2>1, <2>2, <2>3, <2>5, AppendSpends
    <3>2. Cardinality(s \cup {item}) = Cardinality(s) + 1 /\ IsFiniteSet(s \cup {item})
      BY <1>3, <3>1, FS_AddElement
    <3>3. Cardinality(s \cup {item}) <= Cardinality(t)
      <4>1. s \cup {item} \subseteq t
        BY <1>4, <3>1
      <4> QED BY <1>3, <4>1, FS_Subset
    <3> QED BY <1>2, <1>3, <1>6, <2>4, <2>5, <3>2, <3>3
  <2>6. CASE ~(f = Destination(item) /\ m = item.msg)
    BY <1>2, <1>3, <1>5, <1>6, <2>4, <2>6
  <2> QED BY <2>5, <2>6
<1> QED BY <1>7, <1>8 DEF DestStep

LEMMA RestoreInvStep ==
    ASSUME TypeOK, ExportInv, ExportInv', SidecarInv, RestoreInv, [Next]_vars
    PROVE  RestoreInv'
<1>1. Alone' /\ Crewed' /\ UNCHANGED setting /\ (~overlap' => ~overlap)
  BY AloneStep, CrewedStep, OverlapStays DEF RestoreInv
<1>2. CASE Owner \/ Disk \/ UNCHANGED vars
  <2>1. UNCHANGED <<dest, run, manifest, lines, torn, overlap, setting>>
    BY <1>2 DEF Owner, Disk, RemoveDirectory, DamageFile, archiveVars, sidecarVars, vars
  <2>2. \A w \in Worker : Fresh(w)'
    BY <2>1 DEF RestoreInv, Fresh, Noted
  <2>3. \A f, m : Spent(f, m)' = Spent(f, m)
    BY <2>1 DEF Spent, RecordsOf, AboutToAppend, Noted, Destination
  <2>4. Counted'
    BY <2>1, <2>3 DEF RestoreInv, Counted, Only
  <2> QED BY <1>1, <2>2, <2>4 DEF RestoreInv
<1>3. ASSUME NEW w \in Worker, Start(w) \/ Proceed(w) \/ Exit(w)
      PROVE  RestoreInv'
  <2>1. \A v \in Worker : Fresh(v)'
    BY <1>1, <1>3, FreshStep, OtherFresh DEF RestoreInv
  <2>2. DestStep(w)
    BY <1>3, RunTypeOK
  <2>3. Counted'
    BY <1>1, <1>3, <2>2, CountedStep DEF RestoreInv
  <2> QED BY <1>1, <2>1, <2>3 DEF RestoreInv
<1> QED BY <1>2, <1>3 DEF Next

\* However often restores of an archive are run one after the other, wherever
\* they fail or crash, no folder has more copies of a message than the archive
\* has records of it for the folder (crates/cli/src/commands/backup.rs,
\* run_restore: the plan leaves out what is noted, and a record is noted before
\* it is appended).
THEOREM RestoredOnce == Spec => []RestoreIsIdempotent
<1>1. Init => RestoreInv
  <2> SUFFICES ASSUME Init PROVE RestoreInv
    OBVIOUS
  <2>1. Alone /\ Crewed /\ \A w \in Worker : Fresh(w)
    BY DEF Init, Idle, Alone, Busy, Crewed, Fresh
  <2>2. ASSUME NEW f \in Folder, NEW m \in Message
        PROVE  dest[f][m] <= Cardinality(Spent(f, m))
    <3>1. Spent(f, m) = {} /\ dest[f][m] = 0
      BY DEF Init, Spent, RecordsOf
    <3> QED BY <3>1, FS_EmptySet
  <2> QED BY <2>1, <2>2 DEF RestoreInv, Counted
<1>2. TypeOK /\ ExportInv /\ ExportInv' /\ SidecarInv /\ RestoreInv /\ [Next]_vars => RestoreInv'
  BY RestoreInvStep
<1>3. TypeOK /\ ExportInv /\ RestoreInv => RestoreIsIdempotent
  <2> SUFFICES ASSUME TypeOK, ExportInv, RestoreInv, ~overlap, ~torn, Only("restore"),
                      NEW f \in Folder, NEW m \in Message
               PROVE  dest[f][m] <= Cardinality(RecordsOf(f, m))
    BY DEF RestoreIsIdempotent
  <2>1. dest[f][m] <= Cardinality(Spent(f, m)) /\ dest[f][m] \in Nat
    BY DEF RestoreInv, Counted, TypeOK, DestOK
  <2> QED BY <2>1, SpentIsFinite
<1> QED BY <1>1, <1>2, <1>3, TypeCorrect, ExportInvariance, SidecarInvariance, PTL DEF Spec
=============================================================================
