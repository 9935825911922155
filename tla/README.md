# Envelope, in TLA+

Envelope is a mail client for agents and the humans who supervise them: a CLI
and an MCP server (`crates/cli`), a local dashboard with background sweeps
(`crates/dashboard`), the mail transport and policy code (`crates/email`) and a
SQLite store that all of them share (`crates/store`). This directory models five
systems in it: the life of an outgoing draft (`Outbox`), the way of a new message
from the mailbox to a webhook (`EventPush`), moving, deleting and snoozing mail
(`Mailroom`), copying an account by migration or backup (`Relocation`), and the
thread cache with the address book that is counted from it (`Correspondence`). It
checks them with TLC and proves part of three of them with TLAPS. Paths below are
relative to the repository.

## 1. The system

| Component | State | Operations | Talks to |
|---|---|---|---|
| Draft store, `store/src/drafts.rs` | table `drafts`: status, content revision, schedule, lease token, approval, Human-only Send, attribution block, provider UID; context-correction events | claims, releases, parks, edits, decisions, queue calls: each one guarded statement or one transaction | everything below |
| Scheduled-send sweep, `dashboard/src/lib.rs` | due list, claimed row, lease | scan, claim, reload, prepare, attribute, gate, SMTP, record or park, clean up | store, SMTP, IMAP |
| Immediate send, `cli/src/commands/drafts.rs` | drop guard, content to send | claim, load content, gate, SMTP, record, clean up | store, SMTP, IMAP |
| Draft sync, same file | sync lease, snapshot | modify, discard, find and relink the provider copy, create | store, IMAP |
| Human decisions, `dashboard/src/handlers/drafts.rs` | the page in the browser | view, approve, send, edit, hold, block, discard, correct the context | store |
| Agent decisions, `cli/src/commands/drafts.rs`, `mcp.rs` | prechecked facts | precheck, queue | store |
| Attribution and Governor gate, `email/src/attribution*.rs`, `governor_gate.rs` | none of its own | refuse, or ask the Governor | Governor |
| Mailbox watch, `cli/src/commands/watch.rs`, `store/src/events.rs` | UID watermark, UIDVALIDITY, batch; table `events` | connect, fetch, insert, scan for a code, enqueue, drain | IMAP, store |
| Webhook deliveries, `email/src/event_delivery.rs`, `store/src/event_*.rs`, sweeper in `dashboard/src/lib.rs` | tables `event_routes`, `event_deliveries`; a pass's due list | list due, post, record, back off, dead-letter; add and remove routes, retry | webhooks, store |
| Snooze, `store/src/snoozed.rs`, `cli/src/commands/snooze.rs`, sweep and button in `dashboard` | table `snoozed` | move out, record, move back, delete | IMAP |
| Moves and deletions, `email/src/imap.rs`, `bulk.rs`, `cli/src/commands/rule.rs`, the dashboard's message view | none that lasts | COPY, mark, expunge; a batch, then UID by UID | IMAP |
| Account migration, `cli/src/commands/migrate.rs`, `store/src/migration.rs` | table `migration_uid_map` | list, fetch, look for a duplicate, append, record, resume | two IMAP accounts |
| Backup and restore, `cli/src/commands/backup.rs`, `email/src/backup.rs` | message files, manifest, sidecar | export, verify, restore, audit | IMAP, disk |
| Thread cache, `email/src/threading.rs`, `store/src/threads.rs` | tables `thread_messages`, `thread_sync_state` | scan, reset, upsert, remember the UID reached | IMAP, address book |
| Address book and contacts, `store/src/address_book.rs`, `contacts.rs`, `message_index.rs` | tables `contacts`, `address_history_state`, the INBOX snapshot | reconcile in chunks, record a send, invalidate, rebuild, add, delete, tag | thread cache, drafts |
| Sent-copy proof, relationship facts | proof columns | find the Sent copy, import facts | IMAP |
| Rule matching, Sieve export | rule rows | match, upload | ManageSieve |
| Credentials, accounts, licence, schema | keychain or file, rows | migrate, unlock | OS |
| Dashboard shell: authentication, CSRF, server-sent events, web UI | session, broadcast channel | filter, publish | browser |

What makes it hard is that these are separate processes over one database and
one mailbox. The dashboard's ticker, its Send-now clicks, CLI commands and MCP
calls run at the same time, none of them holds the database over a network call,
every network call may fail after it took effect, and every process may die at
any point. Only guards in SQL (status, revision, lease token) keep them apart.
`PROJECT.json` lists the places where that bites, each at its line, with the
properties that would notice.

What makes each component correct:

* store: a claim is exclusive, a claimed row is frozen, an orphaned claim is
  inert, terminal statuses are final;
* sweep and immediate send: a message that may have been accepted is not sent
  again, what is sent is what was judged, the sweep sends nothing a human held;
* decisions: an approval, a Human-only Send, a declaration or a correction only
  ever counts for the content it was given for;
* sync: one provider copy per draft, never forgotten by its row;
* the outbox: a queued draft leaves it;
* watch: each new message has its events once, each event its deliveries, and
  nothing older than the watch has any;
* webhook deliveries: a delivery is posted until it is taken or given up, its
  count is true, and what was delivered stays delivered;
* snooze, moves and deletions: a message nobody asked to delete keeps a copy, a
  bulk call reports what was done, and a snoozed message comes back, itself;
* migration, backup and restore: a run that reports success left nothing behind,
  a rerun makes no second copy, and only genuine messages arrive;
* thread cache: the UID it says it has reached is true;
* address book: its counts agree with the cache, whoever was written to is
  offered, and what a person wrote stays.

## 2. Modules

| Module | Models | State |
|---|---|---|
| `DraftStore` | the table, one operator per store method | `drafts`, `correction` |
| `MailServer` | SMTP acceptance and the Drafts folder (external: modelled from its use) | `deliveries`, `copies` |
| `Sweep` | `run_scheduled_send_sweep`, one action per stretch between two awaits | `sweeper` |
| `ImmediateSend` | `send_existing_draft` and `SendClaimGuard` | `sender` |
| `DraftSync` | `modify_draft`, `run_discard`, the repair of UIDs | `syncer` |
| `Cockpit` | dashboard handlers, agent precheck and queue | `view`, `plan`, `ledger` |
| `Outbox` | their composition, fairness and all properties | |
| `DeliveryPromise` | the abstract specification of a draft's deliveries | `phase`, `received` |
| `MCOutbox` | symmetry for TLC | |
| `OutboxProofs`, `DeliveryProofs`, `DecisionProofs`, `CopyProofs` | theorems and proofs | |
| `EventStore` | the tables of events, routes and deliveries, one operator per statement | `events`, `routes`, `deliveries` |
| `Watch` | `envelope watch`, and the folder it watches (external) | `mailbox`, `watcher`, `began` |
| `DeliveryExecutor` | one pass of `deliver_due_events`; the receiver (external) | `executor`, `posts`, `received` |
| `EventPush` | watches, the dashboard's sweeper, the operator; fairness and properties | `retries`, `earlier` |
| `PushPromise` | the abstract specification of an at-least-once delivery | `outcome`, `received` |
| `MCEventPush` | which kinds a run's routes accept | |
| `EventPushProofs` | theorems and proofs | |
| `ImapFolders` | COPY, STORE and the two expunges, each a command of its own | `mail`, `job`, `faults`, `reliable`, `deleted`, `unseen` |
| `Snooze` | the table, the snoozing commands, the four programs that return | `rows`, `time`, `ever`, `strays` |
| `Bulk` | bulk moves and deletions, the single one, a run of the rules | |
| `Mailroom` | their composition, fairness and properties | `crew` |
| `MCMailroom` | folders, and who works with whom | |
| `MailroomProofs` | theorems and proofs | |
| `Transfer` | what a migration and a restore share: two accounts, folders, batches | `source`, `dest`, `run`, `faults`, `overlap` |
| `Migration` | `envelope migrate` and its map of copied UIDs | `uidMap` |
| `Backup` | `envelope backup export`, `verify`, `restore`, `audit-state` | `created`, `files`, `manifest`, `lines`, `tail`, `exported`, `torn` |
| `Relocation` | their composition and properties | `setting`, `edits` |
| `MCRelocation` | folders, Message-IDs, and who runs what | |
| `RelocationProofs` | theorems and proofs | |
| `ThreadCache` | the rows and the sync state, one operator per statement | `cached`, `lastId`, `sync` |
| `AddressBook` | contacts and the history, one operator per transaction | `contacts`, `hist`, `index`, `sent`, `recording`, `tagging`, bookkeeping |
| `ThreadScan` | `build_threads`, statement by statement, and the server | `box`, `top`, `epoch`, `scan`, `parser`, `faults`, `lapsed` |
| `Correspondence` | their composition and properties | `cast` |
| `MCCorrespondence` | folders, parsers, and who acts | |
| `CorrespondenceProofs` | theorems and proofs | |

The five compositions share no state the models keep: a watch reads no draft,
what the outbox logs as events (the gate's outcomes, a correction) is inserted
without queueing a delivery, drafts never lie in the folders that snoozes and
bulk calls of the model touch, a migration only reads its source, and the address
book reads of a draft that it was sent and to whom, which `AddressBook` keeps in
`sent`.

How the state of the outbox corresponds to the code:

* `drafts[d]` is the row. Its columns and metadata keys are named after the
  code's (`sendAfter` is `send_after`, `token` is `operation_token`, `imapUid`,
  `imapSynced` is `storage.imap_synced`, `humanSend` the revision in the
  Human-only Send block, `decl` the persisted attribution block, `sendBlock`
  the reason recorded when a sweep parks a draft).
* Recipients, subject, bodies and attachments are one counter, `content`: all the
  code asks of them is whether they changed. `rev` is `content_revision`. They are
  two fields so that a write that changes one without the other would show.
* A time is `none`, `later` or `due`; `BecomeDue` is the clock. Backoff after a
  failed attempt is the sweep's next tick.
* A lease token is a member of `Token` no row carries, as a fresh UUID is. With
  every token on a row nobody can claim: `Token` bounds the claims of a run that
  are never given back, nothing else.
* A provider copy has its draft's Message-ID and one version of the content, so
  copies are a set of versions, and a UID is the version it holds.
* Each process is a record with a control point `pc` and the locals that live
  across an await. A dashboard handler holds the database mutex throughout, so
  it is one action; the revision it is given comes from `view`, the page the
  human has open, which may be old. The agent's two transactions meet in `plan`.
* `ledger` is not in the code. It records which content each party really
  decided about, and the authorization properties compare it with the row.
* Faults (crash, failed database write, lost SMTP acknowledgement, failed IMAP
  call, unreachable Governor) are alternatives guarded by `Faults`.

How the state of the push corresponds to the code:

* An event is named by its idempotency key (UIDVALIDITY, UID, kind); `events` is
  the set of keys the unique index holds. A delivery is an event and a route, as
  `delivery_row_id` is.
* `deliveries[d]` is the row: `attempts` is `attempt_count`, `next` is
  `next_attempt_at` (null, later, due), and `dead` and `delivered` say whether
  `dead_lettered_at` and `delivered_at` are set. `BackoffElapses` is the clock;
  the durations of the backoff are not modelled, only that they elapse.
* `watcher[w]` holds the loop's `last_uid` (`last`), `current_uid_validity`
  (`known`), and the messages fetched and not yet handled (`todo`). Every
  statement of the loop is an action, since another watch, an executor or a crash
  may come between any two.
* `executor[x]` holds the rows a pass listed, each with the count it had then.
  The sweeper of the dashboard is an executor; a watch with `--deliver` is one
  under its own name, and takes its pass with it when it stops.
* `posts` and `received` count what was sent and what the receiver took; an
  answer may be an error, or get lost, after the receiver took the event.
* `began`, `retries` and `earlier` are not in the code. They record the folder a
  watch found, the operator's retries and the events older than a route, for the
  properties.

The bounds of the push are `MaxUid` and `MaxValidity` (of the folder), `MaxPosts`
(of a delivery), `MaxRetries` (of the operator, per delivery) and the sets of
processes. `MaxAttempts` is 5 in the code and 0 or 1 in the runs: the count is
compared with it and nothing else.

How the state of the mailroom corresponds to the code:

* A UID is the position at which a message entered its folder. `mail[f][u]` is
  the copy there, or `Nobody` once it was expunged; a copy has its `\Deleted` flag.
* `job[w]` is a command in execution with its locals: the UIDs of the command at
  hand (`now`), those still to be done one by one (`rest`), the outcome lists.
  COPY, STORE and the expunge are three steps, and other workers act in between.
  Without UIDPLUS the expunge takes every flagged message of the folder.
* `rows` is the table `snoozed`. `owner` is the form of the account the row was
  stored with: the CLI writes the e-mail address, the dashboard the account's id.
* The dashboard keeps one connection per account and takes it for a row or a
  request at a time; CLI commands have connections of their own.
* `deleted`, `unseen`, `strays` and `ever` are not in the code. They record what
  users asked to delete, what a move marked that its COPY had not met, what
  a return moved for another message's row, and every row there ever was.

Left out: a Message-ID that is a substring of another (the search is a substring
search), batches of more than one chunk, bulk copies, flags and tags, and
`snooze check-replies` with its escalation.

How the state of the relocation corresponds to the code:

* `source[f]` is a folder's UIDVALIDITY and its messages by UID; the owner may
  remove a message or have the folder renumbered (`edits`). `dest[f]` counts the
  copies a destination folder holds: nothing there reads UIDs.
* `run[w]` is a command with its locals: the folders and UIDs left, the batch
  fetched, the message at hand. A batch comes in the order of the server, so any
  member may be next. `failed` counts what the exit code depends on.
* `uidMap` is `migration_uid_map`: source folder, UIDVALIDITY and UID.
* `files`, `manifest` and the sidecar are the archive directory. `lines` are the
  sidecar's complete lines; `tail` is what stands after its last newline, since an
  append that fails half way leaves a torn line which the next one continues.
* A digest is modelled by what it does: a file is the message of its record, or
  `Damaged`, and reading one compares the two.
* `listed`, `exported`, `overlap` and `torn` are not in the code: what a run's
  listings found, whether two runs were ever at work at a time, and whether a line
  ever lacked its newline.

Left out: `--dry-run`, `--strict`, symbolic-link and path checks, the globs that
select folders, and a manifest that is itself damaged.

How the state of the correspondence corresponds to the code:

* A row of `cached` is a row of `thread_messages`: id, folder, UID, message and
  the correspondents its address columns name. `sync[f]` is the row of
  `thread_sync_state`. Ids grow, because the address history reads above a
  watermark of them.
* `hist` is `address_history_state` (watermark and rebuild mark), `contacts` the
  table with its counters and the mark of a row the history made itself.
* `scan[w]` is a scanner between two statements. Its statements fail as the code
  lets them: most errors are warned about, and the scan goes on.
* `parser` is the version of the code that reads headers; `Upgrade` installs the
  one that finds the right correspondents, which is what reconciles are for.
* `owed`, `forgotten`, `curated`, `known`, `rebuilding`, `indexed` and `lapsed` are
  not in the code. They record which exceptions a property has to make, and why.

Left out: which thread a message joins, the ranking of suggestions, display names,
timestamps, the contents of tags and case variants of an address. Every message
has a Message-ID and names an address at most once, the server gives a
UIDVALIDITY, the index is refreshed at once, and upgrades happen between scans.

In these three, the compositions choose at the start who may act (`crew`,
`setting`, `cast`) and how much may fail: a behaviour is one such choice, and a
run checks all of its `Settings`.

The bounds of the outbox are `MaxEdits` (material edits of a draft), `MaxDeliveries` (messages
accepted for a draft), `Token`, and the sets of processes. `MaxAttempts` is the
code's constant and 3 in every run, as in the code.

## 3. Runs

The `outbox` runs use `MCOutbox` and set `CHECK_DEADLOCK FALSE`: a system whose
drafts are all sent or discarded has nothing to do. So do `mailroom`, `relocation`
and `correspondence`, whose commands end and whose faults are used up. The `push`
runs use `MCEventPush` and check deadlock: a watch can always be started or
stopped.

| Run | Instance | Question |
|---|---|---|
| `outbox_decisions` | 1 local draft by a human, an agent or unknown; two sweeps; human and agent; 2 edits; faults | what is authorized, declared, held, bounded, frozen |
| `outbox_immediate` | 1 draft; a sweep, two immediate sends; human and agent; faults | who transmits, how often; refinement of `DeliveryPromise` |
| `outbox_sync` | 1 draft with a provider copy; a sweep, an immediate send, a modify or discard; agent; faults | the sync lease against the send leases |
| `outbox_reliable` | two modify or discard commands, an immediate send, 2 edits, no fault, no dashboard edit | the provider copies when nothing fails |
| `outbox_liveness` | 2 drafts, one attended and one delegated; one sweep; no fault; fairness | the outbox drains |
| `push_watch` | 2 UIDs, a renumbering; a watch with `--deliver` and one without; no route, no fault | nothing new forgotten, nothing old announced, every code announced |
| `push_promise` | 1 message; a watch and the sweeper; an operator's retry; faults | refinement of `PushPromise` |
| `push_liveness` | the same without faults, up to 8 posts; fairness | every event queued, counts true, dead letters deserved; every queued delivery settles |
| `mailroom` | 3 messages, one without Message-ID, 3 folders, no UIDPLUS; 8 crews of two workers; up to 2 faults; fairness | what moves may lose, what a bulk call reports, that snoozed mail comes back |
| `relocation` | 3 messages in 2 folders, two with one Message-ID and one without; 6 crews; up to 3 faults, 2 changes by the owner | reruns, overlaps, crashes: nothing left behind, nothing twice, nothing damaged |
| `correspondence` | 3 messages, 2 addresses, 2 folders; 8 casts; a fault, a renumbering, an upgrade | counts, rows and the UID reached agree |
| `outbox_retry` | a sweep and an immediate send | the disagreement of section 6: its property must be violated |

Properties, each stated with the code it is about in the compositions:

* `ClaimsExclude`, `ClaimFreezesRow`, `OrphansAreInert`: leases.
* `NoOtherDuplicate`, `TerminalIsFinal`, `KeepsDeliveryPromise`: deliveries.
  Their one exception is `Unconfirmed`, an
  immediate send whose SMTP error came after acceptance (section 6, first item).
* `GovernorSkippedOnlyByClick`, `ApprovalCoversContent`,
  `DeclarationCoversContent`, `HeldStaysHeld`, `CorrectedIsGoverned`:
  authorization.
* `OneProviderCopy`, `CopiesAreKnown`, `SendsClaimedContent`: provider copies.
  They hold when nothing fails and nobody edits at the dashboard, and not beyond
  (section 6).
* `OutboxDrains`: progress.
* `WatermarkCovered`, `GenuinelyNew`, `CodesAreAnnounced`, `EventsAreQueued`:
  from the folder to the queue, when no statement fails.
* `AttemptsCountPosts`, `DeadIsDeserved`: from the queue to the receiver. They
  hold however executors race, since `attempt_count` is incremented in SQL.
* `KeepsPushPromise`: the whole, racing and failing. `DeliveriesSettle`: progress.
* `NothingElseIsLost`: with every fault and race, a message nobody deleted keeps a
  copy no expunge can take, except where two moves of one UID race (section 6).
  `BulkReportsTruth`: `succeeded` and `failed`, retries included, for a worker that
  runs commands on the folders alone: if another moves the message meanwhile, the
  report is of a UID that names nothing any more, and a row that comes due would put
  a message back that a bulk call had just filed.
* `ReturnsItsOwn`, `SnoozedComesBack`: a return moves the message its row is of,
  and in the end moves it. Both are about a mailroom where nothing fails, with one
  worker that returns, one that snoozes, none that moves or deletes (`Orderly`), and
  messages with a Message-ID. Beyond that the UID in the row may name another message:
  a snooze copies a message with its `\Deleted` flag if a deletion has set it, the
  EXPUNGE of a return takes whatever carries the flag, and the UID is free again.
* `MigrationCovers`, `MapIsTrue`: a migration that reports success, and the map a
  rerun trusts, with overlapping runs and every fault. `NoSecondCopy`: runs one
  after the other, migrations and restores mixed.
* `RestoreIsIdempotent`, `RestoreAccounts`: the sidecar. A folder gets no more copies
  of a message than the archive has records of it for that folder, with or without a
  Message-ID, and what is not restored again `audit-state` names. Both except a line
  torn by a failed write.
* `ManifestIsComplete`, `RestoresGenuine`: the archive.
* `CountsAreTrue`, `SentIsSuggestible`, `CuratedStays`: the address book, while
  scans rewrite the rows it counts and rebuilds are under way.
* `IndexCovers`: the scan's watermark, except after a failure that is passed over, and
  after a rebuild that clears the sync state under another scan (section 6).

Why the bounds are enough. A draft's row is guarded only by its own columns, and
no store method reads two rows, so drafts interact only through a sweep's due
list; the liveness run has two for that reason. Two sweeps, or two immediate
sends and a sweep, are the smallest sets in which a claim can be lost to a peer
of the same kind and to one of the other. Two edits give a stale page, a newer
one and the revision after both. Two or three deliveries leave room for the
duplicates that the properties exclude. The proofs of section 5 remove the
bounds for the lease properties.

In the mailroom a UID is reused by nobody, so races need two workers on one
folder and a third message that arrives under the number another had; four UIDs
leave room for every message to go away, come back and go again. Two rows give a
row whose message was replaced by another's. In the relocation two messages share
a Message-ID and one has none, in folders that a restore maps onto one, which are
the three cases of the duplicate check; two UIDVALIDITY values give a UID that
meant another message; three faults fail a step of each of three runs in a row;
batches of two leave a batch begun. In the correspondence a chunk is two rows of
up to six, so a reconcile is interrupted between chunks, and a send window of one
lets the second send push the first out of it.

Statements on deliveries read and write one row, so one route and one or two
kinds of event give every interleaving of a row's writers. Two executors are the
fewest that can race, and one backed-off retry is the fewest for which a stale
count and a fresh one decide differently. Two UIDs and one renumbering give a
batch that another arrival overtakes and a watermark that belongs to the old
numbers. Eight posts are more than two executors can make there: a pass that was
stopped by the bound would never settle its row, and `push_liveness` would fail.

Fairness. `FairSpec` assumes weak fairness of each sweep's steps and of the
clock: the ticker runs every 60 seconds, and a sweep has no step that waits for
another actor. Nothing is assumed of the human, of the agent or of any command.
For the push, `FairSpec` assumes weak fairness of each executor's steps (the
sweeper ticks every 60 seconds, and a POST ends after `REQUEST_TIMEOUT` at the
latest) and of the clock. A watch need not run: the sweeper alone settles the
queue. `DeliveriesSettle` is checked without faults, since an executor that
crashes in every pass settles nothing.
For the mailroom, `FairSpec` assumes weak fairness of time and of each program
that was started, and strong fairness of the start of a sweep: the ticker starts
one every 60 seconds, and a worker that is busy is free again later.
`OutboxDrains` assumes that queue calls end, since a queue call restarts the
count, and is checked without faults, since a Governor that is unreachable for
ever keeps a draft due for ever, by design.

## 4. Mutants

Each property has a mutated definition, next to the original, of the kind a
plausible bug would introduce: a status or due-time test missing from a claim, a
release where a park belongs, an edit that keeps the revision, a count that
starts over. `PROJECT.json` says which property must notice which.

## 5. Proofs

`OutboxProofs` proves, for every set of drafts, tokens, sweeps, senders and
syncers, for every value of the bounds and of `Faults`:

* `TypeCorrect == Spec => []TypeOK`;
* `Exclusion == Spec => []ClaimsExclude`;
* `Invariance == Spec => []IInv`, from which both follow.

The assumptions are the named ASSUMEs of the modules, which say that the bounds
are naturals, that the "none" values are not members of the sets, and that
`Attended`, `Delegated` and `LocalOnly` are subsets of `Draft`. Every
run evaluates them.

Neither goal is inductive. That a row's `token` stays a token needs to know that
the process that writes it holds one; that a process passes a row to a store call
needs to know that its `snap` was read by then. So
`IInv == TypeOK /\ LocalsOK /\ RowsOK /\ ClaimsExclude`:

* `LocalsOK` says what each control point implies of a process's locals: which
  steps run under a lease, and which locals hold a value;
* `RowsOK` says that content and revision advance together, which gives the
  revision its type after an edit bounded on the content;
* `ClaimsExclude` adds that each lease holder owns its row (`LeasesAreOwned`):
  two holders would then own one row under one token, and a claim takes a token no
  row carries, so none that a holder has.

Its first part states once, for each store method, what it does to the table: one
row is replaced by a row of the right type, with the status and token named. Then
it has a lemma for each way a process can touch a lease (it keeps
what it has, gives one up, wins one), then one lemma per process kind with one
step per action, and puts them together.

`EventPushProofs` proves of `EventPush`, for every set of watches, executors and
routes, every `Matches`, and all values of the bounds and of `Faults`:

* `TypeCorrect == Spec => []TypeOK`;
* `PushImplementsPromise == Spec => KeepsPushPromise`, that is, that it
  implements `PushPromise` under the map that `Outcome` gives;
* `Invariance == Spec => []IInv`, on which both rest.

Here `IInv == TypeOK /\ PassesOK`. A step of a pass is a step of the promise only
because the row was queued and, for a success, the receiver took it; both are
facts about the pass's own past, which `PassesOK` states at each control point.
Other executors write the same row in between, and the invariant survives them
because no statement removes a row (`RowsKept`) and `received` never shrinks. One
lemma per SQL statement says which step of the promise it is; a failure written
over a delivered row is a stutter, since `delivered_at` is never cleared and
comes first in `Outcome`.

Its second part proves what the push adds to that promise when no statement fails, so
under `~Faults`, which each theorem names: with a failed insert or a crash, which
the code logs and passes over, none of these holds. They are `WatermarkCovers`,
`OldStaysQuiet`, `CodesFollow`, `NothingUnqueued` (if `Delivering = Watcher`: a watch
without `--deliver` queues nothing), `CountsAddUp` (for a finite `Executor`, since it
counts them) and `DeadDeserves`, for `WatermarkCovered`, `GenuinelyNew`,
`CodesAreAnnounced`, `EventsAreQueued`, `AttemptsCountPosts` and `DeadIsDeserved`.

The watermark's property is not inductive: a batch is taken in any order, so the
watermark may jump over messages still in it. `WatchInv` says what is owed up to the
highest message the batch still has (`Reached`), and that a folder selected again
never has an older UIDVALIDITY. An event is queued by the watch that inserted it,
since nothing but its own next step moves a watch with a message in hand, and a route
owes nothing for events older than it (`NoNewDebt`). For the counts, `PushFacts` says
that the count a pass read is never ahead of the row's, so a row that a stale
executor gives up has used up its own retries too; that a watch has a pass only while
it drains, so none is stopped in a POST; and that a row nobody queued was never
posted. `Bookkeeping` deals at once with all steps that begin and end no POST.

`RelocationProofs` proves of `Relocation`, for every set of messages, folders and
workers, every assignment of Message-IDs, every batch size, mapping and set of
settings, however many runs overlap, crash and fail:

* `TypeCorrect == Spec => []TypeOK`;
* `OnlyGenuine == Spec => []RestoresGenuine`;
* `MapStaysTrue == Spec => []MapIsTrue`;
* `CopiedOnce == Spec => []NoSecondCopy`;
* `NothingLeftBehind == Spec => []MigrationCovers`;
* `ManifestCovers == Spec => []ManifestIsComplete`;
* `RestoreLeavesNothingSilently == Spec => []RestoreAccounts`;
* `RestoredOnce == Spec => []RestoreIsIdempotent`.

Each rests on the type invariant with `AtHand`, which says what each step of a
run implies of the message or record at hand, and on an invariant of its own:

* `MapInv` adds `RecordsCopies`: a run that is about to record a message as copied
  has it in the destination. Nothing is ever removed there.
* `CopyInv` adds `Alone`, that without an overlap one run at most is at work, and
  `LooksFirst`, that a run about to append has found no copy, which stays true
  because nobody else could append in between.
* `CoverInv` adds `KeysOK`, that a key ever seen names the same message for as long
  as its folder has that UIDVALIDITY, and `Covers`: what a run listed is in the
  destination, removed by the owner, in hand, or among the UIDs left. The map's
  part in it is that a skipped key was copied (`MapIsTrue`) and still is the message
  it was (`KeysOK`).
* `ExportInv` is the same argument for an export, with the records of the archive in
  the place of the copies: that one export writes at a time (`OneExport`), what its
  listing holds (`Exports`), and that a key saved names the message it named
  (`SavedKeys`), although the file is read long after the listing.
* `SidecarInv`, for `RestoreAccounts`: a line that says done has its message in the
  destination (`DoneIsThere`), and what a restore's plan leaves out the sidecar names
  (`Planned`), whoever else adds lines.
* `RestoreInv`, for `RestoreIsIdempotent`, counts: with one run at a time, the copies
  of a message in a folder are at most the records the sidecar names (`Counted`), less
  the one noted and not yet appended. A pending line spends a record before the
  APPEND (`Fresh`), which is why a crash on either side of it makes no second copy.

The assumptions are the modules' ASSUMEs; the one the proofs lean on is that
`Damaged` is no message.

`DeliveryProofs` goes on from the invariant of `OutboxProofs` to what recipients
get, for the same constants:

* `NoDuplicates == Spec => []NoOtherDuplicate`;
* `ClaimsFreeze == Spec => []ClaimFreezesRow`;
* `TerminalStays == Spec => TerminalIsFinal`, and
  `OrphansStayInert == Spec => OrphansAreInert`, both action properties;
* `OutboxImplementsPromise == Spec => KeepsDeliveryPromise`: `Outbox` implements
  `DeliveryPromise`;
* `SendingInvariance == Spec => [](SettledInv /\ FrozenInv)`, on which three of
  them rest.

The some sixty actions are looked at once: `StepHasEffect` says that a step is a
sweep's, which stays, drops or takes a lease, transmits, releases or closes; or an
immediate send's, likewise; or writes a row no sender holds and transmits nothing.
Everything after that is about these effects. `SettledInv` adds to
`NoOtherDuplicate` that a draft with a message that settles it is claimed or closed,
and its holder past the transmission: so no release reopens it, no claim takes it,
and no second message leaves. `FrozenInv` adds to `ClaimFreezesRow` that a row a
sweep holds is due, so that the clock, the one writer that minds no claim, has
nothing to do there.

`DecisionProofs` proves that a decision counts only for the content it was given
for, again for every value of the constants: `ApprovalsCover`, `ClicksCover`,
`DeclarationsCover`, `HoldsLast` and `CorrectionsGoverned`, for
`ApprovalCoversContent`, `GovernorSkippedOnlyByClick`, `DeclarationCoversContent`,
`HeldStaysHeld` and `CorrectedIsGoverned`. The invariant, `DecisionInv`, is about
what rows, pages and processes remember. A revision a row records for a decision is
one the ledger has that decision for, *whether or not it is the row's present
revision*: so an edit, which makes it another one, needs no care. A page and a plan
show revision and content of one reading (`PageWhole`), so the comparison of
revisions at the click is one of contents. A modify that writes a declaration back
carries one that was made (`CarriesDeclared`). The sweep's failed attempt is recorded
in the declaration of the row as it was loaded, and that this is the row as it is
comes from `FrozenInv`; `HeldStaysHeld` follows from a held row having no schedule
and a row held by a sweep being due, again by `FrozenInv`.

`CopyProofs` is about a draft's copies at the provider. Its theorems are under
`~Faults`, which each names: a modify that cannot clear the old copy forgets it, and
a creation whose APPEND reports an error may have stored one (section 6). They are
`OneCopy` and `CopiesStayKnown`, for `OneProviderCopy` and `CopiesAreKnown`, and
`ImmediateSendsTheRow`, for `SendsClaimedContent`, where `Attended = {}` is assumed
too, since a dashboard edit does not reach the copy. `CopyInv` says:

* a folder has no copy or one, of the row's content if only modifies edit the draft
  (`Current`), and the row knows of it unless a modify holds it (`Rested`);
* a modify asks the row it read *before* its claim whether there is a copy, so that
  snapshot must know too. It does because the claim compares revisions: as long as
  the row is at the snapshot's revision, the snapshot knows of the copy (`Reads`);
* an APPEND could break this for another modify that has read the same row. It comes
  after the edit, which has moved the revision on, so whoever else has read the row
  is behind it (`Behind`) and will lose its claim; that no read falls between the
  edit and the release comes from reads being refused under a lease.

All other steps are `Calm`: they append nothing, change no sync lease, and let no row
but a sent one forget a copy. `FaithfulInv` follows a send: it loads under a UID it
read before its claim, which, if it is in the folder, is the one copy there is, and
that has the row's content, since no modify is between its edit and its APPEND on a
row in `sending`.

`MailroomProofs` proves of `Mailroom`, for any messages, folders, workers and
programs, and whatever commands fail:

* `MailroomTyped == Spec => []TypeOK`;
* `NothingElseLost == Spec => []NothingElseIsLost`;
* `BulkReportsWhatItDid == Spec => []BulkReportsTruth`;
* `ReturnsOwn == Spec => []ReturnsItsOwn`.

A message is safe only as long as some copy of it will not be expunged, so
`LossInv` says more than that a copy is left: `AllClear` has, for each message
nobody asked to delete, a copy without `\Deleted` that no move is about to mark
(`Threatens`). A move that has just copied the message threatens the copy it read, and
then the one it made is the clear one; `MetBounded` keeps the two apart. The one
exception is the property's own, a UID named before the message had it. The commands
are taken one at a time, COPY, STORE and the two expunges, whichever of the nine
programs sends them. `BulkInv` is about one worker whose folders nobody else touches
(`Sole`): the UIDs asked for are split among done, failed and left (`Books`), and
each that is done is settled, in the destination or to be deleted (`Settled`), also
when a batch failed half-way and is repeated UID by UID.

`OwnInv` is a count. In an orderly mailroom, for each message, the rows that wait to be
returned (`Awaiting`) and the snoozes that have copied it and not written its row
(`Pending`) are together no more than its copies in Snoozed that no return is taking
out (`Available`). A row that is taken up counts no longer, nor does the copy its return
moves; so the search by Message-ID finds a copy of the row's message, and the UID of
the row is not used. That nothing else takes a copy out of Snoozed is `MarkedByMove`:
only what a move is about to expunge carries `\Deleted`, so that even an EXPUNGE
without UIDs removes no more, and with one snoozer and one returner (`Lone`) no copy
is made of a marked message.

The proofs rest on four assumptions: that the inbox is not the archive
(`FoldersAssumption`), that every message starts in some folder
(`InitiallyAssumption`), that `Nobody` is no folder and no copy (`NobodyAssumption`),
and that finitely many programs run (`WorkerAssumption`), without which "at most one
returner", a cardinality, would say nothing.

`CorrespondenceProofs` proves of `Correspondence`, for any addresses, folders, chunk
size and number of scans, with renumbered folders, failures and rebuilds:

* `CuratedKept == Spec => []CuratedStays`;
* `SentStaysSuggestible == Spec => []SentIsSuggestible`;
* `EveryRowCountedOnce == Spec => []CountsAreTrue`;
* `IndexReachesItsUid == Spec => []IndexCovers`.

All rest on `WellFormed`: row ids are unique and given out in order, a scan's locals
are what its control point implies. The first two need little else, as every
statement of the address book is one of few effects on contacts.

* `CountInv`, for the counts: a reconcile adds a chunk that is exactly the rows
  between the watermark and its new mark (`MarkOK` keeps the mark behind the last id,
  so that a row inserted later is above it). A scan that rewrites or removes a row
  under the mark must first have made the history stale, and what it looked up before
  that is still the message's row (`StaleInv`). The proof is a count of finite sets:
  the contacts of an address before, and the rows of the chunk that name it.
* `IndexInv`, for the watermark: as long as nothing has lapsed, each folder is `LiveAt`.
  A scan that read the server's present UIDVALIDITY *tracks* the folder: what it has
  not yet written, among the messages up to the UID it will record, is still in its
  hands or has a row; and the recorded UID is covered by rows (`Holds`) whenever the
  stored UIDVALIDITY is the server's. That a scan past its wipe is the latest of its
  folder (`Latest`) is what a second scan after a renumbering breaks, and what
  `lapsed` records. `PastInv` says that nobody is ahead of the server.

The assumptions are the modules' ASSUMEs: the "none" values are of no set
(`NoRowAssumption`, `NoSyncAssumption`), the first mailbox is a function into messages
with UIDs from one (`InitiallyAssumption`), and the bounds are naturals.

Only model-checked: the liveness properties (`OutboxDrains`, `DeliveriesSettle`,
`SnoozedComesBack`), since the prover has no rule for fairness.

## 6. Where the code and its documentation disagree

`outbox_retry` is the one finding with a run. An immediate send whose SMTP call
errs releases its claim to `draft` whatever the server did, and the schedule stays
on the row. If the draft was also queued, the next sweep transmits it again. The
changelog and both send paths' comments promise no automatic retry.

The models mark further places where a promise or a property stops holding. Those
with a name in parentheses are stated in a module, for whoever changes that code,
and no run checks them.

Drafts and deliveries:

* Blocking a queued draft keeps its schedule. Approving it then puts it back in
  the outbox, although approval "queues nothing" (`ApproveQueuesNothing`;
  `store/src/drafts.rs:494`, `dashboard/src/handlers/drafts.rs:568`).
* A crash or a failed statement between the insert of an event and its
  enqueueing leaves an event that no retry will find, although delivery is
  "at-least-once" (`cli/src/commands/watch.rs:120`). `PushPromise` therefore begins
  at the queued delivery.
* `SendsClaimedContent` needs a run without dashboard edits: an immediate send of
  a linked draft transmits the content of the provider's copy, which such an edit
  does not reach (`LoadContent` in `ImmediateSend`).
* `OneProviderCopy` needs IMAP calls that succeed: a modify that cannot clear the
  old copy records the draft as local only, and the next modify appends anew.
* `GenuinelyNew` needs a first search that succeeds: otherwise the watermark
  starts at zero (`unwrap_or(0)`).
* A row may be both delivered and dead: executors that list the same row both
  post it, each decides from the count it read, and the later write stays. That
  is why `Outcome` reads `delivered` first, as `envelope events deliveries list`
  does, and why the number of POSTs of a delivery has no bound in terms of
  `MAX_ATTEMPTS` alone.

Moving and snoozing:

* COPY of a UID that is not there succeeds without copying, and the STORE that
  follows names the same UID. If the message arrives under it in between, it is
  marked and expunged without a copy (`NothingIsLost`; `email/src/imap.rs:1772`).
* `envelope unsnooze` compares rows kept in UTC with local time, which the
  dashboard's sweep takes care not to do (`ReturnsWhenDue`;
  `cli/src/commands/snooze.rs:280`, `dashboard/src/lib.rs:574`).
* The dashboard stores a snooze under the account's id, the CLI under its e-mail
  address: `envelope unsnooze` and `snooze cancel` do not find the dashboard's rows.
* A bulk batch that fails after its COPY is repeated UID by UID, which copies its
  messages twice; the answers to STORE and EXPUNGE are not read.

Copying an account:

* A restore whose APPEND failed leaves the pending line, and a rerun takes it for
  done. `RestoreAccounts` says that `audit-state` names these messages; asked
  for by e-mail address it finds no sidecar, as that is named by the id
  (`AuditKnowsTheAccount`; `cli/src/main.rs:1550`).
* A sidecar line torn by a failed write swallows the next line, and a later run
  may append again what it stood for (`RestoreNeverDuplicates`;
  `cli/src/commands/backup.rs:964`).

Thread cache and address book:

* A contact that a tag command has read may be swept by a reconcile before the
  command takes it over, and the tag is lost (`TaggedStays`;
  `store/src/contacts.rs`); so are tags of two commands on one contact.
* A scan that wiped a folder and could not write a row goes on and records the UID
  it reached; so do two scans after a renumbering. The messages passed over are
  behind the watermark for good (`lapsed` in `ThreadScan`).
* `--rebuild` clears the sync state of all folders, also under a scan that has read
  its own and still writes: a scan that begins then reads the folder anew, and of the
  two UIDs recorded the later write stays, whichever rows are there by then. Attempting
  the proof of `IndexCovers` brought this out; the model counts it as lapsed.
* The rows are changed by one statement and the history is told by another:
  a scan that ends in between leaves counts that no later reconcile corrects (`owed`).
* A reconcile between the record of a send and the scan of its Sent copy counts the
  message from both (a test in `address_book.rs` accepts it). That is why
  `CountsAreTrue` bounds the count instead of fixing it.
* A first scan or a rebuild of a folder that has a UIDVALIDITY is not bounded by
  `--limit`.

Pure functions met on the way, not modelled: in a glob, a `*` that stands against a
literal `*` of the text is taken for that character, so `*x` does not match `*ax`
(`glob_match_inner`, `email/src/rules.rs:191`); a rule without conditions is
commented "matches nothing" and matches everything (`build_match_expr`, same file,
line 269); `next week` is commented "Next Monday" and is a Tuesday
(`cli/src/commands/datetime.rs:125`).

## 7. Not modelled

* The decision which facts imply which attribution codes, and the Governor's
  verdict: the gate is its outcomes.
* Message text, MIME, headers, threading, Bcc and Reply-To.
* The evidence recorded after a send (Sent copy, URLs), which no decision reads.
* The steps of a draft's creation: `Init` ranges over what creation can leave.
* The superseded Message-IDs of a draft: a draft has one identity.
* The one-shot `--webhook` POST of a watch, the acknowledgement of events, and
  the redefinition of an existing route; signatures and bodies of webhooks.
* Bulk copies, flags and tags; the replies that `snooze check-replies` looks for.
* The matcher of rules and the upload of a Sieve script.
* The grouping of messages into threads, the ranking of suggestions, message tags.
* Schema migrations, cryptography, packaging and the web client.
* The components of section 1 with no module, which the plan takes up.

## 8. Plan

In order of what can go wrong in them:

1. Draft creation as steps, and superseded identities
   (`cli/src/commands/drafts.rs:645`, `store/src/drafts.rs:1081`).
2. The order of `run_discard` and the fields of a message sent from its provider's
   copy (`cli/src/commands/drafts.rs:3016`, `:2660`), once there is a promise to hold
   them to.
3. Proof of the Sent copy and the relationship facts drawn from it.
4. Credential migration between backends; Sieve upload and activation.
5. Pure algorithms against reference definitions: attribution codes, send policy,
   rule matching, threading.
