---------------------------- MODULE AddressBook ----------------------------
(***************************************************************************)
(* The contacts of one account and the history folded into them            *)
(* (crates/store/src/address_book.rs, contacts.rs).                        *)
(*                                                                         *)
(* A contact's history is counted from three local sources: the thread     *)
(* cache, read once above a durable watermark; the dashboard's INBOX       *)
(* snapshot and the newest sent drafts, recounted whenever the watermark   *)
(* has reached the end.  Every operation but the tagging of a contact is   *)
(* one transaction or one statement, and so one step.                      *)
(***************************************************************************)
EXTENDS ThreadCache, Sequences

CONSTANTS
    Parsed,      \* [{"old", "new"} -> [Message -> SUBSET Address]]: the
                 \* correspondents each version of the header parser finds
    ChunkRows,   \* ADDRESS_HISTORY_CHUNK_ROWS
    SentWindow,  \* SENT_DRAFT_WINDOW
    MaxSent      \* bound on the drafts sent

ASSUME BookAssumption ==
    /\ ChunkRows \in Nat \ {0} /\ SentWindow \in Nat \ {0} /\ MaxSent \in Nat
    /\ Parsed \in [{"old", "new"} -> [Message -> SUBSET Address]]

VARIABLES
    contacts,    \* [Address -> Nobody or the row]
    hist,        \* address_history_state: Nobody or [mark, dirty]
    index,       \* indexed_message_summaries: the messages of the snapshot
    sent,        \* the recipients of the sent drafts, oldest first
    recording,   \* drafts marked sent whose recipients are still to be recorded
    tagging,     \* Nobody, or [addr, there]: the row a tag command has read, and whether
                 \* its id still names one
    \* not in the code:
    owed,        \* a scan ended between changing rows and invalidating the history
    forgotten,   \* contacts deleted by hand since their history was last rebuilt
    curated,     \* contacts added by hand, or taken over by a tag
    known,       \* sent drafts the history has taken in
    rebuilding,  \* a rebuild has not reached the end of the cache
    indexed      \* every message any snapshot held

bookVars == <<contacts, hist, index, sent, recording, tagging, owed, forgotten, curated,
              known, rebuilding, indexed>>

Contact == [history : Nat, sent : Nat, derived : BOOLEAN]
ASSUME NoRowAssumption ==
    Nobody \notin Contact \cup [mark : Nat, dirty : BOOLEAN] \cup [addr : Address, there : BOOLEAN]
Signal(c) == Max({c.history, c.sent})

BookInit ==
    /\ contacts = [a \in Address |-> Nobody]
    /\ hist = Nobody /\ index = {} /\ sent = <<>> /\ recording = {} /\ tagging = Nobody
    /\ owed = FALSE /\ forgotten = {} /\ curated = {} /\ known = {} /\ rebuilding = FALSE
    /\ indexed = {}

-----------------------------------------------------------------------------
(* The reconcile.                                                          *)

\* record_sent_drafts: one window and one count, for the reconcile and for the
\* recording of a send.
Window == {i \in DOMAIN sent : i > Len(sent) - SentWindow}
SentTo(a) == Cardinality({i \in Window : sent[i] = a})
InSnapshot(a) == Cardinality({m \in index : a \in Parsed["new"][m]})

\* load_state: a missing state row, one of an older version of the derivation
\* and an invalidated one all start over.
Rebuilds == hist = Nobody \/ hist.dirty
Watermark == IF Rebuilds THEN 0 ELSE hist.mark
Batch == {r \in cached : /\ r.id > Watermark
                         /\ Cardinality({q \in cached : q.id \in Watermark + 1 .. r.id}) <= ChunkRows}
Pending == Cardinality(Batch) = ChunkRows

\* Mutant: the chunk does not recount the sent drafts.
ObservedReceived(a) == [delta |-> Cardinality({r \in Batch : a \in r.who}),
                        recount |-> IF Pending THEN 0 ELSE InSnapshot(a), sent |-> 0]
\* What the chunk saw of an address: new rows, which add, and the recounted
\* sources, which are a floor.
Observed(a) == [delta |-> Cardinality({r \in Batch : a \in r.who}),
                recount |-> IF Pending THEN 0 ELSE InSnapshot(a) + SentTo(a),
                sent |-> IF Pending THEN 0 ELSE SentTo(a)]

\* A rebuild drops the derived half of every count.
Reset(c) == IF Rebuilds THEN [c EXCEPT !.history = 0, !.sent = 0] ELSE c

\* merge_observation; a row the history makes is the history's own.
Merge(c, a, o) ==
    IF c # Nobody
    THEN [c EXCEPT !.history = Max({@ + o.delta, o.recount}), !.sent = Max({@, o.sent})]
    ELSE IF o.delta + o.recount + o.sent > 0
         THEN [history |-> Max({o.delta, o.recount}), sent |-> o.sent, derived |-> TRUE]
         ELSE Nobody

\* Mutant: whatever has no signal is swept.
SweptWhole(c) == ~Pending /\ c # Nobody /\ Signal(c) = 0
\* At the end of the cache the history's own rows without a source go.
Swept(c) == ~Pending /\ c # Nobody /\ c.derived /\ Signal(c) = 0

\* Rows have gone, and ids are not used again.
RowsGone == tagging' = IF tagging # Nobody /\ contacts'[tagging.addr] = Nobody
                       THEN [tagging EXCEPT !.there = FALSE] ELSE tagging

ReconcileChunk ==
    LET Folded(a) == Merge(IF contacts[a] = Nobody THEN Nobody ELSE Reset(contacts[a]), a, Observed(a))
    IN  /\ contacts' = [a \in Address |-> IF Swept(Folded(a)) THEN Nobody ELSE Folded(a)]
        /\ RowsGone
        /\ hist' = [mark |-> Max({r.id : r \in Batch} \cup {Watermark}), dirty |-> FALSE]
        /\ owed' = (owed /\ ~Rebuilds)
        /\ forgotten' = IF Rebuilds THEN {} ELSE forgotten
        /\ known' = IF Pending THEN known ELSE DOMAIN sent
        /\ rebuilding' = ((Rebuilds \/ rebuilding) /\ Pending)
        /\ UNCHANGED <<index, sent, recording, curated, indexed>>

\* invalidate_address_history: nothing where nothing was ever reconciled.
Invalidate ==
    /\ hist' = IF hist = Nobody THEN Nobody ELSE [hist EXCEPT !.dirty = TRUE]
    /\ owed' = FALSE
    /\ UNCHANGED <<contacts, index, sent, recording, tagging, forgotten, curated, known,
                   rebuilding, indexed>>

NotInvalidated ==
    /\ owed' = TRUE
    /\ UNCHANGED <<contacts, hist, index, sent, recording, tagging, forgotten, curated, known,
                   rebuilding, indexed>>

-----------------------------------------------------------------------------
(* The other writers.                                                      *)

\* upsert_indexed_message_summaries: the snapshot is replaced.
RefreshIndex(ms) ==
    /\ index' = ms /\ indexed' = indexed \cup ms
    /\ UNCHANGED <<contacts, hist, sent, recording, tagging, owed, forgotten, curated, known,
                   rebuilding>>

\* mark_draft_sent: the send is durable first; the recipients are recorded in a
\* transaction of their own, which may fail or not be reached.
MarkSent(a) ==
    /\ Len(sent) < MaxSent
    /\ sent' = Append(sent, a)
    /\ recording' = recording \cup {Len(sent) + 1}
    /\ UNCHANGED <<contacts, hist, index, tagging, owed, forgotten, curated, known, rebuilding,
                   indexed>>

\* record_sent_draft_recipients: the count of the window, as a floor on `sent`
\* only, and nothing when the draft has left the window meanwhile.
RecordRecipients(i) ==
    LET a == sent[i]
        floor == [delta |-> 0, recount |-> 0, sent |-> SentTo(a)]
    IN  /\ i \in recording
        /\ recording' = recording \ {i}
        /\ contacts' = [contacts EXCEPT ![a] = Merge(@, a, floor)]
        /\ known' = known \cup {i}
        /\ UNCHANGED <<hist, index, sent, tagging, owed, forgotten, curated, rebuilding, indexed>>

RecordingLost(i) ==
    /\ i \in recording
    /\ recording' = recording \ {i}
    /\ UNCHANGED <<contacts, hist, index, sent, tagging, owed, forgotten, curated, known,
                   rebuilding, indexed>>

\* upsert_contact: added or edited by hand, the row is manual; its history stays.
AddContact(a) ==
    /\ contacts' = [contacts EXCEPT ![a] =
           IF @ = Nobody THEN [history |-> 0, sent |-> 0, derived |-> FALSE]
                         ELSE [@ EXCEPT !.derived = FALSE]]
    /\ curated' = curated \cup {a}
    /\ UNCHANGED <<hist, index, sent, recording, tagging, owed, forgotten, known, rebuilding, indexed>>

DeleteContact(a) ==
    /\ contacts[a] # Nobody
    /\ contacts' = [contacts EXCEPT ![a] = Nobody]
    /\ RowsGone
    /\ forgotten' = forgotten \cup {a} /\ curated' = curated \ {a}
    /\ known' = known \ {i \in known : sent[i] = a}
    /\ UNCHANGED <<hist, index, sent, recording, owed, rebuilding, indexed>>

\* add_contact_tag, remove_contact_tag: the row is read, and then taken over by
\* its id.  The tags themselves are left out.
TagRead(a) ==
    /\ tagging = Nobody /\ contacts[a] # Nobody
    /\ tagging' = [addr |-> a, there |-> TRUE]
    /\ UNCHANGED <<contacts, hist, index, sent, recording, owed, forgotten, curated, known,
                   rebuilding, indexed>>

TakeOwnership ==
    LET a == tagging.addr
    IN  /\ tagging # Nobody
        /\ tagging' = Nobody
        /\ IF tagging.there
           THEN contacts' = [contacts EXCEPT ![a].derived = FALSE] /\ curated' = curated \cup {a}
           ELSE UNCHANGED <<contacts, curated>>
        /\ UNCHANGED <<hist, index, sent, recording, owed, forgotten, known, rebuilding, indexed>>
=============================================================================
