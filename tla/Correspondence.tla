--------------------------- MODULE Correspondence ---------------------------
(***************************************************************************)
(* The thread cache and the address book of one account at work: scanners, *)
(* the dashboard's catch-up and index refresh, sends, a person who edits   *)
(* the contacts, a server that changes its folders, and an upgrade.        *)
(*                                                                         *)
(* `cast` says who may act in a behaviour; it is chosen at the start.      *)
(***************************************************************************)
EXTENDS ThreadScan

CONSTANTS
    Initially,  \* [Folder -> Seq(Message)]: the folders at the start
    MaxUid,     \* bound on the UIDs of a folder
    Arriving,   \* [Message -> Folder]: where a message not there yet arrives
    Settings    \* [cast, faults]: who acts, and how often things may fail

Player == {"scan", "rebuild", "secondScan", "catchUp", "refresh", "send", "person", "tag", "arrive",
           "expunge", "renumber", "upgrade"}

ASSUME InitiallyAssumption ==
    Initially \in [Folder -> Seq(Message)] /\ Arriving \in [Message -> Folder]
ASSUME SettingsAssumption == Settings \subseteq [cast : SUBSET Player, faults : Nat]

VARIABLE cast

vars == <<cacheVars, bookVars, scanVars, cast>>

Init ==
    /\ \E s \in Settings : cast = s.cast /\ faults = s.faults
    /\ CacheInit /\ BookInit
    /\ box = Initially /\ top = [f \in Folder |-> Len(Initially[f])]
    /\ epoch = [f \in Folder |-> 1]
    /\ scan = [w \in Scanner |-> Idle] /\ parser = "old" /\ lapsed = FALSE

-----------------------------------------------------------------------------
\* The server.
Messages(f) == {box[f][u] : u \in DOMAIN box[f]}

Arrive(m) ==
    LET f == Arriving[m]
    IN  /\ "arrive" \in cast /\ m \notin UNION {Messages(g) : g \in Folder}
        /\ top[f] < MaxUid
        /\ top' = [top EXCEPT ![f] = @ + 1]
        /\ box' = [box EXCEPT ![f] = [u \in DOMAIN @ \cup {top[f] + 1} |->
                                          IF u \in DOMAIN @ THEN @[u] ELSE m]]
        /\ UNCHANGED <<epoch, scan, parser, faults, lapsed, cacheVars, bookVars>>

Expunge(f, u) ==
    /\ "expunge" \in cast
    /\ box' = [box EXCEPT ![f] = [v \in DOMAIN @ \ {u} |-> @[v]]]
    /\ UNCHANGED <<top, epoch, scan, parser, faults, lapsed, cacheVars, bookVars>>

\* The folder's messages get new UIDs, from 1 on, in another order.
Renumber(f) ==
    /\ "renumber" \in cast /\ epoch[f] < MaxEpoch
    /\ epoch' = [epoch EXCEPT ![f] = @ + 1]
    /\ \E to \in [1 .. Cardinality(DOMAIN box[f]) -> Messages(f)] :
           /\ {to[u] : u \in DOMAIN to} = Messages(f)
           /\ box' = [box EXCEPT ![f] = to]
    /\ top' = [top EXCEPT ![f] = Cardinality(DOMAIN box[f])]
    /\ UNCHANGED <<scan, parser, faults, lapsed, cacheVars, bookVars>>

\* A new version reads headers better; it may also declare every history outdated.
Upgrade ==
    /\ "upgrade" \in cast /\ parser = "old" /\ \A w \in Scanner : ~Busy(w)
    /\ parser' = "new"
    /\ hist' \in {hist, Nobody}
    /\ UNCHANGED <<box, top, epoch, scan, faults, lapsed, cacheVars, contacts, index, sent, recording,
                   tagging, owed, forgotten, curated, known, rebuilding, indexed>>

\* The dashboard: at its start and after every refresh of the index.
Dashboard ==
    /\ \/ "catchUp" \in cast /\ ReconcileChunk
       \/ "refresh" \in cast /\ RefreshIndex(Messages(Head(Folders)))
    /\ UNCHANGED <<cacheVars, scanVars>>

Others ==
    /\ \/ /\ "send" \in cast
          /\ \/ \E a \in Address : MarkSent(a)
             \/ \E i \in recording : RecordRecipients(i) \/ RecordingLost(i)
       \/ "person" \in cast /\ \E a \in Address : AddContact(a) \/ DeleteContact(a)
       \/ "tag" \in cast /\ (TakeOwnership \/ \E a \in Address : TagRead(a))
    /\ UNCHANGED <<cacheVars, scanVars>>

Scans(w) ==
    \/ "scan" \in cast /\ Start(w, FALSE)
    \/ "rebuild" \in cast /\ Start(w, TRUE)
    \/ ScanStep(w) \/ ScanCrashes(w)

Next ==
    /\ \/ \E w \in Scanner : /\ "secondScan" \in cast \/ \A v \in Scanner \ {w} : ~Busy(v)
                             /\ Scans(w)
       \/ \E m \in Message : Arrive(m)
       \/ \E f \in Folder : Renumber(f) \/ \E u \in DOMAIN box[f] : Expunge(f, u)
       \/ Upgrade \/ Dashboard \/ Others
    /\ UNCHANGED cast

Spec == Init /\ [][Next]_vars

-----------------------------------------------------------------------------
(* Properties.                                                             *)

CountedWith(a) == Cardinality({r \in cached : r.id <= hist.mark /\ a \in r.who})
ElsewhereWith(a) ==
    Cardinality({m \in indexed : a \in Parsed["new"][m]})
        + Cardinality({i \in DOMAIN sent : sent[i] = a})

\* Every row of the cache under the watermark is counted exactly once.  Whenever
\* the history is not marked for a rebuild, no scan is about to mark it and none
\* ended before it could, an address counts at least the rows under the watermark
\* that name it (a contact deleted by hand starts over), and at most those and
\* what the sent drafts and the snapshots ever held.
CountsAreTrue ==
    /\ ~owed /\ \A w \in Scanner : scan[w].at \notin {"disown", "invalidate"}
    /\ hist # Nobody /\ ~hist.dirty
    =>
        \A a \in Address :
            LET h == IF contacts[a] = Nobody THEN 0 ELSE contacts[a].history
            IN  /\ a \notin forgotten => h >= CountedWith(a)
                /\ h <= CountedWith(a) + ElsewhereWith(a)

\* A recipient is offered from the moment the send is recorded, or else from
\* the next reconcile on: a draft of the window that the history has taken in
\* has a contact with a signal, except while a rebuild is under way.
SentIsSuggestible ==
    ~rebuilding =>
        \A i \in known \cap Window : contacts[sent[i]] # Nobody /\ Signal(contacts[sent[i]]) > 0

\* What a person added, edited or took over by a tag is never removed by the
\* history and never handed back to it, whatever is rebuilt.
CuratedStays == \A a \in curated : contacts[a] # Nobody /\ ~contacts[a].derived

\* "tagging one the derivation invented is the case this guards"
\* (crates/store/src/contacts.rs, take_contact_ownership): a contact that a tag
\* command is working on is there when it takes it over.
TaggedStays ==
    tagging # Nobody => tagging.there

\* The UID the cache says it has reached is true: unless a failure was passed
\* over, a scan wiped the folder while another was at work or had begun it anew,
\* or a rebuild forgot the sync state under another scan, every message of the
\* folder up to it has its row.
IndexCovers ==
    ~lapsed =>
        \A f \in Folder : StoredEpoch(f) = epoch[f] =>
            \A u \in DOMAIN box[f] : u <= LastUid(f) => RowsFor(f, box[f][u]) # {}
=============================================================================
