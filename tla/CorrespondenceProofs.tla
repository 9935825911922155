------------------------ MODULE CorrespondenceProofs ------------------------
(***************************************************************************)
(* What the address book and the thread cache promise, for any number of   *)
(* messages, addresses, folders and scanners.                              *)
(***************************************************************************)
EXTENDS Correspondence, FiniteSetTheorems, SequenceTheorems, WellFoundedInduction, TLAPS

Rows == [id : Nat, folder : Folder, uid : Nat, msg : Message, who : SUBSET Address]
History == [mark : Nat, dirty : BOOLEAN]
Tagging == [addr : Address, there : BOOLEAN]

\* Ids are given out in order, and a row keeps its own.
CacheOK ==
    /\ cached \subseteq Rows /\ IsFiniteSet(cached) /\ lastId \in Nat
    /\ \A r \in cached : r.id \in 1 .. lastId
    /\ \A r, q \in cached : r.id = q.id => r = q
    /\ sync \in [Folder -> [uid : Nat, epoch : Nat] \cup {Nobody}]

BookOK ==
    /\ contacts \in [Address -> Contact \cup {Nobody}]
    /\ hist \in History \cup {Nobody}
    /\ index \subseteq indexed /\ IsFiniteSet(indexed)
    /\ curated \subseteq Address
    /\ sent \in Seq(Address) /\ recording \subseteq DOMAIN sent /\ known \subseteq DOMAIN sent
    /\ tagging \in Tagging \cup {Nobody}
    /\ tagging # Nobody /\ tagging.there => contacts[tagging.addr] # Nobody
    /\ rebuilding \in BOOLEAN /\ owed \in BOOLEAN

LEMMA NobodyIsNone ==
    Nobody \notin Contact /\ Nobody \notin History /\ Nobody \notin Tagging
        /\ Nobody \notin [uid : Nat, epoch : Nat]
BY NoRowAssumption, NoSyncAssumption DEF History, Tagging

-----------------------------------------------------------------------------
(* Counting and merging.                                                   *)

LEMMA MaxTwo ==
    ASSUME NEW x \in Nat, NEW y \in Nat
    PROVE  /\ Max({x, y}) \in Nat /\ Max({x, y}) >= x /\ Max({x, y}) >= y
           /\ Max({x, y}) = x \/ Max({x, y}) = y
<1> DEFINE S == {x, y}
<1>1. \E z \in S : \A v \in S : z >= v
  <2>1. CASE x >= y
    BY <2>1
  <2>2. CASE y >= x
    BY <2>2
  <2> QED BY <2>1, <2>2
<1>2. Max(S) \in S /\ \A v \in S : Max(S) >= v
  BY <1>1 DEF Max
<1> QED BY <1>2

LEMMA SmallestIn ==
    ASSUME NEW T \in SUBSET Nat, T # {}
    PROVE  \E t \in T : \A u \in T : t <= u
<1>1. PICK R : R = OpToRel(<, Nat)
  OBVIOUS
<1>2. IsWellFoundedOn(R, Nat)
  BY <1>1, NatLessThanWellFounded, Zenon
<1>3. \E t \in T : \A u \in T : ~(<<u, t>> \in R)
  BY <1>2, WFMin, Zenon
<1>4. PICK t \in T : \A u \in T : ~(<<u, t>> \in R)
  BY <1>3
<1>5. ASSUME NEW u \in T PROVE t <= u
  <2>1. PICK ss \in Nat \X Nat : ss = <<u, t>>
    OBVIOUS
  <2>2. ss[1] = u /\ ss[2] = t /\ ss \notin R
    BY <1>4, <2>1
  <2>3. R = {x \in Nat \X Nat : x[1] < x[2]}
    BY <1>1 DEF OpToRel
  <2>4. ~(u < t)
    BY <2>2, <2>3
  <2> QED BY <2>4
<1> QED BY <1>5

\* A set of numbers with a bound has a largest one: the one nearest to the bound.
LEMMA MaxBounded ==
    ASSUME NEW n \in Nat, NEW S \in SUBSET Nat, \A v \in S : v <= n, S # {}
    PROVE  Max(S) \in S /\ \A v \in S : Max(S) >= v
<1> DEFINE T == {n - v : v \in S}
<1>1. \A v \in S : n - v \in Nat
  OBVIOUS
<1>2. T \in SUBSET Nat /\ T # {}
  BY <1>1
<1>3. PICK t \in T : \A u \in T : t <= u
  <2> HIDE DEF T
  <2> QED BY <1>2, SmallestIn
<1>4. PICK z \in S : t = n - z
  BY <1>3
<1>5. ASSUME NEW v \in S PROVE z >= v
  <2>1. n - z <= n - v
    BY <1>3, <1>4
  <2> QED BY <2>1
<1> QED BY <1>5 DEF Max

LEMMA SignalPositive ==
    ASSUME NEW c \in Contact
    PROVE  Signal(c) \in Nat /\ (Signal(c) > 0 <=> c.history > 0 \/ c.sent > 0)
<1>1. c.history \in Nat /\ c.sent \in Nat
  BY DEF Contact
<1> QED BY <1>1, MaxTwo DEF Signal

Observation == [delta : Nat, recount : Nat, sent : Nat]

LEMMA MergeKept ==
    ASSUME NEW c \in Contact, NEW a, NEW o \in Observation, NEW m, m = Merge(c, a, o)
    PROVE  /\ m \in Contact /\ m.derived = c.derived
           /\ m.sent >= c.sent /\ m.sent >= o.sent
           /\ m.history >= c.history + o.delta /\ m.history >= o.recount
           /\ m.history = c.history + o.delta \/ m.history = o.recount
<1>1. c # Nobody
  BY NobodyIsNone
<1>2. /\ c.history \in Nat /\ c.sent \in Nat /\ c.derived \in BOOLEAN
      /\ o.delta \in Nat /\ o.recount \in Nat /\ o.sent \in Nat
  BY DEF Contact, Observation
<1>3. PICK h \in Nat, s \in Nat : h = Max({c.history + o.delta, o.recount}) /\ s = Max({c.sent, o.sent})
  BY <1>2, MaxTwo
<1>4. m = [c EXCEPT !.history = h, !.sent = s]
  BY <1>1, <1>3 DEF Merge
<1>5. m \in Contact /\ m.derived = c.derived /\ m.history = h /\ m.sent = s
  BY <1>4 DEF Contact
<1> QED BY <1>2, <1>3, <1>5, MaxTwo

LEMMA MergeMade ==
    ASSUME NEW a, NEW o \in Observation, NEW m, m = Merge(Nobody, a, o)
    PROVE  \/ /\ m = Nobody /\ o.delta = 0 /\ o.recount = 0 /\ o.sent = 0
           \/ /\ m \in Contact /\ m.sent = o.sent
              /\ m.history >= o.delta /\ m.history >= o.recount
              /\ m.history = o.delta \/ m.history = o.recount
<1>1. o.delta \in Nat /\ o.recount \in Nat /\ o.sent \in Nat
  BY DEF Observation
<1>2. PICK h \in Nat : h = Max({o.delta, o.recount}) /\ h >= o.delta /\ h >= o.recount
                       /\ (h = o.delta \/ h = o.recount)
  BY <1>1, MaxTwo
<1>3. CASE o.delta + o.recount + o.sent > 0
  <2>1. m = [history |-> h, sent |-> o.sent, derived |-> TRUE]
    BY <1>2, <1>3 DEF Merge
  <2> QED BY <1>1, <1>2, <2>1 DEF Contact
<1>4. CASE ~(o.delta + o.recount + o.sent > 0)
  <2>1. m = Nobody
    BY <1>4 DEF Merge
  <2> QED BY <1>1, <1>4, <2>1
<1> QED BY <1>3, <1>4

LEMMA BatchOK ==
    ASSUME CacheOK, BookOK
    PROVE  /\ Watermark \in Nat /\ Batch \subseteq cached /\ IsFiniteSet(Batch)
           /\ \A a \in Address : Observed(a) \in Observation
           /\ \A a \in Address : SentTo(a) \in Nat /\ InSnapshot(a) \in Nat
<1>1. Watermark \in Nat
  BY DEF Watermark, Rebuilds, BookOK, History
<1>2. Batch \subseteq cached /\ IsFiniteSet(Batch)
  <2>1. Batch \subseteq cached
    BY DEF Batch
  <2> QED BY <2>1, FS_Subset DEF CacheOK
<1>3. ASSUME NEW a \in Address
      PROVE  SentTo(a) \in Nat /\ InSnapshot(a) \in Nat /\ Observed(a) \in Observation
  <2>1. SentTo(a) \in Nat
    <3>1. {i \in Window : sent[i] = a} \subseteq 1 .. Len(sent) /\ Len(sent) \in Nat
      BY LenProperties DEF Window, BookOK
    <3>2. IsFiniteSet(1 .. Len(sent))
      BY <3>1, FS_Interval
    <3>3. IsFiniteSet({i \in Window : sent[i] = a})
      BY <3>1, <3>2, FS_Subset
    <3> QED BY <3>3, FS_CardinalityType DEF SentTo
  <2>2. InSnapshot(a) \in Nat
    <3>1. {m \in index : a \in Parsed["new"][m]} \subseteq indexed
      BY DEF BookOK
    <3>2. IsFiniteSet({m \in index : a \in Parsed["new"][m]})
      BY <3>1, FS_Subset DEF BookOK
    <3> QED BY <3>2, FS_CardinalityType DEF InSnapshot
  <2>3. Cardinality({r \in Batch : a \in r.who}) \in Nat
    <3>1. {r \in Batch : a \in r.who} \subseteq Batch
      OBVIOUS
    <3> QED BY <1>2, <3>1, FS_Subset, FS_CardinalityType
  <2> QED BY <2>1, <2>2, <2>3 DEF Observed, Observation
<1> QED BY <1>1, <1>2, <1>3

\* The history of an address as a chunk finds it.
Counted(a) == IF contacts[a] = Nobody \/ Rebuilds THEN 0 ELSE contacts[a].history
HistoryOf(a) == IF contacts[a] = Nobody THEN 0 ELSE contacts[a].history
Offered(a) == contacts[a] # Nobody /\ Signal(contacts[a]) > 0

\* A chunk of the reconcile, for one address.
LEMMA ChunkFolds ==
    ASSUME CacheOK, BookOK, ReconcileChunk, NEW a \in Address
    PROVE  /\ contacts'[a] \in Contact \cup {Nobody}
           /\ contacts[a] # Nobody /\ ~contacts[a].derived =>
                  contacts'[a] # Nobody /\ ~contacts'[a].derived
           /\ ~Rebuilds /\ Pending /\ Offered(a) => Offered(a)'
           /\ ~Pending /\ SentTo(a) > 0 => Offered(a)'
           /\ Counted(a) \in Nat /\ HistoryOf(a)' \in Nat
           /\ HistoryOf(a)' >= Counted(a) + Observed(a).delta
           /\ \/ HistoryOf(a)' = Counted(a) + Observed(a).delta
              \/ HistoryOf(a)' <= Observed(a).recount
<1>1. PICK o \in Observation : o = Observed(a)
  BY BatchOK
<1>2. PICK c \in Contact \cup {Nobody} : c = contacts[a]
  BY DEF BookOK
<1>3. PICK b : b = IF c = Nobody THEN Nobody ELSE Reset(c)
  OBVIOUS
<1>4. PICK m : m = Merge(b, a, o)
  OBVIOUS
<1>5. contacts'[a] = IF Swept(m) THEN Nobody ELSE m
  BY <1>1, <1>2, <1>3, <1>4, Zenon DEF ReconcileChunk
<1>6. SentTo(a) \in Nat /\ InSnapshot(a) \in Nat
      /\ (~Pending => o.sent = SentTo(a) /\ o.recount = InSnapshot(a) + SentTo(a))
      /\ o.delta \in Nat /\ o.recount \in Nat /\ o.sent \in Nat
  BY <1>1, BatchOK DEF Observed, Observation
<1>7. CASE c # Nobody
  <2>1. /\ b \in Contact /\ b.derived = c.derived
        /\ b.history = Counted(a) /\ b.history \in Nat /\ b.sent \in Nat
        /\ (~Rebuilds => b = c)
    BY <1>2, <1>3, <1>7 DEF Reset, Contact, Counted
  <2>2. /\ m \in Contact /\ m.derived = b.derived
        /\ m.sent >= b.sent /\ m.sent >= o.sent
        /\ m.history >= b.history + o.delta /\ m.history >= o.recount
        /\ m.history = b.history + o.delta \/ m.history = o.recount
    BY <1>4, <2>1, MergeKept
  <2>3. m.history \in Nat /\ m.sent \in Nat /\ m # Nobody /\ m.derived \in BOOLEAN
    BY <2>2, NobodyIsNone DEF Contact
  <2>4. Signal(m) \in Nat /\ (Signal(m) > 0 <=> m.history > 0 \/ m.sent > 0)
    BY <2>2, SignalPositive
  <2>5. ~Rebuilds => (Signal(c) > 0 <=> b.history > 0 \/ b.sent > 0)
    BY <2>1, SignalPositive
  <2>6. CASE Swept(m)
    <3>1. contacts'[a] = Nobody /\ ~Pending /\ m.derived /\ m.history = 0 /\ m.sent = 0
      BY <1>5, <2>3, <2>4, <2>6 DEF Swept
    <3>2. b.history = 0 /\ o.delta = 0 /\ o.sent = 0
      BY <1>6, <2>1, <2>2, <3>1
    <3>3. HistoryOf(a)' = 0
      BY <3>1 DEF HistoryOf
    <3> QED BY <1>1, <1>2, <1>6, <1>7, <2>1, <2>2, <3>1, <3>2, <3>3
  <2>7. CASE ~Swept(m)
    <3>1. contacts'[a] = m /\ HistoryOf(a)' = m.history
      BY <1>5, <2>3, <2>7 DEF HistoryOf
    <3>2. Offered(a)' <=> m.history > 0 \/ m.sent > 0
      BY <2>3, <2>4, <3>1 DEF Offered
    <3>3. ~Rebuilds /\ Offered(a) => Offered(a)'
      BY <1>2, <1>6, <2>1, <2>2, <2>3, <2>5, <3>2 DEF Offered
    <3>4. ~Pending /\ SentTo(a) > 0 => Offered(a)'
      BY <1>6, <2>2, <2>3, <3>2
    <3> QED BY <1>1, <1>2, <2>1, <2>2, <2>3, <3>1, <3>3, <3>4
  <2> QED BY <2>6, <2>7
<1>8. CASE c = Nobody
  <2>1. Counted(a) = 0 /\ b = Nobody /\ ~Offered(a)
    BY <1>2, <1>3, <1>8 DEF Counted, Offered
  <2>2. \/ /\ m = Nobody /\ o.delta = 0 /\ o.recount = 0 /\ o.sent = 0
        \/ /\ m \in Contact /\ m.sent = o.sent
           /\ m.history >= o.delta /\ m.history >= o.recount
           /\ m.history = o.delta \/ m.history = o.recount
    BY <1>4, <2>1, MergeMade
  <2>3. CASE m = Nobody /\ o.delta = 0 /\ o.recount = 0 /\ o.sent = 0
    <3>1. contacts'[a] = Nobody /\ HistoryOf(a)' = 0
      BY <1>5, <2>3 DEF Swept, HistoryOf
    <3> QED BY <1>1, <1>2, <1>6, <1>8, <2>1, <2>3, <3>1
  <2>4. CASE /\ m \in Contact /\ m.sent = o.sent
             /\ m.history >= o.delta /\ m.history >= o.recount
             /\ m.history = o.delta \/ m.history = o.recount
    <3>1. m.history \in Nat /\ m.sent \in Nat /\ m # Nobody
      BY <2>4, NobodyIsNone DEF Contact
    <3>2. Signal(m) \in Nat /\ (Signal(m) > 0 <=> m.history > 0 \/ m.sent > 0)
      BY <2>4, SignalPositive
    <3>3. CASE Swept(m)
      <4>1. contacts'[a] = Nobody /\ m.history = 0 /\ m.sent = 0
        BY <1>5, <3>1, <3>2, <3>3 DEF Swept
      <4>2. HistoryOf(a)' = 0
        BY <4>1 DEF HistoryOf
      <4> QED BY <1>1, <1>2, <1>6, <1>8, <2>1, <2>4, <4>1, <4>2
    <3>4. CASE ~Swept(m)
      <4>1. contacts'[a] = m /\ HistoryOf(a)' = m.history
        BY <1>5, <3>1, <3>4 DEF HistoryOf
      <4>2. Offered(a)' <=> m.history > 0 \/ m.sent > 0
        BY <3>1, <3>2, <4>1 DEF Offered
      <4> QED BY <1>1, <1>2, <1>6, <1>8, <2>1, <2>4, <3>1, <4>1, <4>2
    <3> QED BY <3>3, <3>4
  <2> QED BY <2>2, <2>3, <2>4
<1> QED BY <1>7, <1>8

-----------------------------------------------------------------------------
(* What a scanner is doing.                                                *)

Early == {"clear", "select", "check", "adopt", "wipe", "disown", "restate", "fetch"}
Late == {"next", "write", "invalidate", "confirm"}
Scanning == [at : Early \cup Late \cup {"idle", "fold"}, todo : Seq(Folder), epoch : Nat,
             queue : SUBSET [uid : Nat, msg : Message], seen : Nat, row : Nat, stale : BOOLEAN]

\* The queue is handled in the order of the UIDs, and `seen` is the last handled.
ScanOK(j) ==
    /\ j \in Scanning
    /\ j.at \in Early \cup Late => j.todo # <<>>
    /\ j.at \in Early => j.seen = 0
    /\ \A x, y \in j.queue : x.uid = y.uid => x = y
    /\ j.at \in {"next", "invalidate"} => \A x \in j.queue : x.uid > j.seen
    /\ j.at = "write" => /\ \A x \in j.queue : x.uid >= j.seen
                        /\ \E x \in j.queue : x.uid = j.seen

ServerOK ==
    /\ box \in [Folder -> UNION {[S -> Message] : S \in SUBSET Nat}]
    /\ top \in [Folder -> Nat] /\ \A f \in Folder : DOMAIN box[f] \subseteq 1 .. top[f]
    /\ epoch \in [Folder -> Nat] /\ \A f \in Folder : epoch[f] >= 1
    /\ parser \in {"old", "new"} /\ faults \in Nat /\ lapsed \in BOOLEAN

ScansOK == scan \in [Scanner -> Scanning] /\ \A w \in Scanner : ScanOK(scan[w])

WellFormed == CacheOK /\ BookOK /\ ServerOK /\ ScansOK

LEMMA BoxOK ==
    ASSUME ServerOK, NEW f \in Folder
    PROVE  /\ DOMAIN box[f] \subseteq 1 .. top[f] /\ IsFiniteSet(DOMAIN box[f])
           /\ \A u \in DOMAIN box[f] : u \in Nat /\ u >= 1 /\ box[f][u] \in Message
           /\ IsFiniteSet(Messages(f)) /\ InRange(f) \subseteq DOMAIN box[f]
<1>1. DOMAIN box[f] \subseteq 1 .. top[f] /\ top[f] \in Nat
  BY DEF ServerOK
<1>2. IsFiniteSet(DOMAIN box[f])
  <2>1. PICK n \in Nat : n = top[f]
    BY <1>1
  <2>2. 1 \in Int /\ n \in Int
    OBVIOUS
  <2>3. IsFiniteSet(1 .. n)
    BY <2>2, FS_Interval
  <2> QED BY <1>1, <2>1, <2>3, FS_Subset
<1>3. \A u \in DOMAIN box[f] : u \in Nat /\ u >= 1
  BY <1>1
<1>4. PICK S \in SUBSET Nat : box[f] \in [S -> Message]
  BY DEF ServerOK
<1>5. IsFiniteSet(Messages(f))
  <2>1. box[f] \in Surjection(DOMAIN box[f], Messages(f))
    BY <1>4 DEF Surjection, Messages
  <2> QED BY <1>2, <2>1, FS_Surjection
<1>6. InRange(f) \subseteq DOMAIN box[f]
  BY DEF InRange, Newest, From
<1> QED BY <1>1, <1>2, <1>3, <1>4, <1>5, <1>6

LEMMA FolderAt ==
    ASSUME ScansOK, NEW w \in Scanner, scan[w].at \in Early \cup Late
    PROVE  /\ scan[w] \in Scanning /\ F(w) \in Folder /\ Tail(scan[w].todo) \in Seq(Folder)
           /\ Len(scan[w].todo) > 1 => Tail(scan[w].todo) # <<>>
<1>1. scan[w] \in Scanning /\ ScanOK(scan[w])
  BY DEF ScansOK
<1>2. PICK s \in Seq(Folder) : s = scan[w].todo
  BY <1>1 DEF Scanning
<1>3. s # <<>>
  BY <1>1, <1>2 DEF ScanOK
<1>4. Head(s) \in Folder /\ Tail(s) \in Seq(Folder) /\ Len(Tail(s)) = Len(s) - 1 /\ Len(s) \in Nat
  BY <1>3, HeadTailProperties, LenProperties
<1>5. Len(s) > 1 => Tail(s) # <<>>
  BY <1>4, EmptySeq
<1> QED BY <1>1, <1>2, <1>4, <1>5 DEF F

LEMMA FirstOK ==
    ASSUME ScansOK, NEW w \in Scanner, scan[w].queue # {}
    PROVE  /\ First(w) \in scan[w].queue /\ First(w) \in [uid : Nat, msg : Message]
           /\ Rest(w) \in SUBSET [uid : Nat, msg : Message]
           /\ \A y \in Rest(w) : y.uid > First(w).uid /\ y \in scan[w].queue
           /\ \A y \in scan[w].queue : y.uid >= First(w).uid
<1>1. scan[w] \in Scanning /\ ScanOK(scan[w])
  BY DEF ScansOK
<1>2. PICK Q \in SUBSET [uid : Nat, msg : Message] : Q = scan[w].queue
  BY <1>1 DEF Scanning
<1> DEFINE T == {x.uid : x \in Q}
<1>3. \E t \in T : \A u \in T : t <= u
  <2>1. T \in SUBSET Nat /\ T # {}
    BY <1>2
  <2> HIDE DEF T
  <2> QED BY <2>1, SmallestIn
<1>4. \E x \in Q : \A y \in Q : x.uid <= y.uid
  BY <1>3
<1>5. First(w) \in Q /\ \A y \in Q : First(w).uid <= y.uid
  BY <1>2, <1>4 DEF First
<1>6. \A y \in Q : y # First(w) => y.uid # First(w).uid
  BY <1>1, <1>2, <1>5 DEF ScanOK
<1>7. \A y \in Q : y.uid \in Nat
  BY <1>2
<1>8. First(w).uid \in Nat
  BY <1>5, <1>7
<1> QED BY <1>2, <1>5, <1>6, <1>7, <1>8 DEF Rest

\* A step of a scan replaces its record, and no other.
Moves(w) == \E j : ScanOK(j) /\ Now(w, j)

LEMMA MovesOK ==
    ASSUME ScansOK, NEW w \in Scanner, Moves(w)
    PROVE  ScansOK' /\ \A v \in Scanner \ {w} : scan'[v] = scan[v]
<1>1. PICK j : ScanOK(j) /\ scan' = [scan EXCEPT ![w] = j]
  BY DEF Moves, Now
<1>2. j \in Scanning
  BY <1>1 DEF ScanOK
<1>3. scan' \in [Scanner -> Scanning] /\ scan'[w] = j /\ \A v \in Scanner \ {w} : scan'[v] = scan[v]
  BY <1>1, <1>2 DEF ScansOK
<1>4. ASSUME NEW v \in Scanner PROVE ScanOK(scan'[v])
  <2>1. CASE v = w
    BY <1>1, <1>3, <2>1
  <2>2. CASE v # w
    BY <1>3, <2>2 DEF ScansOK
  <2> QED BY <2>1, <2>2
<1>5. ScansOK'
  <2>1. \A v \in Scanner : ScanOK(scan'[v])
    BY <1>4
  <2> QED BY <1>3, <2>1 DEF ScansOK, ScanOK, Scanning
<1> QED BY <1>3, <1>5

\* A step that only moves a scanner on.
LEMMA GotoMoves ==
    ASSUME ScansOK, NEW w \in Scanner, NEW a, Goto(w, a),
           \/ scan[w].at \in Early /\ a \in Early
           \/ scan[w].at \in {"next", "invalidate"} /\ a \in {"next", "confirm"}
    PROVE  Moves(w)
<1>1. PICK i \in Scanning : i = scan[w] /\ ScanOK(i)
  BY DEF ScansOK
<1>2. PICK j : j = [i EXCEPT !.at = a]
  OBVIOUS
<1>3. /\ j \in Scanning /\ j.at = a /\ j.todo = i.todo /\ j.queue = i.queue /\ j.seen = i.seen
  BY <1>1, <1>2 DEF Scanning, Early, Late
<1>4. ScanOK(j)
  BY <1>1, <1>3 DEF ScanOK, Early, Late
<1>5. Now(w, j)
  BY <1>1, <1>2 DEF Goto
<1> QED BY <1>4, <1>5 DEF Moves

LEMMA IdleOK == ScanOK(Idle)
<1>1. <<>> \in Seq(Folder)
  OBVIOUS
<1>2. Idle \in Scanning
  BY <1>1 DEF Idle, Scanning
<1> QED BY <1>2 DEF Idle, ScanOK, Early, Late

LEMMA BegunOK ==
    ASSUME NEW t \in Seq(Folder), NEW a \in {"clear", "select", "fold"}, a = "fold" \/ t # <<>>
    PROVE  ScanOK([Idle EXCEPT !.at = a, !.todo = t])
<1>1. PICK j : j = [Idle EXCEPT !.at = a, !.todo = t]
  OBVIOUS
<1>2. j = [at |-> a, todo |-> t, epoch |-> 0, queue |-> {}, seen |-> 0, row |-> 0, stale |-> FALSE]
  BY <1>1 DEF Idle
<1>3. j \in Scanning
  BY <1>2 DEF Scanning, Early, Late
<1>4. ScanOK(j)
  BY <1>2, <1>3 DEF ScanOK, Early, Late
<1> QED BY <1>1, <1>4

LEMMA StartMoves ==
    ASSUME ScansOK, NEW w \in Scanner, NEW b \in BOOLEAN, Start(w, b)
    PROVE  Moves(w)
<1>1. PICK a \in {"clear", "select"} : a = IF b THEN "clear" ELSE "select"
  OBVIOUS
<1>2. Folders \in Seq(Folder) /\ Folders # <<>>
  BY ScanAssumption
<1>3. PICK j : j = [Idle EXCEPT !.at = a, !.todo = Folders]
  OBVIOUS
<1>4. Now(w, j)
  BY <1>1, <1>3 DEF Start
<1>5. ScanOK(j)
  BY <1>2, <1>3, BegunOK
<1> QED BY <1>4, <1>5 DEF Moves

LEMMA NextFolderMoves ==
    ASSUME ScansOK, NEW w \in Scanner, scan[w].at \in Early \cup Late, NextFolder(w)
    PROVE  Moves(w) /\ scan'[w].at \in {"select", "fold"}
<1>1. PICK a \in {"select", "fold"} : a = IF Len(scan[w].todo) > 1 THEN "select" ELSE "fold"
  OBVIOUS
<1>2. PICK t \in Seq(Folder) : t = Tail(scan[w].todo)
  BY FolderAt
<1>3. PICK j : j = [Idle EXCEPT !.at = a, !.todo = t]
  OBVIOUS
<1>4. Now(w, j)
  BY <1>1, <1>2, <1>3 DEF NextFolder
<1>5. a = "fold" \/ t # <<>>
  BY <1>1, <1>2, FolderAt
<1>6. ScanOK(j)
  BY <1>3, <1>5, BegunOK
<1>7. j.at = a /\ scan'[w] = j
  BY <1>3, <1>4 DEF Idle, Now, ScansOK
<1> QED BY <1>4, <1>6, <1>7 DEF Moves

LEMMA RestsMoves ==
    ASSUME ScansOK, NEW w \in Scanner, Now(w, Idle)
    PROVE  Moves(w)
BY IdleOK DEF Moves

LEMMA SelectMoves ==
    ASSUME WellFormed, NEW w \in Scanner, Select(w)
    PROVE  Moves(w)
<1>1. ScansOK /\ ServerOK /\ scan[w].at \in Early
  BY DEF WellFormed, Select, Early
<1>2. CASE DOMAIN box[F(w)] = {}
  BY <1>1, <1>2, NextFolderMoves DEF Select
<1>3. CASE DOMAIN box[F(w)] # {}
  <2>1. PICK i \in Scanning : i = scan[w] /\ ScanOK(i)
    BY <1>1 DEF ScansOK
  <2>2. PICK e \in Nat : e = epoch[F(w)]
    BY <1>1, FolderAt DEF ServerOK
  <2>3. PICK j : j = [i EXCEPT !.at = "check", !.epoch = e]
    OBVIOUS
  <2>4. Now(w, j)
    BY <1>3, <2>1, <2>2, <2>3 DEF Select
  <2>5. /\ j \in Scanning /\ j.at = "check" /\ j.todo = i.todo /\ j.queue = i.queue /\ j.seen = i.seen
    BY <2>1, <2>2, <2>3 DEF Scanning, Early
  <2>6. ScanOK(j)
    BY <1>1, <2>1, <2>5 DEF ScanOK, Early, Late
  <2> QED BY <2>4, <2>6 DEF Moves
<1> QED BY <1>2, <1>3

\* What a scan is told of a folder.
LEMMA ListingOK ==
    ASSUME ServerOK, NEW f \in Folder
    PROVE  /\ Listing(f) \in SUBSET [uid : Nat, msg : Message]
           /\ \A x \in Listing(f) : x.uid > 0 /\ x.uid \in InRange(f) /\ x.msg = box[f][x.uid]
           /\ \A x, y \in Listing(f) : x.uid = y.uid => x = y
           /\ \A u \in InRange(f) : \E x \in Listing(f) : x.uid = u /\ x.msg = box[f][u]
<1>1. \A u \in InRange(f) : u \in Nat /\ u > 0 /\ box[f][u] \in Message
  BY BoxOK
<1>2. \A u \in InRange(f) : [uid |-> u, msg |-> box[f][u]] \in Listing(f)
  BY DEF Listing
<1>3. ASSUME NEW x \in Listing(f)
      PROVE  /\ x \in [uid : Nat, msg : Message]
             /\ x.uid > 0 /\ x.uid \in InRange(f) /\ x.msg = box[f][x.uid]
  <2>1. PICK u \in InRange(f) : x = [uid |-> u, msg |-> box[f][u]]
    BY DEF Listing
  <2> QED BY <1>1, <2>1
<1>4. \A x, y \in Listing(f) : x.uid = y.uid => x = y
  BY <1>3
<1> QED BY <1>2, <1>3, <1>4

LEMMA FetchMoves ==
    ASSUME WellFormed, NEW w \in Scanner, Fetch(w)
    PROVE  Moves(w)
<1>1. ScansOK /\ ServerOK /\ scan[w].at = "fetch" /\ scan[w].at \in Early
  BY DEF WellFormed, Fetch, Early
<1>2. CASE epoch[F(w)] # scan[w].epoch
  BY <1>1, <1>2, RestsMoves DEF Fetch
<1>3. CASE epoch[F(w)] = scan[w].epoch
  <2>1. PICK i \in Scanning : i = scan[w] /\ ScanOK(i)
    BY <1>1 DEF ScansOK
  <2>2. PICK Q \in SUBSET [uid : Nat, msg : Message] :
            Q = Listing(F(w)) /\ (\A x \in Q : x.uid > 0) /\ \A x, y \in Q : x.uid = y.uid => x = y
    BY <1>1, FolderAt, ListingOK
  <2>3. PICK j : j = [i EXCEPT !.at = "next", !.queue = Q]
    OBVIOUS
  <2>4. Now(w, j)
    BY <1>3, <2>1, <2>2, <2>3 DEF Fetch
  <2>5. /\ j \in Scanning /\ j.at = "next" /\ j.todo = i.todo /\ j.queue = Q /\ j.seen = i.seen
    BY <2>1, <2>2, <2>3 DEF Scanning, Late
  <2>6. i.seen = 0 /\ i.todo # <<>>
    BY <1>1, <2>1 DEF ScanOK
  <2>7. ScanOK(j)
    BY <2>2, <2>5, <2>6 DEF ScanOK, Early, Late
  <2> QED BY <2>4, <2>7 DEF Moves
<1> QED BY <1>2, <1>3

\* The row a message has in the folder, or none, and what the scan makes of it.
Found(w, i, stale) ==
    Now(w, [scan[w] EXCEPT !.at = "write", !.row = i, !.stale = stale, !.seen = First(w).uid])
Skipped(w) == Now(w, [scan[w] EXCEPT !.queue = Rest(w), !.seen = First(w).uid])

LEMMA LookUpCases ==
    ASSUME WellFormed, NEW w \in Scanner, LookUp(w)
    PROVE  \/ RowsFor(F(w), First(w).msg) = {} /\ Found(w, 0, FALSE) /\ Fine
           \/ \E r \in RowsFor(F(w), First(w).msg) :
                  Found(w, r.id, r.who # Who(First(w).msg)) /\ Fine
           \/ Skipped(w) /\ PassedOver
<1>1. scan[w] \in Scanning /\ ScanOK(scan[w]) /\ scan[w].at = "next" /\ scan[w].queue # {} /\ ScansOK
  BY DEF WellFormed, LookUp, ScansOK
<1>2. First(w).uid > scan[w].seen /\ First(w).uid \in Nat /\ scan[w].seen \in Nat
  BY <1>1, FirstOK DEF ScanOK, Scanning
<1>3. Max({scan[w].seen, First(w).uid}) = First(w).uid
  BY <1>2, MaxTwo
<1> QED BY <1>3, Zenon DEF LookUp, Found, Skipped

LEMMA LookUpMoves ==
    ASSUME WellFormed, NEW w \in Scanner, LookUp(w)
    PROVE  Moves(w)
<1>1. ScansOK /\ CacheOK /\ scan[w].at = "next" /\ scan[w].queue # {}
  BY DEF WellFormed, LookUp
<1>2. PICK i \in Scanning : i = scan[w] /\ ScanOK(i)
  BY <1>1 DEF ScansOK
<1>3. PICK x \in [uid : Nat, msg : Message] : x = First(w)
  BY <1>1, FirstOK
<1>4. PICK R \in SUBSET [uid : Nat, msg : Message] : R = Rest(w)
  BY <1>1, FirstOK
<1>5. /\ x \in i.queue /\ x.uid \in Nat /\ i.todo # <<>>
      /\ \A y \in i.queue : y.uid >= x.uid
      /\ \A y \in R : y.uid > x.uid /\ y \in i.queue
  BY <1>1, <1>2, <1>3, <1>4, FirstOK DEF ScanOK, Scanning, Late
<1>6. CASE Skipped(w)
  <2>1. PICK j : j = [i EXCEPT !.queue = R, !.seen = x.uid]
    OBVIOUS
  <2>2. Now(w, j)
    BY <1>2, <1>3, <1>4, <1>6, <2>1 DEF Skipped
  <2>3. /\ j \in Scanning /\ j.at = "next" /\ j.todo = i.todo /\ j.queue = R /\ j.seen = x.uid
    BY <1>1, <1>2, <1>5, <2>1 DEF Scanning, Late
  <2>4. \A y, z \in R : y.uid = z.uid => y = z
    BY <1>2, <1>5 DEF ScanOK
  <2>5. ScanOK(j)
    BY <1>5, <2>3, <2>4 DEF ScanOK, Early, Late
  <2> QED BY <2>2, <2>5 DEF Moves
<1>7. ASSUME NEW n \in Nat, NEW b \in BOOLEAN, Found(w, n, b) PROVE Moves(w)
  <2>1. PICK j : j = [i EXCEPT !.at = "write", !.row = n, !.stale = b, !.seen = x.uid]
    OBVIOUS
  <2>2. Now(w, j)
    BY <1>2, <1>3, <1>7, <2>1 DEF Found
  <2>3. /\ j \in Scanning /\ j.at = "write" /\ j.todo = i.todo /\ j.queue = i.queue /\ j.seen = x.uid
    BY <1>1, <1>2, <1>5, <2>1 DEF Scanning, Late
  <2>5. ScanOK(j)
    BY <1>2, <1>5, <2>3 DEF ScanOK, Early, Late
  <2> QED BY <2>2, <2>5 DEF Moves
<1>8. ASSUME NEW r \in RowsFor(F(w), x.msg), NEW b, b = (r.who # Who(x.msg)), Found(w, r.id, b)
      PROVE  Moves(w)
  <2>1. r.id \in Nat /\ b \in BOOLEAN
    BY <1>1, <1>8 DEF RowsFor, RowsIn, CacheOK, Rows
  <2> QED BY <1>7, <1>8, <2>1
<1>9. CASE \E r \in RowsFor(F(w), First(w).msg) : Found(w, r.id, r.who # Who(First(w).msg))
  <2>1. PICK r \in RowsFor(F(w), x.msg) : Found(w, r.id, r.who # Who(x.msg))
    BY <1>3, <1>9
  <2>2. PICK b : b = (r.who # Who(x.msg))
    OBVIOUS
  <2>3. Found(w, r.id, b)
    BY <2>1, <2>2
  <2> QED BY <1>8, <2>2, <2>3
<1>10. CASE Found(w, 0, FALSE)
  BY <1>7, <1>10
<1> QED BY <1>6, <1>9, <1>10, LookUpCases

\* What is left of the queue after a message, and after the connection.
LEMMA DoneMoves ==
    ASSUME ScansOK, NEW w \in Scanner, NEW a, NEW Q,
           \/ scan[w].at = "write" /\ Q = Rest(w) /\ a \in {"next", "invalidate"}
           \/ scan[w].at = "next" /\ Q = {} /\ a = "next",
           Now(w, [scan[w] EXCEPT !.at = a, !.queue = Q])
    PROVE  Moves(w)
<1>1. PICK i \in Scanning : i = scan[w] /\ ScanOK(i)
  BY DEF ScansOK
<1>2. PICK j : j = [i EXCEPT !.at = a, !.queue = Q]
  OBVIOUS
<1>3. /\ Q \in SUBSET [uid : Nat, msg : Message] /\ i.todo # <<>> /\ i.seen \in Nat
      /\ \A x \in Q : x.uid > i.seen /\ x \in i.queue
  <2>1. CASE scan[w].at = "write" /\ Q = Rest(w)
    <3>1. PICK q \in i.queue : q.uid = i.seen
      BY <1>1, <2>1 DEF ScanOK
    <3>2. First(w).uid \in Nat /\ q.uid \in Nat /\ q.uid >= First(w).uid /\ i.seen \in Nat
      BY <1>1, <3>1, FirstOK DEF Scanning
    <3>3. First(w).uid >= i.seen
      BY <1>1, <2>1, <3>1, FirstOK DEF ScanOK
    <3>4. Rest(w) \in SUBSET [uid : Nat, msg : Message]
          /\ \A x \in Rest(w) : x.uid > First(w).uid /\ x \in i.queue
      BY <1>1, <3>1, FirstOK
    <3>5. i.todo # <<>>
      BY <1>1, <2>1 DEF ScanOK, Late
    <3> QED BY <1>1, <2>1, <3>1, <3>2, <3>3, <3>4, <3>5
  <2>2. CASE scan[w].at = "next" /\ Q = {}
    BY <1>1, <2>2 DEF ScanOK, Late, Scanning
  <2> QED BY <2>1, <2>2
<1>4. /\ j \in Scanning /\ j.at = a /\ j.todo = i.todo /\ j.queue = Q /\ j.seen = i.seen
      /\ a \in {"next", "invalidate"}
  BY <1>1, <1>2, <1>3 DEF Scanning, Late
<1>5. \A x, y \in Q : x.uid = y.uid => x = y
  BY <1>1, <1>3 DEF ScanOK
<1>6. ScanOK(j)
  BY <1>3, <1>4, <1>5 DEF ScanOK, Early, Late
<1>7. Now(w, j)
  BY <1>1, <1>2
<1> QED BY <1>6, <1>7 DEF Moves

LEMMA WriteMoves ==
    ASSUME ScansOK, NEW w \in Scanner, Write(w) \/ ConnectionLost(w)
    PROVE  Moves(w)
<1>1. CASE Write(w)
  <2>1. scan[w].at = "write" /\ (Written(w, "next") \/ Written(w, "invalidate"))
    BY <1>1, Zenon DEF Write
  <2> QED BY <2>1, DoneMoves DEF Written
<1>2. CASE ConnectionLost(w)
  <2>1. scan[w].at = "next" /\ Now(w, [scan[w] EXCEPT !.queue = {}]) /\ scan[w] \in Scanning
    BY <1>2 DEF ConnectionLost, ScansOK
  <2>2. [scan[w] EXCEPT !.queue = {}] = [scan[w] EXCEPT !.at = "next", !.queue = {}]
    BY <2>1 DEF Scanning
  <2>3. Now(w, [scan[w] EXCEPT !.at = "next", !.queue = {}])
    BY <2>1, <2>2
  <2> QED BY <2>1, <2>3, DoneMoves
<1> QED BY <1>1, <1>2

LEMMA FoldMoves ==
    ASSUME ScansOK, NEW w \in Scanner, Fold(w)
    PROVE  Moves(w) \/ UNCHANGED scan
BY RestsMoves DEF Fold

LEMMA ScanMoves ==
    ASSUME WellFormed, NEW w \in Scanner, Scans(w)
    PROVE  Moves(w) \/ UNCHANGED scan
<1> USE DEF WellFormed
<1>1. CASE Start(w, FALSE) \/ Start(w, TRUE)
  BY <1>1, StartMoves
<1>2. CASE Clear(w)
  BY <1>2, GotoMoves DEF Clear, Early
<1>3. CASE Select(w)
  BY <1>3, SelectMoves
<1>4. CASE Check(w)
  <2>1. PICK a \in {"adopt", "fetch", "wipe"} : scan[w].at = "check" /\ Goto(w, a)
    BY <1>4, Zenon DEF Check
  <2> QED BY <2>1, GotoMoves DEF Early
<1>5. CASE Adopt(w)
  BY <1>5, GotoMoves DEF Adopt, Early
<1>6. CASE Wipe(w)
  <2>1. PICK a \in {"restate", "disown", "fetch"} : scan[w].at = "wipe" /\ Goto(w, a)
    BY <1>6, Zenon DEF Wipe
  <2> QED BY <2>1, GotoMoves DEF Early
<1>7. CASE Disown(w)
  BY <1>7, GotoMoves DEF Disown, Early
<1>8. CASE Restate(w)
  BY <1>8, GotoMoves DEF Restate, Early
<1>9. CASE Fetch(w)
  BY <1>9, FetchMoves
<1>10. CASE LookUp(w)
  BY <1>10, LookUpMoves
<1>11. CASE Write(w) \/ ConnectionLost(w)
  BY <1>11, WriteMoves
<1>12. CASE InvalidateHistory(w)
  BY <1>12, GotoMoves DEF InvalidateHistory
<1>13. CASE Advance(w)
  <2>1. scan[w].at = "next" /\ (NextFolder(w) \/ Goto(w, "confirm"))
    BY <1>13 DEF Advance
  <2> QED BY <2>1, NextFolderMoves, GotoMoves DEF Late
<1>14. CASE Confirm(w)
  BY <1>14, NextFolderMoves DEF Confirm, Late
<1>15. CASE Fold(w)
  BY <1>15, FoldMoves
<1>16. CASE ScanCrashes(w)
  BY <1>16, RestsMoves DEF ScanCrashes
<1> QED BY <1>1, <1>2, <1>3, <1>4, <1>5, <1>6, <1>7, <1>8, <1>9, <1>10, <1>11, <1>12, <1>13,
           <1>14, <1>15, <1>16 DEF Scans, ScanStep

-----------------------------------------------------------------------------
(* Steps on the thread cache.                                              *)

LEMMA InsertOK ==
    ASSUME CacheOK, NEW f \in Folder, NEW u \in Nat, NEW m \in Message, NEW s \in SUBSET Address,
           InsertRow(f, u, m, s), UNCHANGED sync
    PROVE  CacheOK'
<1>1. PICK n : n = [id |-> lastId + 1, folder |-> f, uid |-> u, msg |-> m, who |-> s]
  OBVIOUS
<1>2. cached' = cached \cup {n} /\ lastId' = lastId + 1 /\ n.id = lastId' /\ n \in Rows
  <2>1. lastId + 1 \in Nat
    BY DEF CacheOK
  <2>2. cached' = cached \cup {n} /\ lastId' = lastId + 1
    BY <1>1, Zenon DEF InsertRow
  <2> QED BY <1>1, <2>1, <2>2 DEF Rows
<1>3. cached' \subseteq Rows /\ IsFiniteSet(cached') /\ lastId' \in Nat
  BY <1>2, FS_AddElement DEF CacheOK
<1>4. \A r \in cached' : r.id \in 1 .. lastId'
  BY <1>2 DEF CacheOK
<1>5. \A r, q \in cached' : r.id = q.id => r = q
  BY <1>2 DEF CacheOK
<1> QED BY <1>3, <1>4, <1>5 DEF CacheOK

\* A row is rewritten in place.
Rewritten(r, i, u, s) == IF r.id = i THEN [r EXCEPT !.uid = u, !.who = s] ELSE r

LEMMA RewriteOK ==
    ASSUME CacheOK, NEW i, NEW u \in Nat, NEW s \in SUBSET Address,
           RewriteRow(i, u, s), UNCHANGED sync
    PROVE  /\ CacheOK'
           /\ \A r \in cached : /\ Rewritten(r, i, u, s) \in cached'
                                /\ Rewritten(r, i, u, s).id = r.id
                                /\ Rewritten(r, i, u, s).folder = r.folder
                                /\ Rewritten(r, i, u, s).msg = r.msg
                                /\ Rewritten(r, i, u, s).who = IF r.id = i THEN s ELSE r.who
           /\ \A q \in cached' : \E r \in cached : q = Rewritten(r, i, u, s)
<1>1. cached' = {Rewritten(r, i, u, s) : r \in cached} /\ lastId' = lastId
  BY DEF RewriteRow, Rewritten
<1>2. ASSUME NEW r \in cached
      PROVE  /\ Rewritten(r, i, u, s) \in Rows
             /\ Rewritten(r, i, u, s).id = r.id
             /\ Rewritten(r, i, u, s).folder = r.folder
             /\ Rewritten(r, i, u, s).msg = r.msg
             /\ Rewritten(r, i, u, s).who = IF r.id = i THEN s ELSE r.who
  <2>1. r \in Rows
    BY DEF CacheOK
  <2> QED BY <2>1 DEF Rewritten, Rows
<1>3. \A r \in cached : Rewritten(r, i, u, s) \in cached'
  BY <1>1
<1>4. \A q \in cached' : \E r \in cached : q = Rewritten(r, i, u, s)
  BY <1>1
<1>5. IsFiniteSet(cached')
  <2>1. PICK g : g = [r \in cached |-> Rewritten(r, i, u, s)]
    OBVIOUS
  <2>2. g \in Surjection(cached, cached')
    BY <1>3, <1>4, <2>1 DEF Surjection
  <2> QED BY <2>2, FS_Surjection DEF CacheOK
<1>6. cached' \subseteq Rows
  BY <1>2, <1>4
<1>7. \A q \in cached' : q.id \in 1 .. lastId'
  BY <1>1, <1>2, <1>4 DEF CacheOK
<1>8. \A q, p \in cached' : q.id = p.id => q = p
  BY <1>2, <1>4 DEF CacheOK
<1> QED BY <1>1, <1>2, <1>3, <1>4, <1>5, <1>6, <1>7, <1>8 DEF CacheOK

LEMMA DeleteOK ==
    ASSUME CacheOK, NEW f, DeleteRows(f), UNCHANGED sync
    PROVE  CacheOK'
<1>1. cached' \subseteq cached /\ lastId' = lastId
  BY DEF DeleteRows
<1>2. IsFiniteSet(cached')
  BY <1>1, FS_Subset DEF CacheOK
<1> QED BY <1>1, <1>2 DEF CacheOK

LEMMA SyncReads ==
    ASSUME CacheOK, NEW f \in Folder
    PROVE  StoredEpoch(f) \in Nat /\ LastUid(f) \in Nat
BY DEF CacheOK, StoredEpoch, LastUid

LEMMA SyncWritten ==
    ASSUME CacheOK, UNCHANGED <<cached, lastId>>, NEW f \in Folder, NEW u \in Nat, NEW e \in Nat,
           sync' = [sync EXCEPT ![f] = [uid |-> u, epoch |-> e]]
    PROVE  /\ CacheOK'
           /\ StoredEpoch(f)' = e /\ LastUid(f)' = u
           /\ \A g \in Folder \ {f} : StoredEpoch(g)' = StoredEpoch(g) /\ LastUid(g)' = LastUid(g)
<1>1. PICK x : x = [uid |-> u, epoch |-> e]
  OBVIOUS
<1>2. x \in [uid : Nat, epoch : Nat] /\ x.uid = u /\ x.epoch = e /\ x # Nobody
  BY <1>1, NobodyIsNone
<1>3. sync' \in [Folder -> [uid : Nat, epoch : Nat] \cup {Nobody}]
      /\ sync'[f] = x /\ \A g \in Folder \ {f} : sync'[g] = sync[g]
  BY <1>1, <1>2 DEF CacheOK
<1>4. CacheOK'
  BY <1>3 DEF CacheOK
<1> QED BY <1>1, <1>2, <1>3, <1>4 DEF StoredEpoch, LastUid

\* What a scan writes of a message: its record says whether it has a row.
LEMMA WriteCases ==
    ASSUME ScansOK, ServerOK, NEW w \in Scanner, Write(w)
    PROVE  /\ F(w) \in Folder /\ First(w) \in [uid : Nat, msg : Message] /\ First(w) \in scan[w].queue
           /\ Who(First(w).msg) \in SUBSET Address
           /\ scan[w].at = "write" /\ UNCHANGED <<sync, bookVars>> /\ ServerSame
           /\ \/ /\ scan[w].row = 0 /\ Written(w, "next") /\ Fine
                 /\ InsertRow(F(w), First(w).uid, First(w).msg, Who(First(w).msg))
              \/ /\ scan[w].row # 0 /\ RewriteRow(scan[w].row, First(w).uid, Who(First(w).msg))
                 /\ Written(w, IF scan[w].stale THEN "invalidate" ELSE "next") /\ Fine
              \/ PassedOver /\ Written(w, "next") /\ UNCHANGED <<cached, lastId>>
<1>1. scan[w].at = "write" /\ scan[w].queue # {}
  BY DEF Write, ScansOK, ScanOK
<1>2. F(w) \in Folder /\ First(w) \in [uid : Nat, msg : Message] /\ First(w) \in scan[w].queue
  BY <1>1, FolderAt, FirstOK DEF Late
<1>3. Who(First(w).msg) \in SUBSET Address
  <2>1. First(w).msg \in Message
    BY <1>2
  <2> QED BY <2>1, BookAssumption DEF Who, ServerOK
<1> QED BY <1>1, <1>2, <1>3, Zenon DEF Write

LEMMA CacheKept ==
    ASSUME WellFormed, NEW w \in Scanner, Scans(w)
    PROVE  CacheOK'
<1> USE DEF WellFormed
<1>1. CASE UNCHANGED cacheVars
  BY <1>1 DEF cacheVars, CacheOK
<1>2. CASE Clear(w)
  <2>1. UNCHANGED <<cached, lastId>> /\ (UNCHANGED sync \/ sync' = [f \in Folder |-> Nobody])
    BY <1>2 DEF Clear, ClearLastSyncedUid
  <2> QED BY <2>1 DEF CacheOK
<1>3. ASSUME NEW f \in Folder, UNCHANGED <<cached, lastId>>, NEW u \in Nat, NEW e \in Nat,
             \/ UNCHANGED sync \/ SetUidvalidity(f, e) \/ RestartSync(f, e) \/ SetLastSyncedUid(f, u)
      PROVE  CacheOK'
  <2>1. CASE UNCHANGED sync
    BY <1>1, <1>3, <2>1 DEF cacheVars
  <2>2. StoredEpoch(f) \in Nat /\ LastUid(f) \in Nat
    BY SyncReads
  <2>3. CASE SetUidvalidity(f, e)
    BY <1>3, <2>2, <2>3, SyncWritten DEF SetUidvalidity
  <2>4. CASE RestartSync(f, e)
    BY <1>3, <2>4, SyncWritten DEF RestartSync
  <2>5. CASE SetLastSyncedUid(f, u)
    BY <1>3, <2>2, <2>5, SyncWritten DEF SetLastSyncedUid
  <2> QED BY <1>3, <2>1, <2>3, <2>4, <2>5
<1>4. scan[w].epoch \in Nat /\ scan[w].seen \in Nat
  BY DEF ScansOK, Scanning
<1>5. scan[w].at \in Early \cup Late => F(w) \in Folder
  BY FolderAt
<1>6. CASE Adopt(w)
  BY <1>3, <1>4, <1>5, <1>6 DEF Adopt, Early
<1>7. CASE Restate(w)
  BY <1>3, <1>4, <1>5, <1>7 DEF Restate, Early
<1>8. CASE Confirm(w)
  BY <1>3, <1>4, <1>5, <1>8 DEF Confirm, Late
<1>9. CASE Advance(w)
  BY <1>3, <1>4, <1>5, <1>9 DEF Advance, Late
<1>10. CASE Wipe(w)
  <2>1. UNCHANGED sync /\ (DeleteRows(F(w)) \/ UNCHANGED <<cached, lastId>>)
    BY <1>10, Zenon DEF Wipe
  <2> QED BY <1>1, <2>1, DeleteOK DEF cacheVars
<1>11. CASE Write(w)
  <2>1. PICK f \in Folder, u \in Nat, m \in Message, s \in SUBSET Address :
            f = F(w) /\ u = First(w).uid /\ m = First(w).msg /\ s = Who(First(w).msg)
    BY <1>11, WriteCases
  <2>2. UNCHANGED sync /\ (InsertRow(f, u, m, s) \/ RewriteRow(scan[w].row, u, s) \/ UNCHANGED <<cached, lastId>>)
    BY <1>11, <2>1, WriteCases
  <2>3. CASE InsertRow(f, u, m, s)
    BY <2>2, <2>3, InsertOK
  <2>4. CASE RewriteRow(scan[w].row, u, s)
    BY <2>2, <2>4, RewriteOK
  <2> QED BY <1>1, <2>2, <2>3, <2>4 DEF cacheVars
<1>12. CASE Start(w, FALSE) \/ Start(w, TRUE) \/ Select(w) \/ Check(w) \/ Disown(w) \/ Fetch(w)
  BY <1>1, <1>12 DEF Start, Select, Check, Disown, Fetch
<1>13. CASE LookUp(w)
  BY <1>1, <1>13, Zenon DEF LookUp
<1>14. CASE InvalidateHistory(w) \/ ConnectionLost(w) \/ Fold(w) \/ ScanCrashes(w)
  BY <1>1, <1>14 DEF InvalidateHistory, ConnectionLost, Fold, ScanCrashes
<1> QED BY <1>2, <1>6, <1>7, <1>8, <1>9, <1>10, <1>11, <1>12, <1>13, <1>14 DEF Scans, ScanStep

-----------------------------------------------------------------------------
(* Steps on the address book.                                              *)

Told == UNCHANGED bookVars \/ ReconcileChunk \/ Invalidate \/ NotInvalidated
Sends == \/ \E a \in Address : MarkSent(a)
         \/ \E i \in recording : RecordRecipients(i) \/ RecordingLost(i)
Edits == \/ \E a \in Address : AddContact(a) \/ DeleteContact(a) \/ TagRead(a)
         \/ TakeOwnership
Outdated == /\ hist' \in {hist, Nobody}
            /\ UNCHANGED <<contacts, index, sent, recording, tagging, owed, forgotten, curated, known,
                           rebuilding, indexed>>
BookStep == Told \/ Sends \/ Edits \/ Outdated \/ \E ms : IsFiniteSet(ms) /\ RefreshIndex(ms)

LEMMA ScansTell ==
    ASSUME NEW w \in Scanner, Scans(w)
    PROVE  Told /\ UNCHANGED <<box, top, epoch, parser>>
<1>1. CASE Start(w, FALSE) \/ Start(w, TRUE) \/ Clear(w) \/ Select(w) \/ Check(w) \/ Adopt(w)
  BY <1>1 DEF Start, Clear, Select, Check, Adopt, Told, ServerSame
<1>2. CASE Wipe(w) \/ LookUp(w) \/ Write(w)
  BY <1>2, Zenon DEF Wipe, LookUp, Write, Told, ServerSame
<1>3. CASE Disown(w) \/ Restate(w) \/ Fetch(w) \/ InvalidateHistory(w) \/ ConnectionLost(w)
  BY <1>3 DEF Disown, Restate, Fetch, InvalidateHistory, ConnectionLost, Told, ServerSame
<1>4. CASE Advance(w) \/ Confirm(w) \/ Fold(w) \/ ScanCrashes(w)
  BY <1>4 DEF Advance, Confirm, Fold, ScanCrashes, Told, ServerSame
<1> QED BY <1>1, <1>2, <1>3, <1>4 DEF Scans, ScanStep

\* The chunk is what lies between the watermark and the mark it leaves.
LEMMA MarkOfBatch ==
    ASSUME CacheOK, BookOK, NEW n, n = Max({r.id : r \in Batch} \cup {Watermark})
    PROVE  /\ n \in Nat /\ n >= Watermark
           /\ n = Watermark \/ n <= lastId
           /\ \A r \in cached : r \in Batch <=> r.id > Watermark /\ r.id <= n
<1>1. Watermark \in Nat /\ Batch \subseteq cached /\ IsFiniteSet(Batch)
  BY BatchOK
<1> DEFINE S == {r.id : r \in Batch} \cup {Watermark}
<1>2. lastId + Watermark \in Nat /\ lastId \in Nat
  BY <1>1 DEF CacheOK
<1>3. \A r \in cached : r.id \in Nat /\ r.id <= lastId
  BY <1>2 DEF CacheOK
<1>4. S \in SUBSET Nat /\ S # {} /\ \A v \in S : v <= lastId + Watermark
  BY <1>1, <1>2, <1>3
<1>5. n \in S /\ \A v \in S : n >= v
  <2> HIDE DEF S
  <2>1. n = Max(S)
    BY DEF S
  <2> QED BY <1>2, <1>4, <2>1, MaxBounded
<1>6. n \in Nat /\ n >= Watermark /\ (n = Watermark \/ n <= lastId)
  BY <1>1, <1>3, <1>4, <1>5
<1>7. ASSUME NEW r \in Batch PROVE r.id > Watermark /\ r.id <= n
  <2>1. r.id > Watermark
    BY DEF Batch
  <2>2. r.id \in S
    OBVIOUS
  <2> QED BY <1>1, <1>3, <1>5, <1>6, <2>1, <2>2
<1>8. ASSUME NEW r \in cached, r.id > Watermark, r.id <= n PROVE r \in Batch
  <2>0. n # Watermark
    BY <1>1, <1>3, <1>6, <1>8
  <2>1. PICK q \in Batch : n = q.id
    BY <1>5, <2>0
  <2> DEFINE Upto(k) == {p \in cached : p.id \in Watermark + 1 .. k}
  <2>2. Cardinality(Upto(q.id)) <= ChunkRows
    BY <2>1 DEF Batch
  <2>3. q \in cached /\ q.id \in Nat /\ r.id \in Nat
    BY <1>1, <1>3
  <2>4. Upto(r.id) \subseteq Upto(q.id) /\ Upto(q.id) \subseteq cached
    BY <1>1, <1>3, <1>8, <2>1, <2>3
  <2>5. IsFiniteSet(Upto(q.id))
    <3> HIDE DEF Upto
    <3> QED BY <2>4, FS_Subset DEF CacheOK
  <2>6. Cardinality(Upto(r.id)) <= Cardinality(Upto(q.id))
    <3> HIDE DEF Upto
    <3> QED BY <2>4, <2>5, FS_Subset
  <2>7. Cardinality(Upto(r.id)) \in Nat /\ Cardinality(Upto(q.id)) \in Nat
    <3> HIDE DEF Upto
    <3>1. IsFiniteSet(Upto(r.id))
      BY <2>4, <2>5, FS_Subset
    <3> QED BY <2>5, <3>1, FS_CardinalityType
  <2>8. Cardinality(Upto(r.id)) <= ChunkRows
    <3> HIDE DEF Upto
    <3> QED BY <2>2, <2>6, <2>7, BookAssumption
  <2> QED BY <1>8, <2>8 DEF Batch
<1> QED BY <1>1, <1>6, <1>7, <1>8

LEMMA RowsGoneOK ==
    ASSUME BookOK, RowsGone
    PROVE  /\ tagging' \in Tagging \cup {Nobody}
           /\ tagging' # Nobody /\ tagging'.there => contacts'[tagging'.addr] # Nobody
<1>1. CASE tagging = Nobody
  BY <1>1 DEF RowsGone
<1>2. CASE tagging # Nobody
  <2>1. PICK x \in Tagging : x = tagging
    BY <1>2 DEF BookOK
  <2>2. PICK y : y = [x EXCEPT !.there = FALSE]
    OBVIOUS
  <2>3. y \in Tagging /\ ~y.there
    BY <2>2 DEF Tagging
  <2>4. tagging' = IF contacts'[x.addr] = Nobody THEN y ELSE x
    BY <1>2, <2>1, <2>2 DEF RowsGone
  <2> QED BY <2>1, <2>3, <2>4
<1> QED BY <1>1, <1>2

LEMMA ReconcileKeeps ==
    ASSUME CacheOK, BookOK, ReconcileChunk
    PROVE  BookOK' /\ (CuratedStays => CuratedStays')
<1>1. contacts' \in [Address -> Contact \cup {Nobody}]
  <2>1. PICK C : C = contacts'
    OBVIOUS
  <2>2. \A a \in Address : contacts'[a] \in Contact \cup {Nobody}
    BY ChunkFolds
  <2>3. contacts' = [a \in Address |-> contacts'[a]]
    BY Zenon DEF ReconcileChunk
  <2> QED BY <2>2, <2>3
<1>2. PICK n : n = Max({r.id : r \in Batch} \cup {Watermark})
  OBVIOUS
<1>3. hist' = [mark |-> n, dirty |-> FALSE] /\ n \in Nat
  BY <1>2, MarkOfBatch DEF ReconcileChunk
<1>4. hist' \in History
  BY <1>3 DEF History
<1>5. /\ UNCHANGED <<index, sent, recording, curated, indexed>>
      /\ known' \in {known, DOMAIN sent}
      /\ rebuilding' \in BOOLEAN /\ owed' \in BOOLEAN
      /\ RowsGone
  BY Zenon DEF ReconcileChunk, BookOK
<1>6. tagging' \in Tagging \cup {Nobody} /\ (tagging' # Nobody /\ tagging'.there => contacts'[tagging'.addr] # Nobody)
  BY <1>5, RowsGoneOK
<1>7. CuratedStays => CuratedStays'
  <2>1. ASSUME CuratedStays, NEW a \in curated
        PROVE  contacts'[a] # Nobody /\ ~contacts'[a].derived
    <3>1. a \in Address
      BY DEF BookOK
    <3> QED BY <2>1, <3>1, ChunkFolds DEF CuratedStays
  <2> QED BY <1>5, <2>1 DEF CuratedStays
<1>8. BookOK'
  BY <1>1, <1>4, <1>5, <1>6 DEF BookOK
<1> QED BY <1>7, <1>8

\* Recording a send touches one contact, and raises no history.
LEMMA Recorded ==
    ASSUME CacheOK, BookOK, NEW i, RecordRecipients(i)
    PROVE  /\ i \in recording /\ i \in DOMAIN sent /\ sent[i] \in Address
           /\ SentTo(sent[i]) \in Nat
           /\ \E m \in Contact \cup {Nobody} :
                 /\ contacts' = [contacts EXCEPT ![sent[i]] = m]
                 /\ contacts[sent[i]] # Nobody =>
                        /\ m # Nobody
                        /\ m.derived = contacts[sent[i]].derived
                        /\ m.history = contacts[sent[i]].history
                        /\ m.sent >= contacts[sent[i]].sent
                 /\ contacts[sent[i]] = Nobody /\ m # Nobody => m.history = 0
                 /\ SentTo(sent[i]) > 0 => m # Nobody /\ m.sent > 0
<1>1. i \in recording /\ i \in DOMAIN sent /\ sent[i] \in Address
  BY ElementOfSeq DEF RecordRecipients, BookOK
<1>2. PICK a \in Address : a = sent[i]
  BY <1>1
<1>3. SentTo(a) \in Nat
  BY BatchOK
<1>4. PICK o : o = [delta |-> 0, recount |-> 0, sent |-> SentTo(a)]
  OBVIOUS
<1>5. o \in Observation /\ o.delta = 0 /\ o.recount = 0 /\ o.sent = SentTo(a)
  BY <1>3, <1>4 DEF Observation
<1>6. PICK c \in Contact \cup {Nobody} : c = contacts[a]
  BY DEF BookOK
<1>7. PICK m : m = Merge(c, a, o)
  OBVIOUS
<1>8. contacts' = [contacts EXCEPT ![a] = m]
  BY <1>2, <1>4, <1>6, <1>7, Zenon DEF RecordRecipients
<1>9. CASE c # Nobody
  <2>1. /\ m \in Contact /\ m.derived = c.derived
        /\ m.sent >= c.sent /\ m.sent >= o.sent
        /\ m.history >= c.history + o.delta /\ m.history >= o.recount
        /\ m.history = c.history + o.delta \/ m.history = o.recount
    BY <1>5, <1>6, <1>7, <1>9, MergeKept
  <2>2. c.history \in Nat /\ m.history \in Nat /\ m.sent \in Nat /\ m # Nobody
    BY <1>6, <1>9, <2>1, NobodyIsNone DEF Contact
  <2>3. m.history = c.history
    BY <1>5, <2>1, <2>2
  <2>4. SentTo(a) > 0 => m.sent > 0
    BY <1>3, <1>5, <2>1, <2>2
  <2> QED BY <1>1, <1>2, <1>3, <1>6, <1>8, <1>9, <2>1, <2>2, <2>3, <2>4
<1>10. CASE c = Nobody
  <2>1. \/ /\ m = Nobody /\ o.delta = 0 /\ o.recount = 0 /\ o.sent = 0
        \/ /\ m \in Contact /\ m.sent = o.sent
           /\ m.history >= o.delta /\ m.history >= o.recount
           /\ m.history = o.delta \/ m.history = o.recount
    BY <1>5, <1>7, <1>10, MergeMade
  <2>2. m \in Contact \cup {Nobody} /\ (m # Nobody => m.history = 0)
    BY <1>5, <2>1
  <2>3. SentTo(a) > 0 => m # Nobody /\ m.sent > 0
    BY <1>3, <1>5, <2>1, NobodyIsNone
  <2> QED BY <1>1, <1>2, <1>3, <1>6, <1>8, <1>10, <2>2, <2>3
<1> QED BY <1>9, <1>10

LEMMA SendsKeep ==
    ASSUME CacheOK, BookOK, Sends
    PROVE  BookOK' /\ (CuratedStays => CuratedStays')
<1>1. ASSUME NEW a \in Address, MarkSent(a) PROVE BookOK' /\ (CuratedStays => CuratedStays')
  <2>1. sent \in Seq(Address) /\ sent' = Append(sent, a) /\ recording' = recording \cup {Len(sent) + 1}
    BY <1>1 DEF MarkSent, BookOK
  <2>2. sent' \in Seq(Address) /\ Len(sent') = Len(sent) + 1 /\ Len(sent) \in Nat
        /\ DOMAIN sent = 1 .. Len(sent) /\ DOMAIN sent' = 1 .. Len(sent')
    BY <2>1, AppendProperties, LenProperties
  <2>3. DOMAIN sent \subseteq DOMAIN sent' /\ Len(sent) + 1 \in DOMAIN sent'
    BY <2>2
  <2>4. UNCHANGED <<contacts, hist, index, tagging, owed, forgotten, curated, known, rebuilding, indexed>>
    BY <1>1 DEF MarkSent
  <2> QED BY <2>1, <2>2, <2>3, <2>4 DEF BookOK, CuratedStays
<1>2. ASSUME NEW i \in recording, RecordRecipients(i) PROVE BookOK' /\ (CuratedStays => CuratedStays')
  <2>1. PICK a \in Address : a = sent[i] /\ i \in DOMAIN sent
    BY <1>2, Recorded
  <2>2. PICK m \in Contact \cup {Nobody} :
            /\ contacts' = [contacts EXCEPT ![a] = m]
            /\ contacts[a] # Nobody => m # Nobody /\ m.derived = contacts[a].derived
    BY <1>2, <2>1, Recorded
  <2>3. /\ contacts' \in [Address -> Contact \cup {Nobody}] /\ contacts'[a] = m
        /\ \A b \in Address \ {a} : contacts'[b] = contacts[b]
    BY <2>2 DEF BookOK
  <2>4. /\ UNCHANGED <<hist, index, sent, tagging, owed, forgotten, curated, rebuilding, indexed>>
        /\ recording' = recording \ {i} /\ known' = known \cup {i}
    BY <1>2, Zenon DEF RecordRecipients
  <2>5. \A b \in Address : contacts[b] # Nobody => contacts'[b] # Nobody /\ contacts'[b].derived = contacts[b].derived
    BY <2>2, <2>3
  <2>6. CuratedStays => CuratedStays'
    BY <2>4, <2>5 DEF CuratedStays, BookOK
  <2>7. tagging' # Nobody /\ tagging'.there => contacts'[tagging'.addr] # Nobody
    BY <2>4, <2>5 DEF BookOK, Tagging
  <2>8. BookOK'
    BY <2>1, <2>3, <2>4, <2>7 DEF BookOK
  <2> QED BY <2>6, <2>8
<1>3. ASSUME NEW i \in recording, RecordingLost(i) PROVE BookOK' /\ (CuratedStays => CuratedStays')
  BY <1>3 DEF RecordingLost, BookOK, CuratedStays
<1> QED BY <1>1, <1>2, <1>3 DEF Sends

LEMMA EditsKeep ==
    ASSUME BookOK, Edits
    PROVE  BookOK' /\ (CuratedStays => CuratedStays')
<1>1. ASSUME NEW a \in Address, AddContact(a) PROVE BookOK' /\ (CuratedStays => CuratedStays')
  <2>1. PICK c \in Contact \cup {Nobody} : c = contacts[a]
    BY DEF BookOK
  <2>2. PICK m : m = IF c = Nobody THEN [history |-> 0, sent |-> 0, derived |-> FALSE]
                                   ELSE [c EXCEPT !.derived = FALSE]
    OBVIOUS
  <2>3. m \in Contact /\ ~m.derived
    BY <2>1, <2>2 DEF Contact
  <2>4. m # Nobody
    BY <2>3, NobodyIsNone
  <2>5. contacts' = [contacts EXCEPT ![a] = m]
    BY <1>1, <2>1, <2>2 DEF AddContact
  <2>6. /\ contacts' \in [Address -> Contact \cup {Nobody}] /\ contacts'[a] = m
        /\ \A b \in Address \ {a} : contacts'[b] = contacts[b]
    BY <2>3, <2>5 DEF BookOK
  <2>7. /\ UNCHANGED <<hist, index, sent, recording, tagging, owed, forgotten, known, rebuilding, indexed>>
        /\ curated' = curated \cup {a}
    BY <1>1 DEF AddContact
  <2>8. CuratedStays => CuratedStays'
    BY <2>3, <2>4, <2>6, <2>7 DEF CuratedStays, BookOK
  <2>9. tagging' # Nobody /\ tagging'.there => contacts'[tagging'.addr] # Nobody
    BY <2>4, <2>6, <2>7 DEF BookOK, Tagging
  <2>10. BookOK'
    BY <2>6, <2>7, <2>9 DEF BookOK
  <2> QED BY <2>8, <2>10
<1>2. ASSUME NEW a \in Address, DeleteContact(a) PROVE BookOK' /\ (CuratedStays => CuratedStays')
  <2>1. contacts' = [contacts EXCEPT ![a] = Nobody]
    BY <1>2 DEF DeleteContact
  <2>2. /\ contacts' \in [Address -> Contact \cup {Nobody}] /\ contacts'[a] = Nobody
        /\ \A b \in Address \ {a} : contacts'[b] = contacts[b]
    BY <2>1 DEF BookOK
  <2>3. /\ UNCHANGED <<hist, index, sent, recording, owed, rebuilding, indexed>>
        /\ curated' = curated \ {a} /\ RowsGone /\ known' \subseteq known
    BY <1>2 DEF DeleteContact
  <2>4. CuratedStays => CuratedStays'
    BY <2>2, <2>3 DEF CuratedStays, BookOK
  <2>5. tagging' \in Tagging \cup {Nobody} /\ (tagging' # Nobody /\ tagging'.there => contacts'[tagging'.addr] # Nobody)
    BY <2>3, RowsGoneOK
  <2>6. BookOK'
    BY <2>2, <2>3, <2>5 DEF BookOK
  <2> QED BY <2>4, <2>6
<1>3. ASSUME NEW a \in Address, TagRead(a) PROVE BookOK' /\ (CuratedStays => CuratedStays')
  <2>1. PICK x : x = [addr |-> a, there |-> TRUE]
    OBVIOUS
  <2>2. x \in Tagging /\ x.addr = a
    BY <2>1 DEF Tagging
  <2>3. tagging' = x /\ contacts[a] # Nobody
        /\ UNCHANGED <<contacts, hist, index, sent, recording, owed, forgotten, curated, known, rebuilding, indexed>>
    BY <1>3, <2>1 DEF TagRead
  <2> QED BY <2>2, <2>3 DEF BookOK, CuratedStays
<1>4. CASE TakeOwnership
  <2>1. PICK x \in Tagging : x = tagging
    BY <1>4, Zenon DEF TakeOwnership, BookOK
  <2>2. PICK a \in Address : a = x.addr
    BY DEF Tagging
  <2>3. tagging' = Nobody /\ UNCHANGED <<hist, index, sent, recording, owed, forgotten, known, rebuilding, indexed>>
    BY <1>4, Zenon DEF TakeOwnership
  <2>4. CASE x.there
    <3>1. PICK c \in Contact : c = contacts[a]
      BY <2>1, <2>2, <2>4, NobodyIsNone DEF BookOK
    <3>2. PICK m : m = [c EXCEPT !.derived = FALSE]
      OBVIOUS
    <3>3. m \in Contact /\ ~m.derived
      BY <3>2 DEF Contact
    <3>4. m # Nobody
      BY <3>3, NobodyIsNone
    <3>5. contacts' = [contacts EXCEPT ![a].derived = FALSE] /\ curated' = curated \cup {a}
      BY <1>4, <2>1, <2>2, <2>4, Zenon DEF TakeOwnership
    <3>6. contacts' \in [Address -> Contact \cup {Nobody}] /\ contacts'[a] = m
          /\ \A b \in Address \ {a} : contacts'[b] = contacts[b]
      BY <3>1, <3>2, <3>3, <3>5 DEF BookOK
    <3>7. CuratedStays => CuratedStays'
      BY <3>3, <3>4, <3>5, <3>6 DEF CuratedStays, BookOK
    <3>8. BookOK'
      BY <2>3, <3>5, <3>6 DEF BookOK
    <3> QED BY <3>7, <3>8
  <2>5. CASE ~x.there
    <3>1. UNCHANGED <<contacts, curated>>
      BY <1>4, <2>1, <2>5, Zenon DEF TakeOwnership
    <3> QED BY <2>3, <3>1 DEF BookOK, CuratedStays
  <2> QED BY <2>4, <2>5
<1> QED BY <1>1, <1>2, <1>3, <1>4 DEF Edits

LEMMA BookKept ==
    ASSUME CacheOK, BookOK, BookStep
    PROVE  BookOK' /\ (CuratedStays => CuratedStays')
<1>1. CASE UNCHANGED bookVars
  BY <1>1 DEF bookVars, BookOK, CuratedStays
<1>2. CASE ReconcileChunk
  BY <1>2, ReconcileKeeps
<1>3. CASE Invalidate
  <2>1. hist' \in History \cup {Nobody}
    <3>1. CASE hist = Nobody
      BY <1>3, <3>1 DEF Invalidate
    <3>2. CASE hist # Nobody
      <4>1. PICK h \in History : h = hist
        BY <3>2 DEF BookOK
      <4>2. [h EXCEPT !.dirty = TRUE] \in History
        BY DEF History
      <4> QED BY <1>3, <3>2, <4>1, <4>2 DEF Invalidate
    <3> QED BY <3>1, <3>2
  <2> QED BY <1>3, <2>1 DEF Invalidate, BookOK, CuratedStays
<1>4. CASE NotInvalidated \/ Outdated
  BY <1>4 DEF NotInvalidated, Outdated, BookOK, CuratedStays
<1>5. ASSUME NEW ms, IsFiniteSet(ms), RefreshIndex(ms) PROVE BookOK' /\ (CuratedStays => CuratedStays')
  <2>1. index' = ms /\ indexed' = indexed \cup ms /\ IsFiniteSet(indexed')
    BY <1>5, FS_Union DEF RefreshIndex, BookOK
  <2> QED BY <1>5, <2>1 DEF RefreshIndex, BookOK, CuratedStays
<1> QED BY <1>1, <1>2, <1>3, <1>4, <1>5, SendsKeep, EditsKeep DEF BookStep, Told

-----------------------------------------------------------------------------
(* Every step.                                                             *)

\* What the server and an upgrade do; the scans, the book and the cache stand still.
ServerStep ==
    \/ \E m \in Message : Arrive(m)
    \/ \E f \in Folder : Renumber(f) \/ \E u \in DOMAIN box[f] : Expunge(f, u)

LEMMA ArriveOK ==
    ASSUME ServerOK, NEW m \in Message, Arrive(m)
    PROVE  \E f \in Folder :
               /\ top' = [top EXCEPT ![f] = top[f] + 1] /\ UNCHANGED epoch
               /\ \E b \in [DOMAIN box[f] \cup {top[f] + 1} -> Message] :
                     /\ box' = [box EXCEPT ![f] = b]
                     /\ \A u \in DOMAIN box[f] : b[u] = box[f][u]
<1>1. PICK f \in Folder : f = Arriving[m]
  BY InitiallyAssumption
<1>2. PICK b : b = [u \in DOMAIN box[f] \cup {top[f] + 1} |-> IF u \in DOMAIN box[f] THEN box[f][u] ELSE m]
  OBVIOUS
<1>3. top' = [top EXCEPT ![f] = top[f] + 1] /\ box' = [box EXCEPT ![f] = b] /\ UNCHANGED epoch
  BY <1>1, <1>2, Zenon DEF Arrive
<1>4. \A u \in DOMAIN box[f] : box[f][u] \in Message
  BY BoxOK
<1>5. b \in [DOMAIN box[f] \cup {top[f] + 1} -> Message] /\ \A u \in DOMAIN box[f] : b[u] = box[f][u]
  BY <1>2, <1>4
<1> QED BY <1>3, <1>5

LEMMA RenumberOK ==
    ASSUME ServerOK, NEW f \in Folder, Renumber(f)
    PROVE  \E n \in Nat :
               /\ top' = [top EXCEPT ![f] = n] /\ epoch' = [epoch EXCEPT ![f] = epoch[f] + 1]
               /\ \E b \in [1 .. n -> Message] : box' = [box EXCEPT ![f] = b]
<1>1. PICK n \in Nat : n = Cardinality(DOMAIN box[f])
  BY BoxOK, FS_CardinalityType
<1>2. PICK to \in [1 .. n -> Messages(f)] : box' = [box EXCEPT ![f] = to]
  BY <1>1, Zenon DEF Renumber
<1>3. Messages(f) \subseteq Message
  BY BoxOK DEF Messages
<1>4. to \in [1 .. n -> Message]
  BY <1>3
<1> QED BY <1>1, <1>2, <1>4 DEF Renumber

LEMMA ExpungeOK ==
    ASSUME ServerOK, NEW f \in Folder, NEW v, Expunge(f, v)
    PROVE  /\ UNCHANGED <<top, epoch>>
           /\ \E b \in [DOMAIN box[f] \ {v} -> Message] :
                 /\ box' = [box EXCEPT ![f] = b]
                 /\ \A u \in DOMAIN b : b[u] = box[f][u]
<1>1. PICK b : b = [u \in DOMAIN box[f] \ {v} |-> box[f][u]]
  OBVIOUS
<1>2. box' = [box EXCEPT ![f] = b]
  BY <1>1, Zenon DEF Expunge
<1>3. b \in [DOMAIN box[f] \ {v} -> Message] /\ \A u \in DOMAIN b : b[u] = box[f][u]
  BY <1>1, BoxOK
<1> QED BY <1>2, <1>3 DEF Expunge

LEMMA BoxReplaced ==
    ASSUME ServerOK, NEW f \in Folder, NEW n \in Nat, NEW S \in SUBSET (1 .. n), NEW b \in [S -> Message],
           box' = [box EXCEPT ![f] = b], top' = [top EXCEPT ![f] = n]
    PROVE  /\ box' \in [Folder -> UNION {[T -> Message] : T \in SUBSET Nat}]
           /\ top' \in [Folder -> Nat] /\ \A g \in Folder : DOMAIN box'[g] \subseteq 1 .. top'[g]
<1>1. S \in SUBSET Nat
  OBVIOUS
<1>2. b \in UNION {[T -> Message] : T \in SUBSET Nat} /\ DOMAIN b = S
  BY <1>1
<1>3. box' \in [Folder -> UNION {[T -> Message] : T \in SUBSET Nat}] /\ box'[f] = b
      /\ \A g \in Folder \ {f} : box'[g] = box[g]
  <2> DEFINE B == UNION {[T -> Message] : T \in SUBSET Nat}
  <2>1. b \in B /\ box \in [Folder -> B]
    BY <1>2 DEF ServerOK
  <2> HIDE DEF B
  <2>2. box' \in [Folder -> B] /\ box'[f] = b /\ \A g \in Folder \ {f} : box'[g] = box[g]
    BY <2>1
  <2> QED BY <2>2 DEF B
<1>4. top' \in [Folder -> Nat] /\ top'[f] = n /\ \A g \in Folder \ {f} : top'[g] = top[g]
  BY DEF ServerOK
<1>5. ASSUME NEW g \in Folder PROVE DOMAIN box'[g] \subseteq 1 .. top'[g]
  <2>1. CASE g = f
    BY <1>2, <1>3, <1>4, <2>1
  <2>2. CASE g # f
    BY <1>3, <1>4, <2>2 DEF ServerOK
  <2> QED BY <2>1, <2>2
<1> QED BY <1>3, <1>4, <1>5

LEMMA ServerKept ==
    ASSUME ServerOK, ServerStep
    PROVE  ServerOK' /\ UNCHANGED <<scan, parser, faults, lapsed, cacheVars, bookVars>>
<1>1. UNCHANGED <<scan, parser, faults, lapsed, cacheVars, bookVars>>
  BY Zenon DEF ServerStep, Arrive, Renumber, Expunge
<1>2. ASSUME box' \in [Folder -> UNION {[T -> Message] : T \in SUBSET Nat}],
             top' \in [Folder -> Nat], \A g \in Folder : DOMAIN box'[g] \subseteq 1 .. top'[g],
             epoch' \in [Folder -> Nat], \A g \in Folder : epoch'[g] >= 1
      PROVE  ServerOK'
  BY <1>1, <1>2 DEF ServerOK
<1>3. ASSUME NEW m \in Message, Arrive(m) PROVE ServerOK'
  <2>1. PICK f \in Folder : /\ top' = [top EXCEPT ![f] = top[f] + 1] /\ UNCHANGED epoch
                            /\ \E b \in [DOMAIN box[f] \cup {top[f] + 1} -> Message] :
                                  box' = [box EXCEPT ![f] = b]
    BY <1>3, ArriveOK
  <2>2. PICK n \in Nat : n = top[f] + 1
    BY DEF ServerOK
  <2>3. PICK S \in SUBSET (1 .. n) : S = DOMAIN box[f] \cup {top[f] + 1}
    <3>1. DOMAIN box[f] \subseteq 1 .. top[f] /\ top[f] \in Nat
      BY DEF ServerOK
    <3>2. DOMAIN box[f] \cup {top[f] + 1} \subseteq 1 .. n
      BY <2>2, <3>1
    <3> QED BY <3>2
  <2>4. PICK b \in [S -> Message] : box' = [box EXCEPT ![f] = b]
    BY <2>1, <2>3
  <2>5. top' = [top EXCEPT ![f] = n] /\ UNCHANGED epoch
    BY <2>1, <2>2
  <2> QED BY <1>2, <2>4, <2>5, BoxReplaced DEF ServerOK
<1>4. ASSUME NEW f \in Folder, Renumber(f) PROVE ServerOK'
  <2>1. PICK n \in Nat : /\ top' = [top EXCEPT ![f] = n] /\ epoch' = [epoch EXCEPT ![f] = epoch[f] + 1]
                         /\ \E b \in [1 .. n -> Message] : box' = [box EXCEPT ![f] = b]
    BY <1>4, RenumberOK
  <2>2. PICK b \in [1 .. n -> Message] : box' = [box EXCEPT ![f] = b]
    BY <2>1
  <2>3. 1 .. n \in SUBSET (1 .. n)
    OBVIOUS
  <2>4. epoch' \in [Folder -> Nat] /\ \A g \in Folder : epoch'[g] >= 1
    BY <2>1 DEF ServerOK
  <2> QED BY <1>2, <2>1, <2>2, <2>3, <2>4, BoxReplaced
<1>5. ASSUME NEW f \in Folder, NEW v \in DOMAIN box[f], Expunge(f, v) PROVE ServerOK'
  <2>1. UNCHANGED <<top, epoch>> /\ \E b \in [DOMAIN box[f] \ {v} -> Message] : box' = [box EXCEPT ![f] = b]
    BY <1>5, ExpungeOK
  <2>2. PICK n \in Nat : n = top[f]
    BY DEF ServerOK
  <2>3. PICK S \in SUBSET (1 .. n) : S = DOMAIN box[f] \ {v}
    <3>1. DOMAIN box[f] \ {v} \subseteq 1 .. n
      BY <2>2 DEF ServerOK
    <3> QED BY <3>1
  <2>4. PICK b \in [S -> Message] : box' = [box EXCEPT ![f] = b]
    BY <2>1, <2>3
  <2>5. top' = [top EXCEPT ![f] = n]
    BY <2>1, <2>2 DEF ServerOK
  <2> QED BY <1>2, <2>1, <2>4, <2>5, BoxReplaced DEF ServerOK
<1> QED BY <1>1, <1>3, <1>4, <1>5 DEF ServerStep

LEMMA ScanFlags ==
    ASSUME ServerOK, NEW w \in Scanner, Scans(w)
    PROVE  faults' \in Nat /\ lapsed' \in BOOLEAN /\ (lapsed => lapsed')
<1> DEFINE Kept == (UNCHANGED faults \/ Fault) /\ (UNCHANGED lapsed \/ lapsed' = TRUE)
           Lapsing == UNCHANGED faults /\ lapsed' \in BOOLEAN /\ (lapsed => lapsed')
<1>0. lapsed \in BOOLEAN
  BY DEF ServerOK
<1>1. Start(w, FALSE) \/ Start(w, TRUE) => Kept
  BY DEF Start, Fine, PassedOver
<1>2. Select(w) \/ Check(w) => Kept
  BY DEF Select, Check, Fine, PassedOver
<1>3. Adopt(w) \/ Restate(w) => Kept
  BY DEF Adopt, Restate, Fine, PassedOver
<1>4. Disown(w) => Kept
  BY DEF Disown, Fine, PassedOver
<1>5. LookUp(w) => Kept
  <2>1. LookUp(w) => Fine \/ PassedOver
    BY Zenon DEF LookUp
  <2> QED BY <2>1 DEF Fine, PassedOver
<1>6. Write(w) => Kept
  <2>1. Write(w) => Fine \/ PassedOver
    BY Zenon DEF Write
  <2> QED BY <2>1 DEF Fine, PassedOver
<1>7. InvalidateHistory(w) \/ ConnectionLost(w) => Kept
  BY DEF InvalidateHistory, ConnectionLost, Fine, PassedOver
<1>8. Advance(w) \/ Confirm(w) => Kept
  BY DEF Advance, Confirm, Fine, PassedOver
<1>9. Fold(w) => Kept
  BY DEF Fold, Fine, PassedOver
<1>10. ScanCrashes(w) => Kept
  BY DEF ScanCrashes, Fine, PassedOver
<1>11. Clear(w) => Kept \/ Lapsing
  BY <1>0, Zenon DEF Clear, PassedOver
<1>12. Wipe(w) => Kept \/ Lapsing
  BY <1>0, Zenon DEF Wipe, PassedOver
<1>13. Fetch(w) => Kept \/ Lapsing
  BY <1>0, Zenon DEF Fetch, PassedOver
<1>14. Kept \/ Lapsing
  BY <1>1, <1>2, <1>3, <1>4, <1>5, <1>6, <1>7, <1>8, <1>9, <1>10, <1>11, <1>12, <1>13, Zenon DEF Scans, ScanStep
<1>15. faults' \in Nat
  BY <1>14 DEF ServerOK, Fault
<1>16. lapsed' \in BOOLEAN /\ (lapsed => lapsed')
  BY <1>0, <1>14, Zenon
<1> QED BY <1>15, <1>16

LEMMA StepTaken ==
    ASSUME WellFormed, [Next]_vars
    PROVE  \/ UNCHANGED vars
           \/ \E w \in Scanner : Scans(w)
           \/ ServerStep
           \/ Upgrade
           \/ BookStep /\ UNCHANGED <<cacheVars, scanVars>>
<1>1. ASSUME Dashboard PROVE BookStep /\ UNCHANGED <<cacheVars, scanVars>>
  <2>1. IsFiniteSet(Messages(Head(Folders)))
    <3>1. Head(Folders) \in Folder
      BY ScanAssumption, HeadTailProperties
    <3> QED BY <3>1, BoxOK DEF WellFormed
  <2>2. UNCHANGED <<cacheVars, scanVars>> /\ (ReconcileChunk \/ RefreshIndex(Messages(Head(Folders))))
    BY <1>1, Zenon DEF Dashboard
  <2>3. CASE ReconcileChunk
    BY <2>2, <2>3 DEF BookStep, Told
  <2>4. CASE RefreshIndex(Messages(Head(Folders)))
    <3>1. PICK ms : ms = Messages(Head(Folders))
      OBVIOUS
    <3>2. IsFiniteSet(ms) /\ RefreshIndex(ms)
      BY <2>1, <2>4, <3>1
    <3> QED BY <2>2, <3>2 DEF BookStep
  <2> QED BY <2>2, <2>3, <2>4
<1>2. ASSUME Others PROVE BookStep /\ UNCHANGED <<cacheVars, scanVars>>
  <2>1. UNCHANGED <<cacheVars, scanVars>> /\ (Sends \/ Edits)
    BY <1>2, Zenon DEF Others, Sends, Edits
  <2> QED BY <2>1 DEF BookStep
<1>3. CASE Next
  BY <1>1, <1>2, <1>3, Zenon DEF Next, ServerStep
<1> QED BY <1>3

LEMMA UpgradeParts ==
    ASSUME Upgrade
    PROVE  /\ Outdated /\ parser' = "new"
           /\ \A w \in Scanner : ~Busy(w)
           /\ UNCHANGED <<box, top, epoch, scan, faults, lapsed, cacheVars>>
BY Zenon DEF Upgrade, Outdated

LEMMA WellFormedKept ==
    ASSUME WellFormed, [Next]_vars
    PROVE  WellFormed'
<1> USE DEF WellFormed
<1>1. CASE UNCHANGED vars
  <2>1. UNCHANGED <<cacheVars, bookVars, scanVars>>
    BY <1>1 DEF vars
  <2>2. CacheOK' /\ ServerOK' /\ ScansOK'
    BY <2>1 DEF cacheVars, scanVars, CacheOK, ServerOK, ScansOK
  <2>3. BookOK'
    BY <2>1 DEF bookVars, BookOK
  <2> QED BY <2>2, <2>3
<1>2. ASSUME NEW w \in Scanner, Scans(w) PROVE WellFormed'
  <2>1. Told /\ UNCHANGED <<box, top, epoch, parser>>
    BY <1>2, ScansTell
  <2>2. CacheOK'
    BY <1>2, CacheKept
  <2>3. BookOK'
    BY <2>1, BookKept DEF BookStep
  <2>4. ScansOK'
    <3>1. CASE Moves(w)
      BY <3>1, MovesOK
    <3>2. CASE UNCHANGED scan
      BY <3>2 DEF ScansOK
    <3> QED BY <1>2, <3>1, <3>2, ScanMoves
  <2>5. ServerOK'
    BY <1>2, <2>1, ScanFlags DEF ServerOK
  <2> QED BY <2>2, <2>3, <2>4, <2>5
<1>3. CASE ServerStep
  <2>1. ServerOK' /\ UNCHANGED <<scan, cacheVars, bookVars>>
    BY <1>3, ServerKept
  <2>2. CacheOK' /\ ScansOK'
    BY <2>1 DEF cacheVars, CacheOK, ScansOK
  <2>3. BookOK'
    BY <2>1 DEF bookVars, BookOK
  <2> QED BY <2>1, <2>2, <2>3
<1>4. CASE Upgrade
  <2>1. /\ Outdated /\ parser' = "new"
        /\ UNCHANGED <<box, top, epoch, scan, faults, lapsed, cacheVars>>
    BY <1>4, UpgradeParts
  <2>2. CacheOK' /\ ScansOK' /\ ServerOK'
    BY <2>1 DEF cacheVars, CacheOK, ScansOK, ServerOK
  <2>3. BookOK'
    BY <2>1, BookKept DEF BookStep
  <2> QED BY <2>2, <2>3
<1>5. CASE BookStep /\ UNCHANGED <<cacheVars, scanVars>>
  <2>1. CacheOK' /\ ServerOK' /\ ScansOK'
    BY <1>5 DEF cacheVars, scanVars, CacheOK, ServerOK, ScansOK
  <2>2. BookOK'
    BY <1>5, BookKept
  <2> QED BY <2>1, <2>2
<1> QED BY <1>1, <1>2, <1>3, <1>4, <1>5, StepTaken

LEMMA WellFormedAtFirst == ASSUME Init PROVE WellFormed
<1>1. CacheOK
  BY FS_EmptySet DEF Init, CacheInit, CacheOK
<1>2. BookOK
  <2>1. <<>> \in Seq(Address)
    OBVIOUS
  <2> QED BY <2>1, FS_EmptySet DEF Init, BookInit, BookOK
<1>3. ServerOK
  <2>1. PICK s \in Settings : faults = s.faults
    BY DEF Init
  <2>2. faults \in Nat
    BY <2>1, SettingsAssumption
  <2>3. ASSUME NEW f \in Folder
        PROVE  Len(Initially[f]) \in Nat /\ DOMAIN Initially[f] = 1 .. Len(Initially[f])
               /\ Initially[f] \in [1 .. Len(Initially[f]) -> Message]
    <3>1. Initially[f] \in Seq(Message)
      BY InitiallyAssumption
    <3> QED BY <3>1, LenProperties
  <2>4. ASSUME NEW f \in Folder PROVE Initially[f] \in UNION {[T -> Message] : T \in SUBSET Nat}
    <3>1. 1 .. Len(Initially[f]) \in SUBSET Nat
      BY <2>3
    <3> QED BY <2>3, <3>1
  <2>5. Initially \in [Folder -> UNION {[T -> Message] : T \in SUBSET Nat}]
    BY <2>4, InitiallyAssumption, Zenon
  <2>6. box = Initially /\ top = [f \in Folder |-> Len(Initially[f])]
    BY DEF Init
  <2>7. top \in [Folder -> Nat] /\ \A f \in Folder : DOMAIN box[f] \subseteq 1 .. top[f]
    BY <2>3, <2>6
  <2>8. epoch \in [Folder -> Nat] /\ (\A f \in Folder : epoch[f] >= 1) /\ parser = "old" /\ lapsed = FALSE
    BY DEF Init
  <2> QED BY <2>2, <2>5, <2>6, <2>7, <2>8 DEF ServerOK
<1>4. ScansOK
  <2>1. Idle \in Scanning
    BY IdleOK DEF ScanOK
  <2> QED BY <2>1, IdleOK DEF Init, ScansOK
<1> QED BY <1>1, <1>2, <1>3, <1>4 DEF WellFormed

LEMMA BookTaken ==
    ASSUME WellFormed, [Next]_vars
    PROVE  BookStep \/ UNCHANGED bookVars
<1>1. UNCHANGED vars => UNCHANGED bookVars
  BY DEF vars
<1>2. ServerStep => UNCHANGED bookVars
  BY ServerKept DEF WellFormed
<1>3. \A w \in Scanner : Scans(w) => BookStep
  BY ScansTell DEF BookStep
<1>4. Upgrade => BookStep
  BY UpgradeParts DEF BookStep
<1> QED BY <1>1, <1>2, <1>3, <1>4, StepTaken

\* What a person added, edited or tagged stays, and stays a person's: the
\* history only removes and only makes rows of its own (merge_observation, the
\* sweep of reconcile_address_history, take_contact_ownership).
THEOREM CuratedKept == Spec => []CuratedStays
<1>1. Init => WellFormed /\ CuratedStays
  <2>1. Init => CuratedStays
    BY DEF Init, BookInit, CuratedStays
  <2> QED BY <2>1, WellFormedAtFirst
<1>2. WellFormed /\ CuratedStays /\ [Next]_vars => (WellFormed /\ CuratedStays)'
  <2> SUFFICES ASSUME WellFormed, CuratedStays, [Next]_vars PROVE CuratedStays'
    BY WellFormedKept
  <2>1. CASE UNCHANGED bookVars
    BY <2>1 DEF bookVars, CuratedStays
  <2>2. CASE BookStep
    BY <2>2, BookKept DEF WellFormed
  <2> QED BY <2>1, <2>2, BookTaken
<1> QED BY <1>1, <1>2, PTL DEF Spec

-----------------------------------------------------------------------------
(* A recipient is offered.                                                 *)

LEMMA WindowCounts ==
    ASSUME BookOK, NEW i \in Window
    PROVE  i \in DOMAIN sent /\ sent[i] \in Address /\ SentTo(sent[i]) > 0
<1>1. sent \in Seq(Address) /\ i \in DOMAIN sent /\ sent[i] \in Address /\ Len(sent) \in Nat
  BY ElementOfSeq, LenProperties DEF BookOK, Window
<1>2. PICK S : S = {k \in Window : sent[k] = sent[i]}
  OBVIOUS
<1>3. S \subseteq 1 .. Len(sent) /\ i \in S
  BY <1>1, <1>2, LenProperties DEF Window
<1>4. IsFiniteSet(S)
  <2>1. IsFiniteSet(1 .. Len(sent))
    BY <1>1, FS_Interval
  <2> QED BY <1>3, <2>1, FS_Subset
<1>5. Cardinality(S) \in Nat /\ Cardinality(S) # 0
  BY <1>3, <1>4, FS_CardinalityType, FS_EmptySet
<1> QED BY <1>1, <1>2, <1>5 DEF SentTo

\* An address with a signal keeps it through every step but a reconcile, unless
\* a person deletes it.
LEMMA OfferedKept ==
    ASSUME CacheOK, BookOK, NEW b \in Address, Offered(b)
    PROVE  /\ \A i : RecordRecipients(i) => Offered(b)'
           /\ \A a \in Address : AddContact(a) => Offered(b)'
           /\ \A a \in Address : DeleteContact(a) => Offered(b)' \/ a = b
           /\ TakeOwnership => Offered(b)'
           /\ contacts'[b] = contacts[b] => Offered(b)'
<1>1. PICK c \in Contact : c = contacts[b]
  BY NobodyIsNone DEF Offered, BookOK
<1>2. c.history > 0 \/ c.sent > 0
  BY <1>1, SignalPositive DEF Offered
<1>3. c.history \in Nat /\ c.sent \in Nat
  BY DEF Contact
<1>4. contacts'[b] = contacts[b] => Offered(b)'
  BY DEF Offered, Signal, Max
<1>5. ASSUME NEW d \in Contact, contacts'[b] = d, d.history = c.history, d.sent >= c.sent
      PROVE  Offered(b)'
  <2>1. d.history > 0 \/ d.sent > 0
    BY <1>2, <1>3, <1>5 DEF Contact
  <2>2. Signal(d) > 0 /\ d # Nobody
    BY <2>1, SignalPositive, NobodyIsNone
  <2> QED BY <1>5, <2>2 DEF Offered
<1>6. ASSUME NEW i, RecordRecipients(i) PROVE Offered(b)'
  <2>1. PICK a \in Address : a = sent[i]
    BY <1>6, Recorded
  <2>2. PICK m \in Contact \cup {Nobody} :
            /\ contacts' = [contacts EXCEPT ![a] = m]
            /\ contacts[a] # Nobody => m # Nobody /\ m.history = contacts[a].history /\ m.sent >= contacts[a].sent
    BY <1>6, <2>1, Recorded
  <2>3. CASE a = b
    <3>1. m \in Contact /\ m.history = c.history /\ m.sent >= c.sent /\ contacts'[b] = m
      BY <1>1, <2>2, <2>3, NobodyIsNone DEF BookOK
    <3> QED BY <1>5, <3>1
  <2>4. CASE a # b
    BY <1>4, <2>2, <2>4 DEF BookOK
  <2> QED BY <2>3, <2>4
<1>7. PICK d : d = [c EXCEPT !.derived = FALSE]
  OBVIOUS
<1>8. d \in Contact /\ d.history = c.history /\ d.sent >= c.sent
  <2>1. d \in Contact
    BY <1>7 DEF Contact
  <2>2. d.history = c.history /\ d.sent = c.sent
    BY <1>7 DEF Contact
  <2> QED BY <1>3, <2>1, <2>2
<1>9. c # Nobody
  BY NobodyIsNone
<1>10. ASSUME NEW a \in Address, AddContact(a) PROVE Offered(b)'
  <2>1. CASE a = b
    <3>1. contacts'[b] = d
      BY <1>1, <1>7, <1>9, <1>10, <2>1 DEF AddContact, BookOK
    <3> QED BY <1>5, <1>8, <3>1
  <2>2. CASE a # b
    BY <1>4, <1>10, <2>2 DEF AddContact, BookOK
  <2> QED BY <2>1, <2>2
<1>11. ASSUME NEW a \in Address, DeleteContact(a) PROVE Offered(b)' \/ a = b
  BY <1>4, <1>11 DEF DeleteContact, BookOK
<1>12. ASSUME TakeOwnership PROVE Offered(b)'
  <2>1. \/ contacts' = [contacts EXCEPT ![tagging.addr].derived = FALSE]
        \/ UNCHANGED contacts
    BY <1>12, Zenon DEF TakeOwnership
  <2>2. contacts'[b] = contacts[b] \/ contacts'[b] = d
    BY <1>1, <1>7, <2>1 DEF BookOK
  <2> QED BY <1>4, <1>5, <1>8, <2>2
<1> QED BY <1>4, <1>6, <1>10, <1>11, <1>12

Recalled == \A i \in known \cap Window : Offered(sent[i])

LEMMA SuggestibleKept ==
    ASSUME CacheOK, BookOK, BookStep \/ UNCHANGED bookVars, ~rebuilding => Recalled, ~rebuilding'
    PROVE  Recalled'
<1>1. \A i \in Window : i \in DOMAIN sent /\ sent[i] \in Address /\ SentTo(sent[i]) > 0
  BY WindowCounts
<1>2. CASE ReconcileChunk
  <2>1. UNCHANGED sent /\ known' = (IF Pending THEN known ELSE DOMAIN sent)
        /\ (~Pending \/ (~Rebuilds /\ ~rebuilding))
    BY <1>2, Zenon DEF ReconcileChunk
  <2>2. Window' = Window
    BY <2>1 DEF Window
  <2>3. ASSUME NEW i \in Window, i \in known' PROVE Offered(sent[i])'
    <3>1. PICK a \in Address : a = sent[i] /\ SentTo(a) > 0
      BY <1>1
    <3>2. Offered(a)'
      <4>1. CASE ~Pending
        BY <1>2, <3>1, <4>1, ChunkFolds
      <4>2. CASE Pending
        BY <1>2, <2>1, <2>3, <3>1, <4>2, ChunkFolds DEF Recalled
      <4> QED BY <4>1, <4>2
    <3> QED BY <2>1, <3>1, <3>2 DEF Offered
  <2> QED BY <2>1, <2>2, <2>3 DEF Recalled
<1>3. ASSUME UNCHANGED <<contacts, sent, known, rebuilding>> PROVE Recalled'
  BY <1>3 DEF Recalled, Window, Offered, Signal
<1>4. CASE UNCHANGED bookVars \/ Invalidate \/ NotInvalidated \/ Outdated \/ \E ms : RefreshIndex(ms)
  <2>1. UNCHANGED <<contacts, sent, known, rebuilding>>
    BY <1>4 DEF bookVars, Invalidate, NotInvalidated, Outdated, RefreshIndex
  <2> QED BY <1>3, <2>1
<1>5. CASE Sends
  <2>1. ASSUME NEW a \in Address, MarkSent(a) PROVE Recalled'
    <3>1. sent \in Seq(Address) /\ sent' = Append(sent, a) /\ UNCHANGED <<contacts, known, rebuilding>>
          /\ known \subseteq DOMAIN sent
      BY <2>1 DEF MarkSent, BookOK
    <3>2. Len(sent') = Len(sent) + 1 /\ Len(sent) \in Nat /\ DOMAIN sent = 1 .. Len(sent)
          /\ \A i \in DOMAIN sent : sent'[i] = sent[i]
      BY <3>1, AppendProperties, LenProperties
    <3>3. SentWindow \in Nat
      BY BookAssumption
    <3>4. \A i \in known' \cap Window' : i \in known \cap Window /\ sent'[i] = sent[i]
      BY <3>1, <3>2, <3>3 DEF Window
    <3>5. ASSUME NEW i \in known' \cap Window' PROVE Offered(sent[i])'
      <4>1. PICK b \in Address : b = sent[i] /\ b = sent'[i] /\ Offered(b)
        BY <1>1, <3>1, <3>4 DEF Recalled
      <4>2. Offered(b)'
        BY <3>1, <4>1, OfferedKept
      <4> QED BY <4>1, <4>2 DEF Offered
    <3> QED BY <3>5 DEF Recalled
  <2>2. ASSUME NEW k \in recording, RecordRecipients(k) PROVE Recalled'
    <3>1. PICK a \in Address : a = sent[k] /\ SentTo(a) \in Nat
      BY <2>2, Recorded
    <3>2. PICK m \in Contact \cup {Nobody} :
              contacts' = [contacts EXCEPT ![a] = m] /\ (SentTo(a) > 0 => m # Nobody /\ m.sent > 0)
      BY <2>2, <3>1, Recorded
    <3>3. known' = known \cup {k} /\ UNCHANGED <<sent, rebuilding>>
      BY <2>2, Zenon DEF RecordRecipients
    <3>4. Window' = Window
      BY <3>3 DEF Window
    <3>5. ASSUME NEW i \in known' \cap Window' PROVE Offered(sent[i])'
      <4>1. PICK b \in Address : b = sent[i] /\ SentTo(b) > 0
        BY <1>1, <3>4
      <4>2. CASE b = a
        <5>1. contacts'[b] = m /\ m \in Contact /\ m.sent > 0 /\ m # Nobody
          BY <3>1, <3>2, <4>1, <4>2, NobodyIsNone DEF BookOK
        <5>2. Signal(m) > 0
          BY <5>1, SignalPositive
        <5> QED BY <3>3, <4>1, <5>1, <5>2 DEF Offered
      <4>3. CASE b # a
        <5>1. Offered(b)
          BY <3>1, <3>3, <3>4, <4>1, <4>3 DEF Recalled
        <5>2. Offered(b)'
          BY <2>2, <5>1, OfferedKept
        <5> QED BY <3>3, <4>1, <5>2 DEF Offered
      <4> QED BY <4>2, <4>3
    <3> QED BY <3>5 DEF Recalled
  <2>3. ASSUME NEW k \in recording, RecordingLost(k) PROVE Recalled'
    BY <1>3, <2>3 DEF RecordingLost
  <2> QED BY <1>5, <2>1, <2>2, <2>3 DEF Sends
<1>6. CASE Edits
  <2>1. UNCHANGED <<sent, rebuilding>> /\ known' \subseteq known
    BY <1>6, Zenon DEF Edits, AddContact, DeleteContact, TagRead, TakeOwnership
  <2>2. Window' = Window
    BY <2>1 DEF Window
  <2>3. ASSUME NEW i \in known' \cap Window' PROVE Offered(sent[i])'
    <3>1. PICK b \in Address : b = sent[i] /\ Offered(b)
      BY <1>1, <2>1, <2>2 DEF Recalled
    <3>2. Offered(b)'
      <4>1. ASSUME NEW a \in Address, AddContact(a) PROVE Offered(b)'
        BY <3>1, <4>1, OfferedKept
      <4>2. ASSUME NEW a \in Address, DeleteContact(a) PROVE Offered(b)'
        <5>1. a # b
          BY <2>3, <3>1, <4>2 DEF DeleteContact
        <5> QED BY <3>1, <4>2, <5>1, OfferedKept
      <4>3. ASSUME NEW a \in Address, TagRead(a) PROVE Offered(b)'
        BY <3>1, <4>3, OfferedKept DEF TagRead
      <4>4. CASE TakeOwnership
        BY <3>1, <4>4, OfferedKept
      <4> QED BY <1>6, <4>1, <4>2, <4>3, <4>4 DEF Edits
    <3> QED BY <2>1, <3>1, <3>2 DEF Offered
  <2> QED BY <2>3 DEF Recalled
<1> QED BY <1>2, <1>4, <1>5, <1>6 DEF BookStep, Told

\* Who was written to is offered: from the recording of the send or the next
\* reconcile on, a draft of the window the history knows of has a contact with a
\* signal (record_sent_draft_recipients, record_sent_drafts), outside a rebuild.
THEOREM SentStaysSuggestible == Spec => []SentIsSuggestible
<1> DEFINE Suggested == ~rebuilding => Recalled
<1>1. Init => WellFormed /\ Suggested
  <2>1. Init => Suggested
    BY DEF Init, BookInit, Recalled
  <2> QED BY <2>1, WellFormedAtFirst
<1>2. WellFormed /\ Suggested /\ [Next]_vars => (WellFormed /\ Suggested)'
  <2> SUFFICES ASSUME WellFormed, Suggested, [Next]_vars, ~rebuilding' PROVE Recalled'
    BY WellFormedKept
  <2> QED BY BookTaken, SuggestibleKept DEF WellFormed
<1>3. WellFormed /\ Suggested => SentIsSuggestible
  BY DEF Recalled, Offered, SentIsSuggestible
<1> QED BY <1>1, <1>2, <1>3, PTL DEF Spec

-----------------------------------------------------------------------------
(* Every row is counted once.                                              *)

\* A row that a scan has looked up is still the message's, and, unless the scan
\* found it stale, still names the addresses the scan is about to write.
StaleInv ==
    \A x \in Scanner : scan[x].at = "write" /\ scan[x].row # 0 =>
        /\ scan[x].row <= lastId
        /\ \A r \in cached : r.id = scan[x].row =>
               r.msg = First(x).msg /\ (~scan[x].stale => r.who = Who(First(x).msg))

MarkOK == hist # Nobody => hist.mark <= lastId

\* The history speaks of the cache as it is, as far as the book knows.
Ready == ~owed /\ hist # Nobody /\ ~hist.dirty
Telling(w) == scan[w].at \in {"disown", "invalidate"}
InBounds ==
    \A a \in Address : /\ a \notin forgotten => HistoryOf(a) >= CountedWith(a)
                       /\ HistoryOf(a) <= CountedWith(a) + ElsewhereWith(a)

LEMMA CountsMeans == CountsAreTrue <=> (Ready /\ (\A w \in Scanner : ~Telling(w)) => InBounds)
<1>1. InBounds <=> \A a \in Address :
          LET h == IF contacts[a] = Nobody THEN 0 ELSE contacts[a].history
          IN  /\ a \notin forgotten => h >= CountedWith(a)
              /\ h <= CountedWith(a) + ElsewhereWith(a)
  BY Zenon DEF InBounds, HistoryOf
<1> QED BY <1>1, Zenon DEF CountsAreTrue, Ready, Telling

\* The snapshot and the window are among what the history may count elsewhere.
LEMMA ElsewhereCounts ==
    ASSUME BookOK, NEW a \in Address
    PROVE  /\ IsFiniteSet({m \in indexed : a \in Parsed["new"][m]})
           /\ IsFiniteSet({i \in DOMAIN sent : sent[i] = a})
           /\ ElsewhereWith(a) \in Nat /\ InSnapshot(a) + SentTo(a) <= ElsewhereWith(a)
<1> DEFINE I == {m \in indexed : a \in Parsed["new"][m]}
           J == {m \in index : a \in Parsed["new"][m]}
           S == {i \in DOMAIN sent : sent[i] = a}
           W == {i \in Window : sent[i] = a}
<1>1. I \subseteq indexed /\ IsFiniteSet(indexed) /\ J \subseteq I
  BY DEF BookOK
<1>2. S \subseteq DOMAIN sent /\ W \subseteq S /\ IsFiniteSet(DOMAIN sent)
  <2>1. DOMAIN sent = 1 .. Len(sent) /\ Len(sent) \in Nat
    BY LenProperties DEF BookOK
  <2> QED BY <2>1, FS_Interval DEF Window
<1> HIDE DEF I, J, S, W
<1>3. IsFiniteSet(I) /\ IsFiniteSet(S)
  BY <1>1, <1>2, FS_Subset
<1>4. IsFiniteSet(J) /\ IsFiniteSet(W) /\ Cardinality(J) <= Cardinality(I) /\ Cardinality(W) <= Cardinality(S)
  BY <1>1, <1>2, <1>3, FS_Subset
<1>5. Cardinality(I) \in Nat /\ Cardinality(S) \in Nat /\ Cardinality(J) \in Nat /\ Cardinality(W) \in Nat
  BY <1>3, <1>4, FS_CardinalityType
<1>6. ElsewhereWith(a) = Cardinality(I) + Cardinality(S) /\ InSnapshot(a) = Cardinality(J) /\ SentTo(a) = Cardinality(W)
  BY DEF ElsewhereWith, InSnapshot, SentTo, I, J, S, W
<1>7. ElsewhereWith(a) \in Nat /\ InSnapshot(a) + SentTo(a) <= ElsewhereWith(a)
  BY <1>4, <1>5, <1>6
<1> QED BY <1>3, <1>7 DEF I, S

RowsUpto(n, a) == {r \in cached : r.id <= n /\ a \in r.who}

LEMMA RowsUptoOK ==
    ASSUME CacheOK, NEW n, NEW a
    PROVE  IsFiniteSet(RowsUpto(n, a)) /\ Cardinality(RowsUpto(n, a)) \in Nat
<1>1. RowsUpto(n, a) \subseteq cached
  BY DEF RowsUpto
<1> QED BY <1>1, FS_Subset, FS_CardinalityType DEF CacheOK

\* A chunk counts the rows between two marks, and no other.
LEMMA ChunkCounts ==
    ASSUME CacheOK, BookOK, NEW a \in Address, NEW n, n = Max({r.id : r \in Batch} \cup {Watermark})
    PROVE  Cardinality(RowsUpto(n, a)) = Cardinality(RowsUpto(Watermark, a)) + Observed(a).delta
<1> DEFINE U == RowsUpto(n, a)
           V == RowsUpto(Watermark, a)
           D == {r \in Batch : a \in r.who}
<1>1. /\ n \in Nat /\ n >= Watermark /\ Watermark \in Nat /\ Batch \subseteq cached
      /\ \A r \in cached : r.id \in Nat /\ (r \in Batch <=> r.id > Watermark /\ r.id <= n)
  BY MarkOfBatch, BatchOK DEF CacheOK
<1>2. U = V \cup D /\ V \cap D = {}
  <2>1. \A r \in cached : (r.id <= n <=> r.id <= Watermark \/ r \in Batch)
                           /\ ~(r.id <= Watermark /\ r \in Batch)
    BY <1>1
  <2> QED BY <1>1, <2>1, Zenon DEF RowsUpto
<1>3. IsFiniteSet(D) /\ IsFiniteSet(V) /\ Cardinality(V) \in Nat
  <2>1. D \subseteq Batch
    OBVIOUS
  <2> QED BY <2>1, BatchOK, RowsUptoOK, FS_Subset
<1>4. Observed(a).delta = Cardinality(D)
  BY DEF Observed
<1> HIDE DEF U, V, D
<1>5. Cardinality(U) = Cardinality(V) + Cardinality(D) - Cardinality({})
  BY <1>2, <1>3, FS_Union
<1>6. Cardinality(D) \in Nat /\ Cardinality({}) = 0
  BY <1>3, FS_CardinalityType, FS_EmptySet
<1>7. Cardinality(U) = Cardinality(V) + Cardinality(D)
  BY <1>3, <1>5, <1>6
<1> QED BY <1>4, <1>7 DEF U, V

LEMMA ReconcileCounts ==
    ASSUME CacheOK, BookOK, UNCHANGED cached, ReconcileChunk, Ready => InBounds, Ready'
    PROVE  InBounds'
<1>1. PICK n : n = Max({r.id : r \in Batch} \cup {Watermark})
  OBVIOUS
<1>2. /\ hist' = [mark |-> n, dirty |-> FALSE] /\ UNCHANGED <<sent, indexed>>
      /\ owed' = (owed /\ ~Rebuilds) /\ forgotten' = (IF Rebuilds THEN {} ELSE forgotten)
  BY <1>1, Zenon DEF ReconcileChunk
<1>3. ASSUME NEW a \in Address
      PROVE  /\ a \notin forgotten' => HistoryOf(a)' >= CountedWith(a)'
             /\ HistoryOf(a)' <= CountedWith(a)' + ElsewhereWith(a)'
  <2>1. /\ Counted(a) \in Nat /\ HistoryOf(a)' \in Nat
        /\ HistoryOf(a)' >= Counted(a) + Observed(a).delta
        /\ \/ HistoryOf(a)' = Counted(a) + Observed(a).delta
           \/ HistoryOf(a)' <= Observed(a).recount
    BY ChunkFolds
  <2>2. CountedWith(a)' = Cardinality(RowsUpto(Watermark, a)) + Observed(a).delta
    <3>1. CountedWith(a)' = Cardinality(RowsUpto(n, a))
      BY <1>2 DEF CountedWith, RowsUpto
    <3> QED BY <1>1, <3>1, ChunkCounts
  <2>3. Cardinality(RowsUpto(Watermark, a)) \in Nat
    BY RowsUptoOK
  <2>4. ElsewhereWith(a)' = ElsewhereWith(a)
    BY <1>2 DEF ElsewhereWith
  <2>5. Observed(a) \in Observation /\ SentTo(a) \in Nat /\ InSnapshot(a) \in Nat
    BY BatchOK
  <2>6. ElsewhereWith(a) \in Nat /\ Observed(a).delta \in Nat /\ Observed(a).recount <= ElsewhereWith(a)
        /\ Observed(a).recount \in Nat
    <3>1. ElsewhereWith(a) \in Nat /\ InSnapshot(a) + SentTo(a) <= ElsewhereWith(a)
      BY ElsewhereCounts
    <3>2. Observed(a).recount = IF Pending THEN 0 ELSE InSnapshot(a) + SentTo(a)
      BY DEF Observed
    <3>3. Observed(a).delta \in Nat
      BY <2>5 DEF Observation
    <3> QED BY <2>5, <3>1, <3>2, <3>3
  <2>7. CASE Rebuilds
    <3>1. Counted(a) = 0
      BY <2>7 DEF Counted
    <3>2. RowsUpto(Watermark, a) = {}
      BY <2>7 DEF RowsUpto, Watermark, CacheOK
    <3>3. Cardinality(RowsUpto(Watermark, a)) = 0
      BY <3>2, FS_EmptySet
    <3> QED BY <2>1, <2>2, <2>4, <2>6, <3>1, <3>3
  <2>8. CASE ~Rebuilds
    <3>1. Ready
      BY <1>2, <2>8 DEF Ready, Rebuilds, BookOK
    <3>2. Counted(a) = HistoryOf(a) /\ Watermark = hist.mark
      BY <2>8 DEF Counted, HistoryOf, Watermark
    <3>3. CountedWith(a) = Cardinality(RowsUpto(Watermark, a))
      BY <3>2 DEF CountedWith, RowsUpto
    <3>4. /\ a \notin forgotten => Counted(a) >= Cardinality(RowsUpto(Watermark, a))
          /\ Counted(a) <= Cardinality(RowsUpto(Watermark, a)) + ElsewhereWith(a)
      BY <3>1, <3>2, <3>3 DEF InBounds
    <3> QED BY <1>2, <2>1, <2>2, <2>3, <2>4, <2>6, <2>8, <3>4
  <2> QED BY <2>7, <2>8
<1> QED BY <1>3 DEF InBounds

LEMMA ElsewhereGrows ==
    ASSUME BookOK, NEW a \in Address, IsFiniteSet(indexed'), sent' \in Seq(Address),
           indexed \subseteq indexed', \A i \in DOMAIN sent : i \in DOMAIN sent' /\ sent'[i] = sent[i]
    PROVE  ElsewhereWith(a)' \in Nat /\ ElsewhereWith(a) \in Nat /\ ElsewhereWith(a) <= ElsewhereWith(a)'
<1> DEFINE I == {m \in indexed : a \in Parsed["new"][m]}
           J == {m \in indexed' : a \in Parsed["new"][m]}
           S == {i \in DOMAIN sent : sent[i] = a}
           W == {i \in DOMAIN sent' : sent'[i] = a}
<1>1. J \subseteq indexed' /\ I \subseteq J
  OBVIOUS
<1>2. S \subseteq W /\ W \subseteq DOMAIN sent' /\ IsFiniteSet(DOMAIN sent')
  <2>1. DOMAIN sent' = 1 .. Len(sent') /\ Len(sent') \in Nat
    BY LenProperties
  <2>2. IsFiniteSet(DOMAIN sent')
    BY <2>1, FS_Interval
  <2> QED BY <2>2
<1> HIDE DEF I, J, S, W
<1>3. IsFiniteSet(J) /\ IsFiniteSet(W)
  BY <1>1, <1>2, FS_Subset
<1>4. IsFiniteSet(I) /\ IsFiniteSet(S) /\ Cardinality(I) <= Cardinality(J) /\ Cardinality(S) <= Cardinality(W)
  BY <1>1, <1>2, <1>3, FS_Subset
<1>5. Cardinality(I) \in Nat /\ Cardinality(S) \in Nat /\ Cardinality(J) \in Nat /\ Cardinality(W) \in Nat
  BY <1>3, <1>4, FS_CardinalityType
<1>6. ElsewhereWith(a) = Cardinality(I) + Cardinality(S) /\ ElsewhereWith(a)' = Cardinality(J) + Cardinality(W)
  BY DEF ElsewhereWith, I, J, S, W
<1> QED BY <1>4, <1>5, <1>6

LEMMA HistoryNat ==
    ASSUME BookOK, NEW a \in Address
    PROVE  HistoryOf(a) \in Nat
BY DEF BookOK, HistoryOf, Contact

\* No step of the book but a reconcile changes a history, but to forget it.
LEMMA BookCounts ==
    ASSUME CacheOK, BookOK, UNCHANGED cached, BookStep \/ UNCHANGED bookVars,
           Ready => InBounds, Ready'
    PROVE  InBounds'
<1>1. ASSUME UNCHANGED <<hist, owed>>, forgotten \subseteq forgotten',
             IsFiniteSet(indexed'), sent' \in Seq(Address), indexed \subseteq indexed',
             \A i \in DOMAIN sent : i \in DOMAIN sent' /\ sent'[i] = sent[i],
             \A a \in Address : HistoryOf(a)' = HistoryOf(a) \/ (HistoryOf(a)' = 0 /\ a \in forgotten')
      PROVE  InBounds'
  <2>1. Ready
    BY <1>1 DEF Ready
  <2>2. ASSUME NEW a \in Address
        PROVE  /\ a \notin forgotten' => HistoryOf(a)' >= CountedWith(a)'
               /\ HistoryOf(a)' <= CountedWith(a)' + ElsewhereWith(a)'
    <3>1. CountedWith(a)' = CountedWith(a)
      BY <1>1 DEF CountedWith
    <3>2. CountedWith(a) \in Nat
      BY RowsUptoOK DEF CountedWith, RowsUpto
    <3>3. ElsewhereWith(a)' \in Nat /\ ElsewhereWith(a) \in Nat /\ ElsewhereWith(a) <= ElsewhereWith(a)'
      BY <1>1, ElsewhereGrows
    <3>4. HistoryOf(a) \in Nat
      BY HistoryNat
    <3>5. /\ a \notin forgotten => HistoryOf(a) >= CountedWith(a)
          /\ HistoryOf(a) <= CountedWith(a) + ElsewhereWith(a)
      BY <2>1 DEF InBounds
    <3>6. HistoryOf(a)' = HistoryOf(a) \/ (HistoryOf(a)' = 0 /\ a \in forgotten')
      BY <1>1
    <3>7. a \notin forgotten' => a \notin forgotten
      BY <1>1
    <3> QED BY <3>1, <3>2, <3>3, <3>4, <3>5, <3>6, <3>7
  <2> QED BY <2>2 DEF InBounds
<1>2. sent \in Seq(Address) /\ IsFiniteSet(indexed)
  BY DEF BookOK
<1>3. ASSUME UNCHANGED <<hist, owed, sent, indexed>>, forgotten \subseteq forgotten',
             \A a \in Address : HistoryOf(a)' = HistoryOf(a) \/ (HistoryOf(a)' = 0 /\ a \in forgotten')
      PROVE  InBounds'
  BY <1>1, <1>2, <1>3
<1>4. ASSUME UNCHANGED contacts
      PROVE  \A a \in Address : HistoryOf(a)' = HistoryOf(a)
  BY <1>4 DEF HistoryOf
<1>5. CASE UNCHANGED bookVars
  <2>1. UNCHANGED <<hist, owed, sent, indexed, forgotten, contacts>>
    BY <1>5 DEF bookVars
  <2> QED BY <1>3, <1>4, <2>1
<1>6. CASE ReconcileChunk
  BY <1>6, ReconcileCounts
<1>7. ~Invalidate /\ ~NotInvalidated
  <2>1. ASSUME Invalidate PROVE FALSE
    <3>1. CASE hist = Nobody
      BY <2>1, <3>1 DEF Invalidate, Ready
    <3>2. CASE hist # Nobody
      <4>1. PICK h \in History : h = hist
        BY <3>2 DEF BookOK
      <4>2. hist' = [h EXCEPT !.dirty = TRUE]
        BY <2>1, <3>2, <4>1 DEF Invalidate
      <4>3. [h EXCEPT !.dirty = TRUE].dirty = TRUE
        BY DEF History
      <4> QED BY <4>2, <4>3 DEF Ready
    <3> QED BY <3>1, <3>2
  <2>2. ASSUME NotInvalidated PROVE FALSE
    BY <2>2 DEF NotInvalidated, Ready
  <2> QED BY <2>1, <2>2
<1>8. CASE Outdated
  <2>1. UNCHANGED <<hist, owed, sent, indexed, forgotten, contacts>>
    BY <1>8 DEF Outdated, Ready
  <2> QED BY <1>3, <1>4, <2>1
<1>9. ASSUME NEW ms, IsFiniteSet(ms), RefreshIndex(ms) PROVE InBounds'
  <2>1. UNCHANGED <<hist, owed, sent, forgotten, contacts>> /\ indexed' = indexed \cup ms
    BY <1>9 DEF RefreshIndex
  <2>2. IsFiniteSet(indexed')
    BY <1>2, <1>9, <2>1, FS_Union
  <2> QED BY <1>1, <1>2, <1>4, <2>1, <2>2
<1>10. CASE Sends
  <2>1. ASSUME NEW a \in Address, MarkSent(a) PROVE InBounds'
    <3>1. sent' = Append(sent, a) /\ UNCHANGED <<hist, owed, forgotten, contacts, indexed>>
      BY <2>1 DEF MarkSent
    <3>2. /\ sent' \in Seq(Address) /\ \A i \in DOMAIN sent : i \in DOMAIN sent' /\ sent'[i] = sent[i]
      <4>1. sent' \in Seq(Address) /\ Len(sent') = Len(sent) + 1 /\ Len(sent) \in Nat
            /\ DOMAIN sent = 1 .. Len(sent) /\ DOMAIN sent' = 1 .. Len(sent')
            /\ \A i \in 1 .. Len(sent) : sent'[i] = sent[i]
        BY <1>2, <3>1, AppendProperties, LenProperties
      <4> QED BY <4>1
    <3> QED BY <1>1, <1>2, <1>4, <3>1, <3>2
  <2>2. ASSUME NEW i \in recording, RecordRecipients(i) PROVE InBounds'
    <3>1. PICK a \in Address : a = sent[i]
      BY <2>2, Recorded
    <3>2. PICK m \in Contact \cup {Nobody} :
              /\ contacts' = [contacts EXCEPT ![a] = m]
              /\ contacts[a] # Nobody => m # Nobody /\ m.history = contacts[a].history
              /\ contacts[a] = Nobody /\ m # Nobody => m.history = 0
      BY <2>2, <3>1, Recorded
    <3>3. \A b \in Address : HistoryOf(b)' = HistoryOf(b)
      BY <3>2 DEF HistoryOf, BookOK
    <3>4. UNCHANGED <<hist, owed, sent, indexed, forgotten>>
      BY <2>2, Zenon DEF RecordRecipients
    <3> QED BY <1>3, <3>3, <3>4
  <2>3. ASSUME NEW i \in recording, RecordingLost(i) PROVE InBounds'
    <3>1. UNCHANGED <<hist, owed, sent, indexed, forgotten, contacts>>
      BY <2>3 DEF RecordingLost
    <3> QED BY <1>3, <1>4, <3>1
  <2> QED BY <1>10, <2>1, <2>2, <2>3 DEF Sends
<1>11. CASE Edits
  <2>1. ASSUME NEW a \in Address, AddContact(a) PROVE InBounds'
    <3>1. PICK c \in Contact \cup {Nobody} : c = contacts[a]
      BY DEF BookOK
    <3>2. PICK m : m = IF c = Nobody THEN [history |-> 0, sent |-> 0, derived |-> FALSE]
                                     ELSE [c EXCEPT !.derived = FALSE]
      OBVIOUS
    <3>3. m \in Contact /\ m.history = IF c = Nobody THEN 0 ELSE c.history
      BY <3>1, <3>2 DEF Contact
    <3>4. m # Nobody
      BY <3>3, NobodyIsNone
    <3>5. contacts' = [contacts EXCEPT ![a] = m] /\ UNCHANGED <<hist, owed, sent, indexed, forgotten>>
      BY <2>1, <3>1, <3>2 DEF AddContact
    <3>6. \A b \in Address : HistoryOf(b)' = HistoryOf(b)
      BY <3>1, <3>3, <3>4, <3>5 DEF HistoryOf, BookOK
    <3> QED BY <1>3, <3>5, <3>6
  <2>2. ASSUME NEW a \in Address, DeleteContact(a) PROVE InBounds'
    <3>1. contacts' = [contacts EXCEPT ![a] = Nobody] /\ UNCHANGED <<hist, owed, sent, indexed>>
          /\ forgotten' = forgotten \cup {a}
      BY <2>2 DEF DeleteContact
    <3>2. \A b \in Address : HistoryOf(b)' = HistoryOf(b) \/ (HistoryOf(b)' = 0 /\ b \in forgotten')
      BY <3>1 DEF HistoryOf, BookOK
    <3> QED BY <1>3, <3>1, <3>2
  <2>3. ASSUME NEW a \in Address, TagRead(a) PROVE InBounds'
    <3>1. UNCHANGED <<hist, owed, sent, indexed, forgotten, contacts>>
      BY <2>3 DEF TagRead
    <3> QED BY <1>3, <1>4, <3>1
  <2>4. CASE TakeOwnership
    <3>1. UNCHANGED <<hist, owed, sent, indexed, forgotten>>
      BY <2>4, Zenon DEF TakeOwnership
    <3>2. CASE UNCHANGED contacts
      BY <1>3, <1>4, <3>1, <3>2
    <3>3. CASE tagging.there /\ contacts' = [contacts EXCEPT ![tagging.addr].derived = FALSE]
      <4>1. PICK x \in Tagging : x = tagging
        BY <2>4, Zenon DEF TakeOwnership, BookOK
      <4>2. PICK a \in Address : a = x.addr
        BY DEF Tagging
      <4>3. PICK c \in Contact : c = contacts[a]
        BY <3>3, <4>1, <4>2, NobodyIsNone DEF BookOK
      <4>4. PICK m : m = [c EXCEPT !.derived = FALSE]
        OBVIOUS
      <4>5. m \in Contact /\ m.history = c.history
        BY <4>4 DEF Contact
      <4>6. m # Nobody /\ c # Nobody
        BY <4>5, NobodyIsNone
      <4>7. contacts' = [contacts EXCEPT ![a] = m]
        BY <3>3, <4>1, <4>2, <4>3, <4>4 DEF BookOK
      <4>8. \A b \in Address : HistoryOf(b)' = HistoryOf(b)
        BY <4>3, <4>5, <4>6, <4>7 DEF HistoryOf, BookOK
      <4> QED BY <1>3, <3>1, <4>8
    <3>4. UNCHANGED contacts \/ (tagging.there /\ contacts' = [contacts EXCEPT ![tagging.addr].derived = FALSE])
      BY <2>4, Zenon DEF TakeOwnership
    <3> QED BY <3>2, <3>3, <3>4
  <2> QED BY <1>11, <2>1, <2>2, <2>3, <2>4 DEF Edits
<1> QED BY <1>5, <1>6, <1>7, <1>8, <1>9, <1>10, <1>11 DEF BookStep, Told

LEMMA RewriteCounts ==
    ASSUME CacheOK, NEW i, NEW u \in Nat, NEW s \in SUBSET Address, NEW n, NEW a,
           RewriteRow(i, u, s), UNCHANGED sync, \A r \in cached : r.id = i => r.who = s
    PROVE  Cardinality({r \in cached' : r.id <= n /\ a \in r.who}) = Cardinality(RowsUpto(n, a))
<1> DEFINE S == RowsUpto(n, a)
           T == {r \in cached' : r.id <= n /\ a \in r.who}
<1>1. /\ \A r \in cached : /\ Rewritten(r, i, u, s) \in cached'
                           /\ Rewritten(r, i, u, s).id = r.id
                           /\ Rewritten(r, i, u, s).who = r.who
      /\ \A q \in cached' : \E r \in cached : q = Rewritten(r, i, u, s)
  BY RewriteOK
<1>2. PICK g : g = [r \in S |-> Rewritten(r, i, u, s)]
  OBVIOUS
<1>3. \A r \in S : g[r] \in T /\ g[r].id = r.id /\ r \in cached
  BY <1>1, <1>2 DEF RowsUpto
<1>4. \A q \in T : \E r \in S : g[r] = q
  BY <1>1, <1>2 DEF RowsUpto
<1>5. \A r, q \in S : g[r] = g[q] => r = q
  BY <1>3 DEF CacheOK
<1> HIDE DEF S, T
<1>6. g \in Bijection(S, T)
  BY <1>2, <1>3, <1>4, <1>5 DEF Bijection, Injection, Surjection, IsInjective
<1>7. IsFiniteSet(S)
  BY RowsUptoOK DEF S
<1>8. Cardinality(T) = Cardinality(S)
  BY <1>6, <1>7, FS_Bijection DEF ExistsBijection
<1> QED BY <1>8 DEF S, T

LEMMA CountsMeansNext == CountsAreTrue' <=> (Ready /\ (\A w \in Scanner : ~Telling(w)) => InBounds)'
BY CountsMeans, PTL

\* A scan that changes a counted row is about to say so.
LEMMA ScanCounts ==
    ASSUME WellFormed, StaleInv, MarkOK, CountsAreTrue, NEW w \in Scanner, Scans(w)
    PROVE  CountsAreTrue'
<1> USE DEF WellFormed
<1> SUFFICES ASSUME Ready', \A v \in Scanner : ~Telling(v)' PROVE InBounds'
  BY CountsMeansNext, Zenon
<1>1. Told /\ UNCHANGED <<box, top, epoch, parser>>
  BY ScansTell
<1>2. ~Telling(w)
  <2>1. ASSUME Invalidate \/ NotInvalidated PROVE FALSE
    <3>1. CASE NotInvalidated
      BY <3>1 DEF NotInvalidated, Ready
    <3>2. CASE Invalidate /\ hist = Nobody
      BY <3>2 DEF Invalidate, Ready
    <3>3. CASE Invalidate /\ hist # Nobody
      <4>1. PICK h \in History : h = hist
        BY <3>3 DEF BookOK
      <4>2. hist' = [h EXCEPT !.dirty = TRUE] /\ [h EXCEPT !.dirty = TRUE].dirty = TRUE
        BY <3>3, <4>1 DEF Invalidate, History
      <4> QED BY <4>2 DEF Ready
    <3> QED BY <2>1, <3>1, <3>2, <3>3
  <2>2. scan[w].at = "disown" => Disown(w) \/ ScanCrashes(w)
    BY Zenon DEF Scans, ScanStep, Start, Busy, Clear, Select, Check, Adopt, Wipe, Restate, Fetch,
       LookUp, Write, InvalidateHistory, ConnectionLost, Advance, Confirm, Fold
  <2>3. scan[w].at = "invalidate" => InvalidateHistory(w) \/ ScanCrashes(w)
    BY Zenon DEF Scans, ScanStep, Start, Busy, Clear, Select, Check, Adopt, Wipe, Restate, Fetch,
       LookUp, Write, Disown, ConnectionLost, Advance, Confirm, Fold
  <2>4. Telling(w) => Invalidate \/ NotInvalidated
    BY <2>2, <2>3 DEF Telling, Disown, InvalidateHistory, ScanCrashes
  <2> QED BY <2>1, <2>4
<1>3. \A v \in Scanner : ~Telling(v)
  BY <1>2, ScanMoves, MovesOK DEF Telling
<1>4. Ready => InBounds
  BY <1>3, CountsMeans
<1>5. CASE UNCHANGED cached
  BY <1>1, <1>4, <1>5, BookCounts DEF BookStep
<1>6. ASSUME UNCHANGED bookVars,
             \A a \in Address : Cardinality({r \in cached' : r.id <= hist.mark /\ a \in r.who})
                                    = Cardinality(RowsUpto(hist.mark, a))
      PROVE  InBounds'
  <2>1. Ready /\ UNCHANGED <<hist, contacts, sent, indexed, forgotten>>
    BY <1>6 DEF bookVars, Ready
  <2>2. ASSUME NEW a \in Address
        PROVE  /\ a \notin forgotten' => HistoryOf(a)' >= CountedWith(a)'
               /\ HistoryOf(a)' <= CountedWith(a)' + ElsewhereWith(a)'
    <3>1. CountedWith(a)' = CountedWith(a)
      BY <1>6, <2>1 DEF CountedWith, RowsUpto
    <3>2. HistoryOf(a)' = HistoryOf(a) /\ ElsewhereWith(a)' = ElsewhereWith(a)
      BY <2>1 DEF HistoryOf, ElsewhereWith
    <3>3. a \notin forgotten => HistoryOf(a) >= CountedWith(a)
      BY <1>4, <2>1 DEF InBounds
    <3>4. HistoryOf(a) <= CountedWith(a) + ElsewhereWith(a)
      BY <1>4, <2>1 DEF InBounds
    <3> QED BY <2>1, <3>1, <3>2, <3>3, <3>4
  <2> QED BY <2>2 DEF InBounds
<1>7. CASE Write(w)
  <2>1. PICK f \in Folder, u \in Nat, m \in Message, s \in SUBSET Address :
            f = F(w) /\ u = First(w).uid /\ m = First(w).msg /\ s = Who(First(w).msg)
    BY <1>7, WriteCases
  <2>2. UNCHANGED bookVars /\ UNCHANGED sync /\ scan[w].at = "write"
    BY <1>7, WriteCases
  <2>3. CASE InsertRow(f, u, m, s)
    <3>1. PICK x : x = [id |-> lastId + 1, folder |-> f, uid |-> u, msg |-> m, who |-> s]
      OBVIOUS
    <3>2. cached' = cached \cup {x} /\ x.id = lastId + 1
      BY <2>3, <3>1, Zenon DEF InsertRow
    <3>3. hist.mark \in Nat /\ hist.mark <= lastId /\ lastId \in Nat
      BY <2>2 DEF bookVars, MarkOK, Ready, BookOK, History, CacheOK
    <3>4. \A a \in Address : {r \in cached' : r.id <= hist.mark /\ a \in r.who} = RowsUpto(hist.mark, a)
      BY <3>2, <3>3 DEF RowsUpto
    <3> QED BY <1>6, <2>2, <3>4
  <2>4. CASE scan[w].row # 0 /\ RewriteRow(scan[w].row, u, s) /\ Written(w, IF scan[w].stale THEN "invalidate" ELSE "next")
    <3>1. ~scan[w].stale
      <4>1. ASSUME scan[w].stale PROVE Telling(w)'
        <5>1. Now(w, [scan[w] EXCEPT !.at = "invalidate", !.queue = Rest(w)]) /\ scan[w] \in Scanning
          BY <2>4, <4>1 DEF Written, ScansOK
        <5>2. PICK j : j = [scan[w] EXCEPT !.at = "invalidate", !.queue = Rest(w)]
          OBVIOUS
        <5>3. j.at = "invalidate"
          BY <5>1, <5>2 DEF Scanning
        <5>4. scan'[w] = j
          BY <5>1, <5>2 DEF Now, ScansOK
        <5> QED BY <5>3, <5>4 DEF Telling
      <4> QED BY <4>1
    <3>2. \A r \in cached : r.id = scan[w].row => r.who = s
      BY <2>1, <2>2, <2>4, <3>1 DEF StaleInv
    <3>3. \A a \in Address : Cardinality({r \in cached' : r.id <= hist.mark /\ a \in r.who})
                                 = Cardinality(RowsUpto(hist.mark, a))
      BY <2>2, <2>4, <3>2, RewriteCounts
    <3> QED BY <1>6, <2>2, <3>3
  <2> QED BY <1>5, <1>7, <2>1, <2>3, <2>4, WriteCases
<1>8. CASE Wipe(w)
  <2>1. CASE DeleteRows(F(w)) /\ Goto(w, IF RowsIn(F(w)) = {} THEN "restate" ELSE "disown")
    <3>1. RowsIn(F(w)) = {}
      <4>1. ASSUME RowsIn(F(w)) # {} PROVE Telling(w)'
        <5>1. Now(w, [scan[w] EXCEPT !.at = "disown"]) /\ scan[w] \in Scanning
          BY <2>1, <4>1 DEF Goto, ScansOK
        <5>2. PICK j : j = [scan[w] EXCEPT !.at = "disown"]
          OBVIOUS
        <5>3. j.at = "disown"
          BY <5>1, <5>2 DEF Scanning
        <5>4. scan'[w] = j
          BY <5>1, <5>2 DEF Now, ScansOK
        <5> QED BY <5>3, <5>4 DEF Telling
      <4> QED BY <4>1
    <3>2. UNCHANGED cached
      BY <2>1, <3>1 DEF DeleteRows
    <3> QED BY <1>5, <3>2
  <2>2. UNCHANGED cached \/ (DeleteRows(F(w)) /\ Goto(w, IF RowsIn(F(w)) = {} THEN "restate" ELSE "disown"))
    BY <1>8, Zenon DEF Wipe
  <2> QED BY <1>5, <2>1, <2>2
<1>9. Write(w) \/ Wipe(w) \/ UNCHANGED cached
  BY Zenon DEF Scans, ScanStep, Start, Clear, Select, Check, Adopt, Restate, Disown, Fetch,
     LookUp, InvalidateHistory, ConnectionLost, Advance, Confirm, Fold, ScanCrashes, cacheVars
<1> QED BY <1>5, <1>7, <1>8, <1>9

\* What the record of a scan is after each kind of step.
LEMMA GotoAfter ==
    ASSUME ScansOK, NEW w \in Scanner, NEW a, Goto(w, a)
    PROVE  /\ scan'[w].at = a
           /\ scan'[w].todo = scan[w].todo /\ scan'[w].epoch = scan[w].epoch
           /\ scan'[w].queue = scan[w].queue /\ scan'[w].seen = scan[w].seen
           /\ scan'[w].row = scan[w].row /\ scan'[w].stale = scan[w].stale
           /\ \A v \in Scanner \ {w} : scan'[v] = scan[v]
<1>1. PICK i \in Scanning : i = scan[w]
  BY DEF ScansOK
<1>2. PICK j : j = [i EXCEPT !.at = a]
  OBVIOUS
<1>3. scan'[w] = j /\ \A v \in Scanner \ {w} : scan'[v] = scan[v]
  BY <1>1, <1>2 DEF Goto, Now, ScansOK
<1>4. /\ j.at = a /\ j.todo = i.todo /\ j.epoch = i.epoch /\ j.queue = i.queue /\ j.seen = i.seen
      /\ j.row = i.row /\ j.stale = i.stale
  BY <1>2 DEF Scanning
<1> QED BY <1>1, <1>3, <1>4

Left(w, a, Q) == Now(w, [scan[w] EXCEPT !.at = a, !.queue = Q])

LEMMA WrittenAfter ==
    ASSUME ScansOK, NEW w \in Scanner, NEW a, NEW Q, Left(w, a, Q)
    PROVE  /\ scan'[w].at = a /\ scan'[w].queue = Q
           /\ scan'[w].todo = scan[w].todo /\ scan'[w].epoch = scan[w].epoch
           /\ scan'[w].seen = scan[w].seen
           /\ \A v \in Scanner \ {w} : scan'[v] = scan[v]
<1>1. PICK i \in Scanning : i = scan[w]
  BY DEF ScansOK
<1>2. PICK j : j = [i EXCEPT !.at = a, !.queue = Q]
  OBVIOUS
<1>3. scan'[w] = j /\ \A v \in Scanner \ {w} : scan'[v] = scan[v]
  BY <1>1, <1>2 DEF Left, Now, ScansOK
<1>4. j.at = a /\ j.queue = Q /\ j.todo = i.todo /\ j.epoch = i.epoch /\ j.seen = i.seen
  BY <1>2 DEF Scanning
<1> QED BY <1>1, <1>3, <1>4

LEMMA LostAfter ==
    ASSUME ScansOK, NEW w \in Scanner, ConnectionLost(w)
    PROVE  scan[w].at = "next" /\ Left(w, "next", {})
<1>1. scan[w].at = "next" /\ Now(w, [scan[w] EXCEPT !.queue = {}]) /\ scan[w] \in Scanning
  BY DEF ConnectionLost, ScansOK
<1>2. [scan[w] EXCEPT !.queue = {}] = [scan[w] EXCEPT !.at = "next", !.queue = {}]
  BY <1>1 DEF Scanning
<1> QED BY <1>1, <1>2, Zenon DEF Left

LEMMA FoundAfter ==
    ASSUME ScansOK, NEW w \in Scanner, NEW i, NEW b, Found(w, i, b)
    PROVE  /\ scan'[w].at = "write" /\ scan'[w].row = i /\ scan'[w].stale = b
           /\ scan'[w].seen = First(w).uid
           /\ scan'[w].todo = scan[w].todo /\ scan'[w].epoch = scan[w].epoch
           /\ scan'[w].queue = scan[w].queue
           /\ \A v \in Scanner \ {w} : scan'[v] = scan[v]
<1>1. PICK k \in Scanning : k = scan[w]
  BY DEF ScansOK
<1>2. PICK x : x = First(w).uid
  OBVIOUS
<1>3. PICK j : j = [k EXCEPT !.at = "write", !.row = i, !.stale = b, !.seen = x]
  OBVIOUS
<1>4. scan'[w] = j /\ \A v \in Scanner \ {w} : scan'[v] = scan[v]
  BY <1>1, <1>2, <1>3 DEF Found, Now, ScansOK
<1>5. /\ j.at = "write" /\ j.row = i /\ j.stale = b /\ j.seen = x
      /\ j.todo = k.todo /\ j.epoch = k.epoch /\ j.queue = k.queue
  BY <1>3 DEF Scanning
<1> QED BY <1>1, <1>2, <1>4, <1>5

LEMMA SkippedAfter ==
    ASSUME ScansOK, NEW w \in Scanner, Skipped(w)
    PROVE  /\ scan'[w].at = scan[w].at
           /\ scan'[w].todo = scan[w].todo /\ scan'[w].epoch = scan[w].epoch
<1>1. PICK k \in Scanning : k = scan[w]
  BY DEF ScansOK
<1>2. PICK x, Q : x = First(w).uid /\ Q = Rest(w)
  OBVIOUS
<1>3. PICK j : j = [k EXCEPT !.queue = Q, !.seen = x]
  OBVIOUS
<1>4. scan'[w] = j
  BY <1>1, <1>2, <1>3 DEF Skipped, Now, ScansOK
<1>5. j.at = k.at /\ j.todo = k.todo /\ j.epoch = k.epoch
  BY <1>3 DEF Scanning
<1> QED BY <1>1, <1>4, <1>5

LEMMA IdleAfter ==
    ASSUME ScansOK, NEW w \in Scanner, Now(w, Idle)
    PROVE  scan'[w].at = "idle"
<1>1. scan'[w] = Idle
  BY DEF Now, ScansOK
<1> QED BY <1>1 DEF Idle

LEMMA StartAfter ==
    ASSUME ScansOK, NEW w \in Scanner, NEW b \in BOOLEAN, Start(w, b)
    PROVE  scan'[w].at \in {"clear", "select"}
<1>1. PICK a \in {"clear", "select"} : a = IF b THEN "clear" ELSE "select"
  OBVIOUS
<1>2. PICK j : j = [Idle EXCEPT !.at = a, !.todo = Folders]
  OBVIOUS
<1>3. scan'[w] = j
  BY <1>1, <1>2 DEF Start, Now, ScansOK
<1>4. j.at = a
  BY <1>2 DEF Idle
<1> QED BY <1>3, <1>4

LEMMA CheckAfter ==
    ASSUME ScansOK, NEW w \in Scanner, scan[w].at \in Early, DOMAIN box[F(w)] # {}, Select(w)
    PROVE  /\ scan'[w].at = "check" /\ scan'[w].epoch = epoch[F(w)]
           /\ scan'[w].todo = scan[w].todo /\ scan'[w].queue = scan[w].queue
           /\ scan'[w].seen = scan[w].seen
           /\ \A v \in Scanner \ {w} : scan'[v] = scan[v]
<1>1. PICK i \in Scanning : i = scan[w]
  BY DEF ScansOK
<1>2. PICK e : e = epoch[F(w)]
  OBVIOUS
<1>3. PICK j : j = [i EXCEPT !.at = "check", !.epoch = e]
  OBVIOUS
<1>4. scan'[w] = j /\ \A v \in Scanner \ {w} : scan'[v] = scan[v]
  BY <1>1, <1>2, <1>3 DEF Select, Now, ScansOK
<1>5. j.at = "check" /\ j.epoch = e /\ j.todo = i.todo /\ j.queue = i.queue /\ j.seen = i.seen
  BY <1>3 DEF Scanning
<1> QED BY <1>1, <1>2, <1>4, <1>5

\* A scan comes to write a message by looking it up, and in no other way.
LEMMA WriteEntered ==
    ASSUME WellFormed, NEW w \in Scanner, Scans(w), scan'[w].at = "write"
    PROVE  LookUp(w) \/ (Fold(w) /\ UNCHANGED scan)
<1> USE DEF WellFormed
<1>1. ~Start(w, FALSE) /\ ~Start(w, TRUE)
  BY StartAfter
<1>2. ~Clear(w) /\ ~Adopt(w) /\ ~Disown(w) /\ ~Restate(w) /\ ~InvalidateHistory(w)
  BY GotoAfter DEF Clear, Adopt, Disown, Restate, InvalidateHistory
<1>3. ~Select(w)
  <2>1. Select(w) => scan[w].at \in Early
    BY DEF Select, Early
  <2>2. DOMAIN box[F(w)] = {} => ~Select(w)
    BY <2>1, NextFolderMoves DEF Select
  <2> QED BY <2>1, <2>2, CheckAfter
<1>4. ~Check(w)
  <2>1. Check(w) => \E a \in {"adopt", "fetch", "wipe"} : Goto(w, a)
    BY Zenon DEF Check
  <2> QED BY <2>1, GotoAfter
<1>5. ~Wipe(w)
  <2>1. Wipe(w) => \E a \in {"restate", "disown", "fetch"} : Goto(w, a)
    BY Zenon DEF Wipe
  <2> QED BY <2>1, GotoAfter
<1>6. ~Fetch(w)
  <2>1. Fetch(w) => Now(w, Idle) \/ Left(w, "next", Listing(F(w)))
    BY Zenon DEF Fetch, Left
  <2> QED BY <2>1, IdleAfter, WrittenAfter
<1>7. ~Write(w)
  <2>1. Write(w) => Left(w, "next", Rest(w)) \/ Left(w, "invalidate", Rest(w))
    BY Zenon DEF Write, Written, Left
  <2> QED BY <2>1, WrittenAfter
<1>8. ~ConnectionLost(w)
  BY LostAfter, WrittenAfter
<1>9. ~Advance(w) /\ ~Confirm(w)
  BY GotoAfter, NextFolderMoves DEF Advance, Confirm, Late
<1>10. ~ScanCrashes(w) /\ (Fold(w) => UNCHANGED scan)
  BY IdleAfter DEF ScanCrashes, Fold
<1> QED BY <1>1, <1>2, <1>3, <1>4, <1>5, <1>6, <1>7, <1>8, <1>9, <1>10 DEF Scans, ScanStep

LEMMA LastIdGrows ==
    ASSUME CacheOK, NEW w \in Scanner, Scans(w)
    PROVE  lastId' \in Nat /\ lastId <= lastId'
<1>1. lastId' = lastId \/ lastId' = lastId + 1
  <2>1. Write(w) => lastId' = lastId \/ lastId' = lastId + 1
    BY Zenon DEF Write, InsertRow, RewriteRow
  <2>2. Wipe(w) => lastId' = lastId
    BY Zenon DEF Wipe, DeleteRows
  <2>3. Write(w) \/ Wipe(w) \/ lastId' = lastId
    BY Zenon DEF Scans, ScanStep, Start, Clear, Select, Check, Adopt, Restate, Disown, Fetch,
       LookUp, InvalidateHistory, ConnectionLost, Advance, Confirm, Fold, ScanCrashes, cacheVars
  <2> QED BY <2>1, <2>2, <2>3
<1> QED BY <1>1 DEF CacheOK

LEMMA MarkKept ==
    ASSUME CacheOK, BookOK, MarkOK, BookStep \/ UNCHANGED bookVars, lastId' \in Nat, lastId <= lastId'
    PROVE  MarkOK'
<1>1. ASSUME UNCHANGED hist PROVE MarkOK'
  <2>1. hist # Nobody => hist.mark \in Nat
    BY DEF BookOK, History
  <2> QED BY <1>1, <2>1 DEF MarkOK, CacheOK
<1>2. CASE ReconcileChunk
  <2>1. PICK n : n = Max({r.id : r \in Batch} \cup {Watermark})
    OBVIOUS
  <2>2. hist' = [mark |-> n, dirty |-> FALSE]
    BY <1>2, <2>1, Zenon DEF ReconcileChunk
  <2>3. n \in Nat /\ (n = Watermark \/ n <= lastId)
    BY <2>1, MarkOfBatch
  <2>4. Watermark <= lastId
    BY DEF Watermark, Rebuilds, MarkOK, CacheOK
  <2> QED BY <2>2, <2>3, <2>4 DEF MarkOK, CacheOK
<1>3. CASE Invalidate
  <2>1. CASE hist = Nobody
    BY <1>3, <2>1 DEF Invalidate, MarkOK
  <2>2. CASE hist # Nobody
    <3>1. PICK h \in History : h = hist
      BY <2>2 DEF BookOK
    <3>2. hist' = [h EXCEPT !.dirty = TRUE] /\ [h EXCEPT !.dirty = TRUE].mark = h.mark
      BY <1>3, <2>2, <3>1 DEF Invalidate, History
    <3>3. h.mark \in Nat /\ h.mark <= lastId
      BY <2>2, <3>1 DEF MarkOK, History
    <3> QED BY <3>2, <3>3 DEF MarkOK, CacheOK
  <2> QED BY <2>1, <2>2
<1>4. CASE Outdated
  BY <1>1, <1>4 DEF Outdated, MarkOK
<1>5. UNCHANGED bookVars \/ NotInvalidated \/ Sends \/ Edits \/ (\E ms : RefreshIndex(ms)) => UNCHANGED hist
  <2>1. Sends \/ Edits => UNCHANGED hist
    BY Zenon DEF Sends, MarkSent, RecordRecipients, RecordingLost, Edits, AddContact, DeleteContact,
       TagRead, TakeOwnership
  <2> QED BY <2>1 DEF bookVars, NotInvalidated, RefreshIndex
<1> QED BY <1>1, <1>2, <1>3, <1>4, <1>5 DEF BookStep, Told

\* The rows after a scan's step, next to those before.
LEMMA StaleKept ==
    ASSUME WellFormed, StaleInv, NEW w \in Scanner, Scans(w)
    PROVE  StaleInv'
<1> USE DEF WellFormed
<1>1. UNCHANGED parser /\ lastId' \in Nat /\ lastId <= lastId' /\ lastId \in Nat
  BY ScansTell, LastIdGrows DEF CacheOK
<1>2. ASSUME NEW x \in Scanner, scan[x].at = "write", scan[x].row # 0, NEW q \in cached', q.id = scan[x].row
      PROVE  q.msg = First(x).msg /\ (~scan[x].stale => q.who = Who(First(x).msg))
  <2>1. /\ scan[x].row <= lastId /\ scan[x].row \in Nat
        /\ \A r \in cached : r.id = scan[x].row =>
               r.msg = First(x).msg /\ (~scan[x].stale => r.who = Who(First(x).msg))
    BY <1>2 DEF StaleInv, ScansOK, Scanning
  <2>2. CASE cached' \subseteq cached
    BY <1>2, <2>1, <2>2
  <2>3. CASE Write(w)
    <3>1. PICK f \in Folder, u \in Nat, m \in Message, s \in SUBSET Address :
              f = F(w) /\ u = First(w).uid /\ m = First(w).msg /\ s = Who(First(w).msg)
      BY <2>3, WriteCases
    <3>2. CASE InsertRow(f, u, m, s)
      <4>1. PICK y : y = [id |-> lastId + 1, folder |-> f, uid |-> u, msg |-> m, who |-> s]
        OBVIOUS
      <4>2. cached' = cached \cup {y} /\ y.id = lastId + 1
        BY <3>2, <4>1, Zenon DEF InsertRow
      <4> QED BY <1>1, <1>2, <2>1, <4>2
    <3>3. CASE scan[w].row # 0 /\ RewriteRow(scan[w].row, u, s)
      <4>1. UNCHANGED sync /\ scan[w].at = "write"
        BY <2>3, WriteCases
      <4>2. PICK r \in cached : /\ q = Rewritten(r, scan[w].row, u, s)
                                /\ q.id = r.id /\ q.msg = r.msg
                                /\ q.who = IF r.id = scan[w].row THEN s ELSE r.who
        BY <1>2, <3>3, <4>1, RewriteOK
      <4>3. r.id = scan[w].row => r.msg = m
        BY <3>1, <3>3, <4>1 DEF StaleInv
      <4> QED BY <1>2, <2>1, <3>1, <4>2, <4>3
    <3> QED BY <2>2, <2>3, <3>1, <3>2, <3>3, WriteCases
  <2>4. CASE Wipe(w)
    <3>1. DeleteRows(F(w)) \/ UNCHANGED cached
      BY <2>4, Zenon DEF Wipe
    <3> QED BY <2>2, <3>1 DEF DeleteRows
  <2>5. Write(w) \/ Wipe(w) \/ UNCHANGED cached
    BY Zenon DEF Scans, ScanStep, Start, Clear, Select, Check, Adopt, Restate, Disown, Fetch,
       LookUp, InvalidateHistory, ConnectionLost, Advance, Confirm, Fold, ScanCrashes, cacheVars
  <2> QED BY <2>2, <2>3, <2>4, <2>5
<1>3. ASSUME NEW x \in Scanner, scan'[x].at = "write", scan'[x].row # 0
      PROVE  /\ scan'[x].row <= lastId'
             /\ \A q \in cached' : q.id = scan'[x].row =>
                    q.msg = First(x)'.msg /\ (~scan'[x].stale => q.who = Who(First(x).msg)')
  <2>1. CASE scan'[x] = scan[x]
    <3>1. First(x)' = First(x)
      BY <2>1 DEF First
    <3>2. Who(First(x).msg)' = Who(First(x).msg)
      BY <1>1, <3>1 DEF Who
    <3>3. scan[x].row <= lastId /\ scan[x].row \in Nat
      BY <1>3, <2>1 DEF StaleInv, ScansOK, Scanning
    <3> QED BY <1>1, <1>2, <1>3, <2>1, <3>1, <3>2, <3>3
  <2>2. CASE scan'[x] # scan[x]
    <3>1. x = w
      BY <1>3, <2>2, ScanMoves, MovesOK
    <3>2. LookUp(w)
      BY <1>3, <2>2, <3>1, WriteEntered
    <3>3. UNCHANGED <<cached, lastId, parser>> /\ scan[w].queue # {}
      BY <3>2, Zenon DEF LookUp, cacheVars, ServerSame
    <3>4. CASE RowsFor(F(w), First(w).msg) = {} /\ Found(w, 0, FALSE)
      BY <1>3, <3>1, <3>4, FoundAfter
    <3>5. CASE Skipped(w)
      BY <1>3, <3>1, <3>2, <3>5, SkippedAfter DEF LookUp
    <3>6. CASE \E r \in RowsFor(F(w), First(w).msg) : Found(w, r.id, r.who # Who(First(w).msg))
      <4>1. PICK r \in RowsFor(F(w), First(w).msg) : Found(w, r.id, r.who # Who(First(w).msg))
        BY <3>6
      <4>2. PICK b : b = (r.who # Who(First(w).msg))
        OBVIOUS
      <4>3. scan'[w].row = r.id /\ scan'[w].stale = b /\ scan'[w].queue = scan[w].queue
        BY <4>1, <4>2, FoundAfter
      <4>4. First(w)' = First(w)
        BY <4>3 DEF First
      <4>5. Who(First(w).msg)' = Who(First(w).msg)
        BY <3>3, <4>4 DEF Who
      <4>6. r \in cached /\ r.msg = First(w).msg /\ r.id <= lastId
        BY DEF RowsFor, RowsIn, CacheOK
      <4>7. \A q \in cached : q.id = r.id => q = r
        BY <4>6 DEF CacheOK
      <4>8. ~scan'[w].stale => r.who = Who(First(w).msg)
        BY <4>2, <4>3
      <4> QED BY <3>1, <3>3, <4>3, <4>4, <4>5, <4>6, <4>7, <4>8
    <3> QED BY <3>2, <3>4, <3>5, <3>6, LookUpCases
  <2> QED BY <2>1, <2>2
<1> QED BY <1>3 DEF StaleInv

CountInv == WellFormed /\ StaleInv /\ MarkOK /\ CountsAreTrue

LEMMA CountsKept ==
    ASSUME CountInv, [Next]_vars
    PROVE  CountInv'
<1> USE DEF CountInv
<1>1. WellFormed'
  BY WellFormedKept
<1>2. ASSUME UNCHANGED cached, UNCHANGED lastId, UNCHANGED scan, BookStep \/ UNCHANGED bookVars,
             UNCHANGED parser \/ \A w \in Scanner : ~Busy(w)
      PROVE  CountInv'
  <2>1. StaleInv'
    <3>1. CASE UNCHANGED parser
      BY <1>2, <3>1 DEF StaleInv, First, Who
    <3>2. CASE \A w \in Scanner : ~Busy(w)
      BY <1>2, <3>2 DEF StaleInv, Busy
    <3> QED BY <1>2, <3>1, <3>2
  <2>2. lastId' \in Nat /\ lastId <= lastId'
    BY <1>2 DEF WellFormed, CacheOK
  <2>3. MarkOK'
    BY <1>2, <2>2, MarkKept DEF WellFormed
  <2>4. CountsAreTrue'
    <3> SUFFICES ASSUME Ready', \A v \in Scanner : ~Telling(v)' PROVE InBounds'
      BY CountsMeansNext, Zenon
    <3>1. \A v \in Scanner : ~Telling(v)
      BY <1>2 DEF Telling
    <3>2. Ready => InBounds
      BY <3>1, CountsMeans
    <3> QED BY <1>2, <3>2, BookCounts DEF WellFormed
  <2> QED BY <1>1, <2>1, <2>3, <2>4
<1>3. ASSUME NEW w \in Scanner, Scans(w) PROVE CountInv'
  <2>1. MarkOK'
    <3>1. BookStep
      BY <1>3, ScansTell DEF BookStep
    <3> QED BY <1>3, <3>1, LastIdGrows, MarkKept DEF WellFormed
  <2> QED BY <1>1, <1>3, <2>1, StaleKept, ScanCounts
<1>4. CASE UNCHANGED vars
  <2>1. UNCHANGED cached /\ UNCHANGED lastId /\ UNCHANGED scan /\ UNCHANGED bookVars /\ UNCHANGED parser
    BY <1>4 DEF vars, cacheVars, scanVars
  <2> QED BY <1>2, <2>1
<1>5. CASE ServerStep
  <2>1. UNCHANGED <<scan, parser, faults, lapsed, cacheVars, bookVars>>
    BY <1>5, ServerKept DEF WellFormed
  <2>2. UNCHANGED cached /\ UNCHANGED lastId /\ UNCHANGED scan /\ UNCHANGED bookVars /\ UNCHANGED parser
    BY <2>1 DEF cacheVars
  <2> QED BY <1>2, <2>2
<1>6. CASE Upgrade
  <2>1. Outdated /\ (\A w \in Scanner : ~Busy(w)) /\ UNCHANGED scan /\ UNCHANGED cacheVars
    BY <1>6, UpgradeParts
  <2>2. UNCHANGED cached /\ UNCHANGED lastId /\ BookStep
    BY <2>1 DEF cacheVars, BookStep
  <2> QED BY <1>2, <2>1, <2>2
<1>7. CASE BookStep /\ UNCHANGED <<cacheVars, scanVars>>
  <2>1. UNCHANGED cached /\ UNCHANGED lastId /\ UNCHANGED scan /\ UNCHANGED parser
    BY <1>7 DEF cacheVars, scanVars
  <2> QED BY <1>2, <1>7, <2>1
<1> QED BY <1>3, <1>4, <1>5, <1>6, <1>7, StepTaken

\* Every row of the cache is counted exactly once (reconcile_address_history and
\* its watermark): outside the moments a scan is about to invalidate the history,
\* an address counts at least the rows under the watermark that name it, and at
\* most those and what the drafts and the snapshots ever held.
THEOREM EveryRowCountedOnce == Spec => []CountsAreTrue
<1>1. Init => CountInv
  <2> SUFFICES ASSUME Init PROVE CountInv
    OBVIOUS
  <2>1. StaleInv
    BY DEF Init, StaleInv, Idle
  <2>2. MarkOK /\ CountsAreTrue
    BY CountsMeans DEF Init, BookInit, MarkOK, Ready
  <2> QED BY <2>1, <2>2, WellFormedAtFirst DEF CountInv
<1>2. CountInv /\ [Next]_vars => CountInv'
  BY CountsKept
<1>3. CountInv => CountsAreTrue
  BY DEF CountInv
<1> QED BY <1>1, <1>2, <1>3, PTL DEF Spec

-----------------------------------------------------------------------------
(* The UID the cache has reached.                                          *)

Away == {"idle", "clear", "select", "fold"}
Vetted == {"adopt", "disown", "restate", "fetch"} \cup Late
Reading == {"check", "wipe"} \cup Vetted
Trusting == {"adopt", "fetch"} \cup Late

\* A scan at work on a folder keeps the folder and the UIDVALIDITY it found.
Stays(w) ==
    /\ scan[w].at \in Reading /\ scan'[w].at \in Reading
    /\ scan'[w].todo = scan[w].todo /\ scan'[w].epoch = scan[w].epoch
Opens(w) ==
    /\ scan'[w].at = "check" /\ scan'[w].epoch = epoch[F(w)] /\ F(w) \in Folder
    /\ scan'[w].todo = scan[w].todo

LEMMA GotoStays ==
    ASSUME ScansOK, NEW w \in Scanner, NEW a \in Reading, Goto(w, a), scan[w].at \in Reading
    PROVE  Stays(w)
BY GotoAfter DEF Stays

LEMMA ScanChange ==
    ASSUME WellFormed, NEW w \in Scanner, Scans(w)
    PROVE  UNCHANGED scan \/ scan'[w].at \in Away \/ Opens(w) \/ Stays(w)
<1> USE DEF WellFormed
<1>1. Start(w, FALSE) \/ Start(w, TRUE) => scan'[w].at \in Away
  BY StartAfter DEF Away
<1>2. Clear(w) => scan'[w].at \in Away
  BY GotoAfter DEF Clear, Away
<1>3. Select(w) => scan'[w].at \in Away \/ Opens(w)
  <2>1. Select(w) => scan[w].at \in Early /\ F(w) \in Folder
    BY FolderAt DEF Select, Early
  <2>2. Select(w) /\ DOMAIN box[F(w)] = {} => scan'[w].at \in Away
    BY <2>1, NextFolderMoves DEF Select, Away
  <2> QED BY <2>1, <2>2, CheckAfter DEF Opens
<1>4. Check(w) => Stays(w)
  <2>1. Check(w) => scan[w].at = "check" /\ \E a \in {"adopt", "fetch", "wipe"} : Goto(w, a)
    BY Zenon DEF Check
  <2> QED BY <2>1, GotoStays DEF Reading, Vetted
<1>5. Adopt(w) => Stays(w)
  BY GotoStays DEF Adopt, Reading, Vetted
<1>6. Disown(w) => Stays(w)
  BY GotoStays DEF Disown, Reading, Vetted
<1>7. Restate(w) => Stays(w)
  BY GotoStays DEF Restate, Reading, Vetted
<1>8. InvalidateHistory(w) => Stays(w)
  BY GotoStays DEF InvalidateHistory, Reading, Vetted, Late
<1>9. Wipe(w) => Stays(w)
  <2>1. Wipe(w) => scan[w].at = "wipe" /\ \E a \in {"restate", "disown", "fetch"} : Goto(w, a)
    BY Zenon DEF Wipe
  <2> QED BY <2>1, GotoStays DEF Reading, Vetted
<1>10. Fetch(w) => scan'[w].at \in Away \/ Stays(w)
  <2>1. Fetch(w) => scan[w].at = "fetch" /\ (Now(w, Idle) \/ Left(w, "next", Listing(F(w))))
    BY Zenon DEF Fetch, Left
  <2> QED BY <2>1, IdleAfter, WrittenAfter DEF Stays, Reading, Vetted, Late, Away
<1>11. LookUp(w) => Stays(w)
  <2>1. LookUp(w) => scan[w].at = "next"
    BY DEF LookUp
  <2>2. \A i, b : Found(w, i, b) /\ scan[w].at = "next" => Stays(w)
    BY FoundAfter DEF Stays, Reading, Vetted, Late
  <2>3. Skipped(w) /\ scan[w].at = "next" => Stays(w)
    BY SkippedAfter DEF Stays, Reading, Vetted, Late
  <2> QED BY <2>1, <2>2, <2>3, LookUpCases
<1>12. Write(w) => Stays(w)
  <2>1. Write(w) => scan[w].at = "write" /\ (Left(w, "next", Rest(w)) \/ Left(w, "invalidate", Rest(w)))
    BY Zenon DEF Write, Written, Left
  <2> QED BY <2>1, WrittenAfter DEF Stays, Reading, Vetted, Late
<1>13. ConnectionLost(w) => Stays(w)
  BY LostAfter, WrittenAfter DEF Stays, Reading, Vetted, Late
<1>14. Advance(w) => scan'[w].at \in Away \/ Stays(w)
  <2>1. Advance(w) => scan[w].at = "next" /\ (NextFolder(w) \/ Goto(w, "confirm"))
    BY DEF Advance
  <2> QED BY <2>1, NextFolderMoves, GotoStays DEF Away, Reading, Vetted, Late
<1>15. Confirm(w) => scan'[w].at \in Away
  BY NextFolderMoves DEF Confirm, Away, Late
<1>16. Fold(w) => UNCHANGED scan \/ scan'[w].at \in Away
  BY IdleAfter DEF Fold, Away
<1>17. ScanCrashes(w) => scan'[w].at \in Away
  BY IdleAfter DEF ScanCrashes, Away
<1> QED BY <1>1, <1>2, <1>3, <1>4, <1>5, <1>6, <1>7, <1>8, <1>9, <1>10, <1>11, <1>12, <1>13,
           <1>14, <1>15, <1>16, <1>17 DEF Scans, ScanStep

LEMMA ScanOthers ==
    ASSUME WellFormed, NEW w \in Scanner, Scans(w)
    PROVE  \A v \in Scanner \ {w} : scan'[v] = scan[v] /\ F(v)' = F(v) /\ First(v)' = First(v)
<1>1. \A v \in Scanner \ {w} : scan'[v] = scan[v]
  BY ScanMoves, MovesOK DEF WellFormed
<1> QED BY <1>1 DEF F, First

\* The sync state is never ahead of the server, nor is a scan.
PastInv ==
    /\ \A f \in Folder : StoredEpoch(f) <= epoch[f]
    /\ \A x \in Scanner : scan[x].at \in Reading => scan[x].epoch >= 1 /\ scan[x].epoch <= epoch[F(x)]

LEMMA ReadingAt ==
    ASSUME ScansOK, NEW w \in Scanner, scan[w].at \in Reading
    PROVE  /\ scan[w] \in Scanning /\ scan[w].epoch \in Nat /\ scan[w].seen \in Nat /\ F(w) \in Folder
BY FolderAt DEF Reading, Vetted, Early, Late, Scanning

\* What a scan's step may do to the sync state.
LEMMA SyncChange ==
    ASSUME WellFormed, NEW w \in Scanner, Scans(w)
    PROVE  \/ UNCHANGED sync
           \/ Clear(w) /\ sync' = [f \in Folder |-> Nobody]
           \/ /\ scan[w].at \in Reading /\ UNCHANGED <<cached, lastId>>
              /\ \/ SetUidvalidity(F(w), scan[w].epoch)
                 \/ RestartSync(F(w), scan[w].epoch)
                 \/ SetLastSyncedUid(F(w), scan[w].seen)
<1>1. CASE Clear(w)
  BY <1>1 DEF Clear, ClearLastSyncedUid
<1>2. CASE Adopt(w)
  BY <1>2 DEF Adopt, Reading, Vetted
<1>3. CASE Restate(w)
  BY <1>3 DEF Restate, Reading, Vetted
<1>4. CASE Advance(w)
  BY <1>4 DEF Advance, Reading, Vetted, Late
<1>5. CASE Confirm(w)
  BY <1>5 DEF Confirm, Reading, Vetted, Late
<1>6. CASE Start(w, FALSE) \/ Start(w, TRUE) \/ Select(w) \/ Check(w) \/ Disown(w) \/ Fetch(w)
  BY <1>6 DEF Start, Select, Check, Disown, Fetch, cacheVars
<1>7. CASE LookUp(w) \/ Write(w) \/ Wipe(w)
  BY <1>7, Zenon DEF LookUp, Write, Wipe, cacheVars
<1>8. CASE InvalidateHistory(w) \/ ConnectionLost(w) \/ Fold(w) \/ ScanCrashes(w)
  BY <1>8 DEF InvalidateHistory, ConnectionLost, Fold, ScanCrashes, cacheVars
<1> QED BY <1>1, <1>2, <1>3, <1>4, <1>5, <1>6, <1>7, <1>8 DEF Scans, ScanStep

\* A row of the sync state is written for one folder.
LEMMA SyncDated ==
    ASSUME CacheOK, UNCHANGED <<cached, lastId>>, NEW f \in Folder, NEW e \in Nat, SetUidvalidity(f, e)
    PROVE  /\ StoredEpoch(f)' = e /\ LastUid(f)' = LastUid(f)
           /\ \A g \in Folder \ {f} : StoredEpoch(g)' = StoredEpoch(g) /\ LastUid(g)' = LastUid(g)
<1>1. PICK u \in Nat : u = LastUid(f)
  BY SyncReads
<1> QED BY <1>1, SyncWritten DEF SetUidvalidity

LEMMA SyncRestarted ==
    ASSUME CacheOK, UNCHANGED <<cached, lastId>>, NEW f \in Folder, NEW e \in Nat, RestartSync(f, e)
    PROVE  /\ StoredEpoch(f)' = e /\ LastUid(f)' = 0
           /\ \A g \in Folder \ {f} : StoredEpoch(g)' = StoredEpoch(g) /\ LastUid(g)' = LastUid(g)
BY SyncWritten DEF RestartSync

LEMMA SyncAdvanced ==
    ASSUME CacheOK, UNCHANGED <<cached, lastId>>, NEW f \in Folder, NEW u \in Nat, SetLastSyncedUid(f, u)
    PROVE  /\ StoredEpoch(f)' = StoredEpoch(f) /\ LastUid(f)' = u
           /\ \A g \in Folder \ {f} : StoredEpoch(g)' = StoredEpoch(g) /\ LastUid(g)' = LastUid(g)
<1>1. PICK e \in Nat : e = StoredEpoch(f)
  BY SyncReads
<1> QED BY <1>1, SyncWritten DEF SetLastSyncedUid

LEMMA SyncCleared ==
    ASSUME sync' = [f \in Folder |-> Nobody], NEW g \in Folder
    PROVE  StoredEpoch(g)' = 0 /\ LastUid(g)' = 0
BY DEF StoredEpoch, LastUid

LEMMA PastKept ==
    ASSUME WellFormed, PastInv, NEW w \in Scanner, Scans(w)
    PROVE  PastInv'
<1> USE DEF WellFormed
<1>1. UNCHANGED <<box, top, epoch>> /\ ScansOK'
  BY ScansTell, ScanMoves, MovesOK DEF ScansOK, ScanOK
<1>2. ASSUME NEW x \in Scanner, scan'[x].at \in Reading
      PROVE  scan'[x].epoch >= 1 /\ scan'[x].epoch <= epoch'[F(x)']
  <2>1. CASE scan'[x] = scan[x]
    BY <1>1, <1>2, <2>1 DEF PastInv, F
  <2>2. CASE x = w /\ Opens(w)
    BY <1>1, <2>2 DEF Opens, F, ServerOK
  <2>3. CASE x = w /\ Stays(w)
    BY <1>1, <2>3 DEF Stays, F, PastInv
  <2>4. Away \cap Reading = {}
    BY DEF Away, Reading, Vetted, Late
  <2> QED BY <1>2, <2>1, <2>2, <2>3, <2>4, ScanOthers, ScanChange
<1>3. ASSUME NEW f \in Folder PROVE StoredEpoch(f)' <= epoch'[f]
  <2>0. StoredEpoch(f) <= epoch[f] /\ epoch[f] \in Nat
    BY DEF PastInv, ServerOK
  <2>1. CASE UNCHANGED sync
    BY <1>1, <2>0, <2>1 DEF StoredEpoch
  <2>2. CASE sync' = [g \in Folder |-> Nobody]
    BY <1>1, <2>0, <2>2, SyncCleared
  <2>3. CASE /\ scan[w].at \in Reading /\ UNCHANGED <<cached, lastId>>
             /\ \/ SetUidvalidity(F(w), scan[w].epoch)
                \/ RestartSync(F(w), scan[w].epoch)
                \/ SetLastSyncedUid(F(w), scan[w].seen)
    <3>1. PICK g \in Folder, e \in Nat, u \in Nat : g = F(w) /\ e = scan[w].epoch /\ u = scan[w].seen
      BY <2>3, ReadingAt
    <3>2. e <= epoch[g]
      BY <2>3, <3>1 DEF PastInv
    <3>3. SetUidvalidity(g, e) \/ RestartSync(g, e) \/ SetLastSyncedUid(g, u)
      BY <2>3, <3>1
    <3>4. /\ StoredEpoch(g)' = e \/ StoredEpoch(g)' = StoredEpoch(g)
          /\ f # g => StoredEpoch(f)' = StoredEpoch(f)
      <4>1. UNCHANGED <<cached, lastId>>
        BY <2>3
      <4>2. CASE SetUidvalidity(g, e)
        BY <4>1, <4>2, SyncDated
      <4>3. CASE RestartSync(g, e)
        BY <4>1, <4>3, SyncRestarted
      <4>4. CASE SetLastSyncedUid(g, u)
        BY <4>1, <4>4, SyncAdvanced
      <4> QED BY <3>3, <4>2, <4>3, <4>4
    <3>6. CASE f = g
      <4>1. StoredEpoch(f)' = e \/ StoredEpoch(f)' = StoredEpoch(f)
        BY <3>4, <3>6
      <4> QED BY <1>1, <2>0, <3>2, <3>6, <4>1
    <3> QED BY <1>1, <2>0, <3>4, <3>6
  <2> QED BY <2>1, <2>2, <2>3, SyncChange
<1> QED BY <1>2, <1>3 DEF PastInv

Working == {"next", "write", "invalidate"}
At(x, f, S) == scan[x].at \in S /\ F(x) = f
Shown(f, m) == \E r \in cached : r.folder = f /\ r.msg = m
Holds(f) == LastUid(f) <= top[f] /\ \A u \in DOMAIN box[f] : u <= LastUid(f) => Shown(f, box[f][u])

\* Somebody says, or will say, that the cache has come as far as its UID.
Claimed(f) == \/ StoredEpoch(f) = epoch[f]
              \/ \E x \in Scanner : At(x, f, Trusting) /\ scan[x].epoch = epoch[f]

\* No other scan of the folder, and not the sync state, knows a later UIDVALIDITY.
Latest(x, f) ==
    /\ StoredEpoch(f) <= scan[x].epoch
    /\ \A y \in Scanner : At(y, f, Vetted) => scan[y].epoch <= scan[x].epoch

\* Every message has a row, or waits in the queue, or came after the fetch.
Tracks(x, f) ==
    /\ scan[x].seen <= top[f] /\ \A q \in scan[x].queue : q.uid <= top[f]
    /\ \A u \in DOMAIN box[f] :
           \/ Shown(f, box[f][u])
           \/ \E q \in scan[x].queue : q.uid = u /\ q.msg = box[f][u]
           \/ u > scan[x].seen /\ \A q \in scan[x].queue : u > q.uid

\* The row the scan is about to rewrite is there, and the message's.
RowThere(x, f) ==
    scan[x].row # 0 => \E r \in cached : r.id = scan[x].row /\ r.folder = f /\ r.msg = First(x).msg

LiveAt(f) ==
    /\ \A x \in Scanner : At(x, f, Late) => Latest(x, f)
    /\ \A x \in Scanner : At(x, f, {"fetch"} \cup Late) => StoredEpoch(f) >= 1
    /\ StoredEpoch(f) = 0 => LastUid(f) = 0
    /\ Claimed(f) => Holds(f)
    /\ \A x \in Scanner : At(x, f, Working) /\ scan[x].epoch = epoch[f] => Tracks(x, f)
    /\ \A x \in Scanner : At(x, f, {"write"}) => RowThere(x, f)

RowsKept(f) ==
    \A r \in cached : r.folder = f => \E q \in cached' : q.id = r.id /\ q.folder = f /\ q.msg = r.msg

LEMMA ShownKept ==
    ASSUME NEW f, RowsKept(f), NEW m, Shown(f, m)
    PROVE  Shown(f, m)'
BY DEF RowsKept, Shown

\* The other scans of a folder whose rows are kept lose nothing.
LEMMA OthersTrack ==
    ASSUME NEW f \in Folder, RowsKept(f), UNCHANGED <<box, top, epoch>>,
           NEW x \in Scanner, scan'[x] = scan[x]
    PROVE  /\ Tracks(x, f) => Tracks(x, f)'
           /\ RowThere(x, f) => RowThere(x, f)'
           /\ \A S : At(x, f, S)' <=> At(x, f, S)
<1>1. \A m : Shown(f, m) => Shown(f, m)'
  BY ShownKept
<1>2. Tracks(x, f) => Tracks(x, f)'
  BY <1>1 DEF Tracks
<1>3. First(x)' = First(x)
  BY DEF First
<1>4. RowThere(x, f) => RowThere(x, f)'
  BY <1>3 DEF RowThere, RowsKept
<1>5. \A S : At(x, f, S)' <=> At(x, f, S)
  BY DEF At, F
<1> QED BY <1>2, <1>4, <1>5

LEMMA ElsewhereLive ==
    ASSUME NEW w \in Scanner, NEW f \in Folder, LiveAt(f), RowsKept(f), UNCHANGED <<box, top, epoch>>,
           \A v \in Scanner \ {w} : scan'[v] = scan[v], ~At(w, f, Vetted)',
           StoredEpoch(f)' = StoredEpoch(f), LastUid(f)' = LastUid(f)
    PROVE  LiveAt(f)'
<1>1. \A S : S \subseteq Vetted => ~At(w, f, S)'
  BY DEF At
<1>2. /\ Late \subseteq Vetted /\ Trusting \subseteq Vetted /\ Working \subseteq Vetted
      /\ {"fetch"} \cup Late \subseteq Vetted /\ {"write"} \subseteq Vetted
  BY DEF Late, Trusting, Working, Vetted
<1>3. \A x \in Scanner \ {w} : \A S : At(x, f, S)' <=> At(x, f, S)
  BY OthersTrack
<1>4. \A x \in Scanner : \A S : S \subseteq Vetted /\ At(x, f, S)' => At(x, f, S) /\ scan'[x] = scan[x] /\ x # w
  BY <1>1, <1>3
<1>5. ASSUME NEW x \in Scanner, At(x, f, Late)' PROVE Latest(x, f)'
  <2>1. Latest(x, f) /\ scan'[x] = scan[x]
    BY <1>2, <1>4, <1>5 DEF LiveAt
  <2> QED BY <1>4, <2>1 DEF Latest
<1>6. ASSUME NEW x \in Scanner, At(x, f, {"fetch"} \cup Late)' PROVE StoredEpoch(f)' >= 1
  BY <1>2, <1>4, <1>6 DEF LiveAt
<1>7. StoredEpoch(f)' = 0 => LastUid(f)' = 0
  BY DEF LiveAt
<1>8. Claimed(f)' => Holds(f)'
  <2>1. Claimed(f)' => Claimed(f)
    BY <1>2, <1>4 DEF Claimed
  <2>2. Holds(f) => Holds(f)'
    BY ShownKept DEF Holds
  <2> QED BY <2>1, <2>2 DEF LiveAt
<1>9. ASSUME NEW x \in Scanner, At(x, f, Working)', scan'[x].epoch = epoch'[f] PROVE Tracks(x, f)'
  <2>1. At(x, f, Working) /\ scan'[x] = scan[x] /\ x # w
    BY <1>2, <1>4, <1>9
  <2> QED BY <1>9, <2>1, OthersTrack DEF LiveAt
<1>10. ASSUME NEW x \in Scanner, At(x, f, {"write"})' PROVE RowThere(x, f)'
  <2>1. At(x, f, {"write"}) /\ scan'[x] = scan[x] /\ x # w
    BY <1>2, <1>4, <1>10
  <2> QED BY <2>1, OthersTrack DEF LiveAt
<1> QED BY <1>5, <1>6, <1>7, <1>8, <1>9, <1>10 DEF LiveAt

\* What a step of a scan on its folder owes.
LEMMA HereLive ==
    ASSUME NEW w \in Scanner, NEW f \in Folder, LiveAt(f), RowsKept(f), UNCHANGED <<box, top, epoch>>,
           \A v \in Scanner \ {w} : scan'[v] = scan[v],
           scan'[w].epoch \in Nat,
           \A x \in Scanner \ {w} : At(x, f, Late) =>
               /\ StoredEpoch(f)' <= scan[x].epoch
               /\ At(w, f, Vetted)' => scan'[w].epoch <= scan[x].epoch,
           At(w, f, Late)' => /\ StoredEpoch(f)' <= scan'[w].epoch
                              /\ \A y \in Scanner \ {w} : At(y, f, Vetted) => scan[y].epoch <= scan'[w].epoch,
           StoredEpoch(f) >= 1 \/ At(w, f, {"fetch"} \cup Late)' => StoredEpoch(f)' >= 1,
           StoredEpoch(f)' = 0 => LastUid(f)' = 0,
           (\/ StoredEpoch(f)' = epoch[f]
            \/ At(w, f, Trusting)' /\ scan'[w].epoch = epoch[f]
            \/ \E x \in Scanner \ {w} : At(x, f, Trusting) /\ scan[x].epoch = epoch[f]) => Holds(f)',
           At(w, f, Working)' /\ scan'[w].epoch = epoch[f] => Tracks(w, f)',
           At(w, f, {"write"})' => RowThere(w, f)'
    PROVE  LiveAt(f)'
<1>1. \A x \in Scanner \ {w} : \A S : At(x, f, S)' <=> At(x, f, S)
  BY OthersTrack
<1>3. ASSUME NEW x \in Scanner, At(x, f, Late)' PROVE Latest(x, f)'
  <2>1. CASE x = w
    <3>1. StoredEpoch(f)' <= scan'[w].epoch
      BY <1>3, <2>1
    <3>2. \A y \in Scanner \ {w} : At(y, f, Vetted)' => scan'[y].epoch <= scan'[w].epoch
      BY <1>1, <1>3, <2>1
    <3>3. scan'[w].epoch <= scan'[w].epoch
      OBVIOUS
    <3> QED BY <2>1, <3>1, <3>2, <3>3 DEF Latest
  <2>2. CASE x # w
    <3>1. At(x, f, Late) /\ scan'[x] = scan[x]
      BY <1>1, <1>3, <2>2
    <3>2. Latest(x, f)
      BY <3>1 DEF LiveAt
    <3>3. StoredEpoch(f)' <= scan'[x].epoch
      BY <2>2, <3>1
    <3>4. \A y \in Scanner \ {w} : At(y, f, Vetted)' => scan'[y].epoch <= scan'[x].epoch
      BY <1>1, <3>1, <3>2 DEF Latest
    <3>5. At(w, f, Vetted)' => scan'[w].epoch <= scan'[x].epoch
      BY <2>2, <3>1
    <3> QED BY <3>3, <3>4, <3>5 DEF Latest
  <2> QED BY <2>1, <2>2
<1>4. ASSUME NEW x \in Scanner, At(x, f, {"fetch"} \cup Late)' PROVE StoredEpoch(f)' >= 1
  <2>1. CASE x = w
    BY <1>4, <2>1
  <2>2. CASE x # w
    BY <1>1, <1>4, <2>2 DEF LiveAt
  <2> QED BY <2>1, <2>2
<1>5. Claimed(f)' => Holds(f)'
  <2>1. Claimed(f)' => \/ StoredEpoch(f)' = epoch[f]
                       \/ At(w, f, Trusting)' /\ scan'[w].epoch = epoch[f]
                       \/ \E x \in Scanner \ {w} : At(x, f, Trusting) /\ scan[x].epoch = epoch[f]
    BY <1>1 DEF Claimed
  <2> QED BY <2>1
<1>6. ASSUME NEW x \in Scanner, At(x, f, Working)', scan'[x].epoch = epoch'[f] PROVE Tracks(x, f)'
  <2>1. CASE x = w
    BY <1>6, <2>1
  <2>2. CASE x # w
    <3>1. At(x, f, Working) /\ scan'[x] = scan[x] /\ scan[x].epoch = epoch[f]
      BY <1>1, <1>6, <2>2
    <3> QED BY <3>1, OthersTrack DEF LiveAt
  <2> QED BY <2>1, <2>2
<1>7. ASSUME NEW x \in Scanner, At(x, f, {"write"})' PROVE RowThere(x, f)'
  <2>1. CASE x = w
    BY <1>7, <2>1
  <2>2. CASE x # w
    <3>1. At(x, f, {"write"}) /\ scan'[x] = scan[x]
      BY <1>1, <1>7, <2>2
    <3> QED BY <3>1, OthersTrack DEF LiveAt
  <2> QED BY <2>1, <2>2
<1> QED BY <1>3, <1>4, <1>5, <1>6, <1>7 DEF LiveAt

\* A step that leaves the sync state alone.
LEMMA KeepLive ==
    ASSUME WellFormed, PastInv, NEW w \in Scanner, NEW f \in Folder, LiveAt(f), RowsKept(f),
           UNCHANGED <<box, top, epoch>>, UNCHANGED sync,
           \A v \in Scanner \ {w} : scan'[v] = scan[v],
           scan[w].at \in Reading, F(w) = f, F(w)' = f, scan'[w].epoch = scan[w].epoch,
           scan'[w].at \in Vetted =>
               \/ scan[w].at \in Vetted
               \/ \A x \in Scanner \ {w} : At(x, f, Late) => scan[w].epoch <= scan[x].epoch,
           scan'[w].at \in Late => scan[w].at \in Late \/ scan[w].epoch = epoch[f],
           scan'[w].at \in {"fetch"} \cup Late => scan[w].at \in {"fetch"} \cup Late \/ StoredEpoch(f) >= 1,
           scan'[w].at \in Trusting /\ scan[w].epoch = epoch[f] => scan[w].at \in Trusting \/ Holds(f),
           scan'[w].at \in Working /\ scan'[w].epoch = epoch[f] => Tracks(w, f)',
           scan'[w].at = "write" => RowThere(w, f)'
    PROVE  LiveAt(f)'
<1>1. StoredEpoch(f)' = StoredEpoch(f) /\ LastUid(f)' = LastUid(f)
  BY DEF StoredEpoch, LastUid
<1>2. scan[w].epoch \in Nat /\ epoch[f] \in Nat /\ StoredEpoch(f) \in Nat
  BY ReadingAt, SyncReads DEF WellFormed, ServerOK
<1>3. \A S : At(w, f, S) <=> scan[w].at \in S
  BY DEF At
<1>4. ASSUME NEW x \in Scanner \ {w}, At(x, f, Late)
      PROVE  /\ StoredEpoch(f)' <= scan[x].epoch
             /\ scan'[w].at \in Vetted => scan'[w].epoch <= scan[x].epoch
  <2>1. Latest(x, f)
    BY <1>4 DEF LiveAt
  <2>2. At(w, f, Vetted) => scan[w].epoch <= scan[x].epoch
    BY <2>1 DEF Latest
  <2> QED BY <1>1, <1>3, <1>4, <2>1, <2>2 DEF Latest
<1>5. ASSUME scan'[w].at \in Late
      PROVE  /\ StoredEpoch(f)' <= scan'[w].epoch
             /\ \A y \in Scanner \ {w} : At(y, f, Vetted) => scan[y].epoch <= scan'[w].epoch
  <2>1. CASE scan[w].at \in Late
    <3>1. Latest(w, f)
      BY <1>3, <2>1 DEF LiveAt
    <3> QED BY <1>1, <3>1 DEF Latest
  <2>2. CASE scan[w].epoch = epoch[f]
    <3>1. StoredEpoch(f) <= epoch[f]
      BY DEF PastInv
    <3>2. \A y \in Scanner : At(y, f, Vetted) => scan[y].epoch <= epoch[f]
      BY DEF At, PastInv, Reading
    <3> QED BY <1>1, <2>2, <3>1, <3>2
  <2> QED BY <1>5, <2>1, <2>2
<1>6. StoredEpoch(f) >= 1 \/ scan'[w].at \in {"fetch"} \cup Late => StoredEpoch(f)' >= 1
  <2>1. scan[w].at \in {"fetch"} \cup Late => StoredEpoch(f) >= 1
    BY <1>3 DEF LiveAt
  <2> QED BY <1>1, <2>1
<1>7. StoredEpoch(f)' = 0 => LastUid(f)' = 0
  BY <1>1 DEF LiveAt
<1>8. (\/ StoredEpoch(f)' = epoch[f]
       \/ scan'[w].at \in Trusting /\ scan'[w].epoch = epoch[f]
       \/ \E x \in Scanner \ {w} : At(x, f, Trusting) /\ scan[x].epoch = epoch[f]) => Holds(f)'
  <2>1. Holds(f) => Holds(f)'
    BY <1>1, ShownKept DEF Holds
  <2>2. (\/ StoredEpoch(f)' = epoch[f]
         \/ scan'[w].at \in Trusting /\ scan'[w].epoch = epoch[f]
         \/ \E x \in Scanner \ {w} : At(x, f, Trusting) /\ scan[x].epoch = epoch[f]) => Claimed(f) \/ Holds(f)
    BY <1>1, <1>3 DEF Claimed
  <2> QED BY <2>1, <2>2 DEF LiveAt
<1>9. scan'[w].epoch \in Nat
  BY <1>2
<1>10. \A S : At(w, f, S)' <=> scan'[w].at \in S
  BY DEF At
<1> QED BY <1>4, <1>5, <1>6, <1>7, <1>8, <1>9, <1>10, HereLive

\* The steps that write the sync row of the folder.
LEMMA DatedLive ==
    ASSUME WellFormed, PastInv, NEW w \in Scanner, NEW f \in Folder, LiveAt(f),
           UNCHANGED <<box, top, epoch>>, UNCHANGED <<cached, lastId>>,
           \A v \in Scanner \ {w} : scan'[v] = scan[v], scan'[w].epoch \in Nat,
           At(w, f, {"adopt", "confirm"}), SetUidvalidity(f, scan[w].epoch),
           At(w, f, Vetted)' => scan'[w].at = "fetch" /\ scan'[w].epoch = scan[w].epoch
    PROVE  LiveAt(f)'
<1>1. PICK e \in Nat : e = scan[w].epoch /\ e >= 1 /\ e <= epoch[f]
  BY ReadingAt DEF At, PastInv, Reading, Vetted, Late, WellFormed
<1>2. StoredEpoch(f)' = e /\ LastUid(f)' = LastUid(f)
  BY <1>1, SyncDated DEF WellFormed
<1>3. At(w, f, Vetted) /\ At(w, f, Trusting) /\ Late \subseteq Vetted
  BY DEF At, Vetted, Trusting, Late
<1>4. RowsKept(f)
  BY DEF RowsKept
<1>5. \A x \in Scanner \ {w} : At(x, f, Late) => e <= scan[x].epoch
  BY <1>1, <1>3 DEF LiveAt, Latest
<1>6. ~At(w, f, Late)' /\ ~At(w, f, Working)' /\ ~At(w, f, {"write"})'
  BY DEF At, Late, Working, Vetted
<1>7. At(w, f, Trusting)' => At(w, f, Vetted)'
  BY DEF At, Trusting, Vetted
<1>8. (\/ StoredEpoch(f)' = epoch[f]
       \/ At(w, f, Trusting)' /\ scan'[w].epoch = epoch[f]
       \/ \E x \in Scanner \ {w} : At(x, f, Trusting) /\ scan[x].epoch = epoch[f]) => Holds(f)'
  <2>1. (\/ StoredEpoch(f)' = epoch[f]
         \/ At(w, f, Trusting)' /\ scan'[w].epoch = epoch[f]
         \/ \E x \in Scanner \ {w} : At(x, f, Trusting) /\ scan[x].epoch = epoch[f]) => Claimed(f)
    BY <1>1, <1>2, <1>3, <1>7 DEF Claimed
  <2>2. Holds(f) => Holds(f)'
    BY <1>2, <1>4, ShownKept DEF Holds
  <2> QED BY <2>1, <2>2 DEF LiveAt
<1>9. \A x \in Scanner \ {w} : At(x, f, Late) =>
          StoredEpoch(f)' <= scan[x].epoch /\ (At(w, f, Vetted)' => scan'[w].epoch <= scan[x].epoch)
  BY <1>1, <1>2, <1>5
<1>10. StoredEpoch(f)' >= 1 /\ StoredEpoch(f)' # 0
  BY <1>1, <1>2
<1> QED BY <1>4, <1>6, <1>8, <1>9, <1>10, HereLive

LEMMA RestartedLive ==
    ASSUME WellFormed, PastInv, NEW w \in Scanner, NEW f \in Folder, LiveAt(f),
           UNCHANGED <<box, top, epoch>>, UNCHANGED <<cached, lastId>>,
           \A v \in Scanner \ {w} : scan'[v] = scan[v], scan'[w].epoch = scan[w].epoch,
           At(w, f, {"restate"}), RestartSync(f, scan[w].epoch), scan'[w].at = "fetch"
    PROVE  LiveAt(f)'
<1>1. PICK e \in Nat : e = scan[w].epoch /\ e >= 1 /\ e <= epoch[f]
  BY ReadingAt DEF At, PastInv, Reading, Vetted, Late, WellFormed
<1>2. StoredEpoch(f)' = e /\ LastUid(f)' = 0
  BY <1>1, SyncRestarted DEF WellFormed
<1>3. At(w, f, Vetted)
  BY DEF At, Vetted
<1>4. RowsKept(f)
  BY DEF RowsKept
<1>5. \A x \in Scanner \ {w} : At(x, f, Late) => e <= scan[x].epoch
  BY <1>1, <1>3 DEF LiveAt, Latest
<1>6. ~At(w, f, Late)' /\ ~At(w, f, Working)' /\ ~At(w, f, {"write"})'
  BY DEF At, Late, Working
<1>7. Holds(f)'
  <2>1. top[f] \in Nat /\ \A u \in DOMAIN box[f] : u \in Nat /\ u >= 1
    BY BoxOK DEF WellFormed, ServerOK
  <2> QED BY <1>2, <2>1 DEF Holds
<1>8. \A x \in Scanner \ {w} : At(x, f, Late) =>
          StoredEpoch(f)' <= scan[x].epoch /\ (At(w, f, Vetted)' => scan'[w].epoch <= scan[x].epoch)
  BY <1>1, <1>2, <1>5
<1>9. StoredEpoch(f)' >= 1 /\ StoredEpoch(f)' # 0 /\ scan'[w].epoch \in Nat
  BY <1>1, <1>2
<1> QED BY <1>4, <1>6, <1>7, <1>8, <1>9, HereLive

LEMMA AdvancedLive ==
    ASSUME WellFormed, PastInv, NEW w \in Scanner, NEW f \in Folder, LiveAt(f),
           UNCHANGED <<box, top, epoch>>, UNCHANGED <<cached, lastId>>,
           \A v \in Scanner \ {w} : scan'[v] = scan[v], scan'[w].epoch = scan[w].epoch,
           At(w, f, {"next"}), At(w, f, {"confirm"})', scan[w].queue = {},
           SetLastSyncedUid(f, scan[w].seen)
    PROVE  LiveAt(f)'
<1>1. PICK e \in Nat, s \in Nat : e = scan[w].epoch /\ s = scan[w].seen /\ e <= epoch[f]
  BY ReadingAt DEF At, PastInv, Reading, Vetted, Late, WellFormed
<1>2. StoredEpoch(f)' = StoredEpoch(f) /\ LastUid(f)' = s
  BY <1>1, SyncAdvanced DEF WellFormed
<1>3. At(w, f, Vetted) /\ At(w, f, Late) /\ At(w, f, Working) /\ At(w, f, {"fetch"} \cup Late)
  BY DEF At, Vetted, Late, Working
<1>4. RowsKept(f)
  BY DEF RowsKept
<1>5. Latest(w, f) /\ StoredEpoch(f) >= 1 /\ StoredEpoch(f) \in Nat /\ epoch[f] \in Nat
  BY <1>3, SyncReads DEF LiveAt, WellFormed, ServerOK
<1>6. ~At(w, f, Working)' /\ ~At(w, f, {"write"})'
  BY DEF At, Working
<1>7. (\/ StoredEpoch(f)' = epoch[f]
       \/ At(w, f, Trusting)' /\ scan'[w].epoch = epoch[f]
       \/ \E x \in Scanner \ {w} : At(x, f, Trusting) /\ scan[x].epoch = epoch[f]) => Holds(f)'
  <2>1. \A x \in Scanner : At(x, f, Trusting) => At(x, f, Vetted)
    BY DEF At, Trusting, Vetted
  <2>2. ASSUME \/ StoredEpoch(f)' = epoch[f]
               \/ At(w, f, Trusting)' /\ scan'[w].epoch = epoch[f]
               \/ \E x \in Scanner \ {w} : At(x, f, Trusting) /\ scan[x].epoch = epoch[f]
        PROVE  e = epoch[f]
    BY <1>1, <1>2, <1>5, <2>1, <2>2 DEF Latest
  <2>3. ASSUME e = epoch[f] PROVE Holds(f)'
    <3>1. Tracks(w, f)
      BY <1>1, <1>3, <2>3 DEF LiveAt
    <3>2. s <= top[f] /\ \A u \in DOMAIN box[f] : u <= s => Shown(f, box[f][u])
      <4>1. \A u \in DOMAIN box[f] : u \in Nat
        BY BoxOK DEF WellFormed
      <4> QED BY <1>1, <3>1, <4>1 DEF Tracks
    <3> QED BY <1>2, <1>4, <3>2, ShownKept DEF Holds
  <2> QED BY <2>2, <2>3
<1>8. \A x \in Scanner \ {w} : At(x, f, Late) =>
          StoredEpoch(f)' <= scan[x].epoch /\ (At(w, f, Vetted)' => scan'[w].epoch <= scan[x].epoch)
  BY <1>2, <1>3 DEF LiveAt, Latest
<1>9. At(w, f, Late)' => /\ StoredEpoch(f)' <= scan'[w].epoch
                         /\ \A y \in Scanner \ {w} : At(y, f, Vetted) => scan[y].epoch <= scan'[w].epoch
  BY <1>2, <1>5 DEF Latest
<1>10. StoredEpoch(f)' >= 1 /\ StoredEpoch(f)' # 0 /\ scan'[w].epoch \in Nat
  BY <1>1, <1>2, <1>5
<1> QED BY <1>4, <1>6, <1>7, <1>8, <1>9, <1>10, HereLive

\* The steps that fetch and handle the messages of a folder.
LEMMA FetchTracks ==
    ASSUME WellFormed, NEW w \in Scanner, NEW f \in Folder, LiveAt(f), UNCHANGED <<box, top, epoch, cached>>,
           At(w, f, {"fetch"}), scan[w].epoch = epoch[f], F(w)' = f,
           scan'[w].seen = 0, scan'[w].queue = Listing(f),
           sync[f] = Nobody => InRange(f) = DOMAIN box[f]
    PROVE  Tracks(w, f)'
<1>1. /\ \A x \in Listing(f) : x.uid \in InRange(f)
      /\ \A u \in InRange(f) : \E x \in Listing(f) : x.uid = u /\ x.msg = box[f][u]
  BY ListingOK DEF WellFormed
<1>2. DOMAIN box[f] \subseteq 1 .. top[f] /\ InRange(f) \subseteq DOMAIN box[f] /\ top[f] \in Nat
  BY BoxOK DEF WellFormed, ServerOK
<1>3. Holds(f)
  BY DEF LiveAt, Claimed, At, Trusting
<1>4. \A u \in DOMAIN box[f] : u \in InRange(f) \/ Shown(f, box[f][u])
  <2>1. CASE sync[f] = Nobody
    BY <2>1
  <2>2. CASE sync[f] # Nobody
    <3>1. LastUid(f) = sync[f].uid /\ LastUid(f) \in Nat
      BY <2>2, SyncReads DEF LastUid, WellFormed
    <3>2. \A u \in DOMAIN box[f] : u >= LastUid(f) + 1 => u \in InRange(f)
      BY <2>2, <3>1 DEF InRange, From
    <3>3. \A u \in DOMAIN box[f] : u \in Nat
      BY <1>2
    <3> QED BY <1>3, <3>1, <3>2, <3>3 DEF Holds
  <2> QED BY <2>1, <2>2
<1>5. \A u \in DOMAIN box[f] :
          Shown(f, box[f][u])' \/ \E q \in scan'[w].queue : q.uid = u /\ q.msg = box[f][u]
  BY <1>1, <1>4 DEF Shown
<1>6. \A q \in scan'[w].queue : q.uid <= top[f]
  BY <1>1, <1>2
<1>7. scan'[w].seen <= top[f]
  BY <1>2
<1> QED BY <1>5, <1>6, <1>7 DEF Tracks

LEMMA FoundTracks ==
    ASSUME WellFormed, NEW w \in Scanner, NEW f \in Folder, UNCHANGED <<box, top, epoch, cached>>,
           scan[w].queue # {}, F(w) = f, F(w)' = f,
           scan'[w].seen = First(w).uid, scan'[w].queue = scan[w].queue
    PROVE  /\ Tracks(w, f) => Tracks(w, f)'
           /\ \/ scan'[w].row = 0
              \/ \E r \in RowsFor(f, First(w).msg) : scan'[w].row = r.id
              => RowThere(w, f)'
<1>1. PICK x : x = First(w)
  OBVIOUS
<1>2. x \in scan[w].queue /\ First(w)' = x
  BY <1>1, FirstOK DEF First, WellFormed
<1>3. Tracks(w, f) => Tracks(w, f)'
  BY <1>1, <1>2 DEF Tracks, Shown
<1>4. \A r \in RowsFor(f, x.msg) : r \in cached /\ r.folder = f /\ r.msg = x.msg
  BY DEF RowsFor, RowsIn
<1>5. (\/ scan'[w].row = 0
       \/ \E r \in RowsFor(f, First(w).msg) : scan'[w].row = r.id) => RowThere(w, f)'
  BY <1>1, <1>2, <1>4 DEF RowThere
<1> QED BY <1>3, <1>5

LEMMA WrittenTracks ==
    ASSUME WellFormed, NEW w \in Scanner, NEW f \in Folder, RowsKept(f), UNCHANGED <<box, top, epoch>>,
           scan[w].queue # {}, F(w) = f, F(w)' = f, Tracks(w, f),
           scan'[w].seen = scan[w].seen, scan'[w].queue = Rest(w),
           NEW m, m = First(w).msg, Shown(f, m)'
    PROVE  Tracks(w, f)'
<1>1. PICK x, R : x = First(w) /\ R = Rest(w) /\ x.msg = m
  OBVIOUS
<1>2. R \subseteq scan[w].queue /\ \A q \in scan[w].queue : q = x \/ q \in R
  BY <1>1 DEF Rest
<1>3. \A n : Shown(f, n) => Shown(f, n)'
  BY ShownKept
<1>4. \A u \in DOMAIN box[f] :
          \/ Shown(f, box[f][u])'
          \/ \E q \in R : q.uid = u /\ q.msg = box[f][u]
          \/ u > scan[w].seen /\ \A q \in R : u > q.uid
  BY <1>1, <1>2, <1>3 DEF Tracks
<1> QED BY <1>1, <1>2, <1>4 DEF Tracks

LEMMA LostTracks ==
    ASSUME WellFormed, NEW w \in Scanner, NEW f \in Folder, UNCHANGED <<box, top, epoch, cached>>,
           scan[w].at = "next", F(w) = f, F(w)' = f, Tracks(w, f),
           scan'[w].seen = scan[w].seen, scan'[w].queue = {}
    PROVE  Tracks(w, f)'
<1>1. \A q \in scan[w].queue : q.uid > scan[w].seen
  BY DEF WellFormed, ScansOK, ScanOK
<1> QED BY <1>1 DEF Tracks, Shown

LEMMA WriteKeeps ==
    ASSUME WellFormed, NEW w \in Scanner, Write(w), NEW f \in Folder
    PROVE  /\ RowsKept(f)
           /\ PassedOver \/ \A m : m = First(w).msg /\ F(w) = f /\ RowThere(w, f) => Shown(f, m)'
<1>1. PICK g \in Folder, u \in Nat, m \in Message, s \in SUBSET Address :
          g = F(w) /\ u = First(w).uid /\ m = First(w).msg /\ s = Who(First(w).msg)
  BY WriteCases DEF WellFormed
<1>2. UNCHANGED sync /\ CacheOK
  BY WriteCases DEF WellFormed
<1>3. CASE InsertRow(g, u, m, s)
  <2>1. PICK y : y = [id |-> lastId + 1, folder |-> g, uid |-> u, msg |-> m, who |-> s]
    OBVIOUS
  <2>2. cached' = cached \cup {y} /\ y.folder = g /\ y.msg = m
    BY <1>3, <2>1, Zenon DEF InsertRow
  <2> QED BY <1>1, <2>2 DEF RowsKept, Shown
<1>4. CASE scan[w].row # 0 /\ RewriteRow(scan[w].row, u, s)
  <2>1. \A r \in cached : \E q \in cached' : q.id = r.id /\ q.folder = r.folder /\ q.msg = r.msg
    BY <1>2, <1>4, RewriteOK
  <2> QED BY <1>1, <1>4, <2>1 DEF RowsKept, Shown, RowThere
<1>5. CASE PassedOver /\ UNCHANGED <<cached, lastId>>
  BY <1>5 DEF RowsKept
<1> QED BY <1>1, <1>3, <1>4, <1>5, WriteCases DEF WellFormed

\* What every step of a scan leaves alone.
LEMMA ScanKeeps ==
    ASSUME WellFormed, NEW w \in Scanner, Scans(w)
    PROVE  /\ UNCHANGED <<box, top, epoch>> /\ \A v \in Scanner \ {w} : scan'[v] = scan[v]
           /\ ScansOK' /\ scan'[w].epoch \in Nat /\ scan[w].epoch \in Nat
<1>1. UNCHANGED <<box, top, epoch>>
  BY ScansTell
<1>2. ScansOK'
  BY ScanMoves, MovesOK DEF ScansOK, ScanOK, WellFormed
<1> QED BY <1>1, <1>2, ScanOthers DEF ScansOK, Scanning, WellFormed

LEMMA AllElsewhere ==
    ASSUME WellFormed, NEW w \in Scanner, Scans(w), \A f \in Folder : LiveAt(f),
           UNCHANGED <<cached, sync>>, scan'[w].at \notin Vetted
    PROVE  \A f \in Folder : LiveAt(f)'
<1>1. ASSUME NEW f \in Folder PROVE LiveAt(f)'
  <2>1. RowsKept(f) /\ StoredEpoch(f)' = StoredEpoch(f) /\ LastUid(f)' = LastUid(f)
    BY DEF RowsKept, StoredEpoch, LastUid
  <2>2. ~At(w, f, Vetted)'
    BY DEF At
  <2> QED BY <2>1, <2>2, ScanKeeps, ElsewhereLive
<1> QED BY <1>1

LEMMA RestElsewhere ==
    ASSUME WellFormed, NEW w \in Scanner, Scans(w), \A f \in Folder : LiveAt(f), Stays(w),
           NEW h \in Folder, F(w) = h, LiveAt(h)',
           \A g \in Folder \ {h} :
               RowsKept(g) /\ StoredEpoch(g)' = StoredEpoch(g) /\ LastUid(g)' = LastUid(g)
    PROVE  \A f \in Folder : LiveAt(f)'
<1>1. ASSUME NEW f \in Folder, f # h PROVE LiveAt(f)'
  <2>1. ~At(w, f, Vetted)'
    BY <1>1 DEF At, Stays, F
  <2>2. RowsKept(f) /\ StoredEpoch(f)' = StoredEpoch(f) /\ LastUid(f)' = LastUid(f)
    BY <1>1
  <2> QED BY <2>1, <2>2, ScanKeeps, ElsewhereLive
<1> QED BY <1>1

\* A step that stays in its folder and leaves the sync state alone.
LEMMA StepHere ==
    ASSUME WellFormed, PastInv, NEW w \in Scanner, Scans(w), \A f \in Folder : LiveAt(f),
           Stays(w), NEW h \in Folder, F(w) = h, UNCHANGED sync, \A f \in Folder : RowsKept(f),
           scan'[w].at \in Vetted =>
               \/ scan[w].at \in Vetted
               \/ \A x \in Scanner \ {w} : At(x, h, Late) => scan[w].epoch <= scan[x].epoch,
           scan'[w].at \in Late => scan[w].at \in Late \/ scan[w].epoch = epoch[h],
           scan'[w].at \in {"fetch"} \cup Late => scan[w].at \in {"fetch"} \cup Late \/ StoredEpoch(h) >= 1,
           scan'[w].at \in Trusting /\ scan[w].epoch = epoch[h] => scan[w].at \in Trusting \/ Holds(h),
           scan'[w].at \in Working /\ scan[w].epoch = epoch[h] => Tracks(w, h)',
           scan'[w].at = "write" => RowThere(w, h)'
    PROVE  \A f \in Folder : LiveAt(f)'
<1>1. scan[w].at \in Reading /\ F(w)' = h /\ scan'[w].epoch = scan[w].epoch
  BY DEF Stays, F
<1>2. LiveAt(h) /\ RowsKept(h)
  OBVIOUS
<1>3. scan'[w].at \in Working /\ scan'[w].epoch = epoch[h] => Tracks(w, h)'
  BY <1>1
<1>4. UNCHANGED <<box, top, epoch>> /\ \A v \in Scanner \ {w} : scan'[v] = scan[v]
  BY ScanKeeps
<1>5. LiveAt(h)'
  BY <1>1, <1>2, <1>3, <1>4, KeepLive
<1>6. \A g \in Folder \ {h} :
          RowsKept(g) /\ StoredEpoch(g)' = StoredEpoch(g) /\ LastUid(g)' = LastUid(g)
  BY DEF StoredEpoch, LastUid
<1> QED BY <1>5, <1>6, RestElsewhere

LEMMA CheckLive ==
    ASSUME WellFormed, PastInv, NEW w \in Scanner, Scans(w), \A f \in Folder : LiveAt(f), Check(w)
    PROVE  \A f \in Folder : LiveAt(f)'
<1>1. scan[w].at = "check" /\ scan[w].at \in Reading /\ UNCHANGED <<cached, sync>>
  BY DEF Check, Reading, cacheVars
<1>2. PICK h \in Folder : h = F(w)
  BY <1>1, ReadingAt DEF WellFormed
<1>3. PICK a \in {"adopt", "fetch", "wipe"} :
          /\ Goto(w, a)
          /\ a = "adopt" => StoredEpoch(h) = 0
          /\ a = "fetch" => StoredEpoch(h) = scan[w].epoch
  BY <1>2, Zenon DEF Check
<1>4. scan'[w].at = a /\ Stays(w)
  BY <1>1, <1>3, GotoAfter, GotoStays DEF Reading, Vetted, WellFormed
<1>5. \A f \in Folder : RowsKept(f)
  BY <1>1 DEF RowsKept
<1>6. LiveAt(h) /\ scan[w].epoch >= 1 /\ epoch[h] \in Nat /\ epoch[h] >= 1
  BY <1>1, <1>2 DEF PastInv, WellFormed, ServerOK
<1>7. scan'[w].at \in Vetted => \A x \in Scanner \ {w} : At(x, h, Late) => scan[w].epoch <= scan[x].epoch
  <2>1. \A x \in Scanner : At(x, h, Late) => StoredEpoch(h) >= 1 /\ StoredEpoch(h) <= scan[x].epoch
    BY <1>6 DEF LiveAt, Latest, At
  <2>2. StoredEpoch(h) = 0 => \A x \in Scanner : ~At(x, h, Late)
    BY <2>1
  <2>3. a = "wipe" => scan'[w].at \notin Vetted
    BY <1>4 DEF Vetted, Late
  <2> QED BY <1>3, <2>1, <2>2, <2>3
<1>8. scan'[w].at \in {"fetch"} \cup Late => StoredEpoch(h) >= 1
  BY <1>3, <1>4, <1>6 DEF Late
<1>9. scan'[w].at \in Trusting /\ scan[w].epoch = epoch[h] => Holds(h)
  <2>1. CASE StoredEpoch(h) = 0
    <3>1. LastUid(h) = 0 /\ top[h] \in Nat /\ \A u \in DOMAIN box[h] : u \in Nat /\ u >= 1
      BY <1>6, <2>1, BoxOK DEF LiveAt, WellFormed, ServerOK
    <3> QED BY <3>1 DEF Holds
  <2>2. CASE a = "fetch"
    BY <1>3, <1>6, <2>2 DEF LiveAt, Claimed
  <2>3. a = "wipe" => scan'[w].at \notin Trusting
    BY <1>4 DEF Trusting, Late
  <2> QED BY <1>3, <2>1, <2>2, <2>3
<1>10. scan'[w].at \notin Late /\ scan'[w].at \notin Working /\ scan'[w].at # "write"
  BY <1>4 DEF Late, Working
<1> QED BY <1>1, <1>2, <1>4, <1>5, <1>7, <1>8, <1>9, <1>10, StepHere

LEMMA FetchLive ==
    ASSUME WellFormed, PastInv, NEW w \in Scanner, Scans(w), \A f \in Folder : LiveAt(f), Fetch(w), ~lapsed'
    PROVE  \A f \in Folder : LiveAt(f)'
<1>1. scan[w].at = "fetch" /\ scan[w].at \in Reading /\ UNCHANGED <<cached, sync>>
  BY DEF Fetch, Reading, Vetted, cacheVars
<1>2. PICK h \in Folder : h = F(w)
  BY <1>1, ReadingAt DEF WellFormed
<1>3. CASE Now(w, Idle)
  <2>1. scan'[w].at \notin Vetted
    BY <1>3, IdleAfter DEF Vetted, Late, WellFormed
  <2> QED BY <1>1, <2>1, AllElsewhere
<1>4. CASE epoch[h] = scan[w].epoch /\ Left(w, "next", Listing(h))
           /\ lapsed' = (lapsed \/ (sync[h] = Nobody /\ InRange(h) # DOMAIN box[h]))
  <2>1. PICK Q : Q = Listing(h)
    OBVIOUS
  <2>2. /\ scan'[w].at = "next" /\ scan'[w].queue = Q /\ scan'[w].seen = scan[w].seen
        /\ scan'[w].todo = scan[w].todo /\ scan'[w].epoch = scan[w].epoch
    BY <1>4, <2>1, WrittenAfter DEF WellFormed
  <2>3. scan[w].seen = 0
    BY <1>1 DEF WellFormed, ScansOK, ScanOK, Early
  <2>4. Stays(w) /\ F(w)' = h
    BY <1>1, <1>2, <2>2 DEF Stays, Reading, Vetted, Late, F
  <2>5. sync[h] = Nobody => InRange(h) = DOMAIN box[h]
    BY <1>4, Zenon
  <2>6. UNCHANGED <<box, top, epoch, cached>>
    BY <1>1, ScanKeeps
  <2>7. Tracks(w, h)'
    BY <1>1, <1>2, <1>4, <2>1, <2>2, <2>3, <2>4, <2>5, <2>6, FetchTracks DEF At
  <2>8. \A f \in Folder : RowsKept(f)
    BY <1>1 DEF RowsKept
  <2>9. scan[w].at \in Vetted /\ scan[w].at \in Trusting
    BY <1>1 DEF Vetted, Trusting
  <2> QED BY <1>1, <1>2, <1>4, <2>2, <2>4, <2>7, <2>8, <2>9, StepHere
<1> QED BY <1>2, <1>3, <1>4, Zenon DEF Fetch, Left

LEMMA LookUpLive ==
    ASSUME WellFormed, PastInv, NEW w \in Scanner, Scans(w), \A f \in Folder : LiveAt(f), LookUp(w), ~lapsed'
    PROVE  \A f \in Folder : LiveAt(f)'
<1>1. scan[w].at = "next" /\ scan[w].at \in Reading /\ scan[w].queue # {} /\ UNCHANGED <<cached, sync>>
  <2>1. scan[w].at = "next" /\ scan[w].queue # {} /\ UNCHANGED cacheVars
    BY Zenon DEF LookUp
  <2> QED BY <2>1 DEF Reading, Vetted, Late, cacheVars
<1>2. PICK h \in Folder : h = F(w)
  BY <1>1, ReadingAt DEF WellFormed
<1>3. PICK i, b : /\ Found(w, i, b)
                  /\ i = 0 \/ \E r \in RowsFor(h, First(w).msg) : i = r.id
  <2>1. ~PassedOver
    BY DEF PassedOver
  <2> QED BY <1>2, <2>1, LookUpCases
<1>4. /\ scan'[w].at = "write" /\ scan'[w].row = i /\ scan'[w].seen = First(w).uid
      /\ scan'[w].queue = scan[w].queue /\ scan'[w].todo = scan[w].todo /\ scan'[w].epoch = scan[w].epoch
  BY <1>3, FoundAfter DEF WellFormed
<1>5. Stays(w) /\ F(w)' = h
  BY <1>1, <1>2, <1>4 DEF Stays, Reading, Vetted, Late, F
<1>6. UNCHANGED <<box, top, epoch, cached>>
  BY <1>1, ScanKeeps
<1>7. (Tracks(w, h) => Tracks(w, h)') /\ RowThere(w, h)'
  BY <1>1, <1>2, <1>3, <1>4, <1>5, <1>6, FoundTracks
<1>8. scan[w].epoch = epoch[h] => Tracks(w, h)
  BY <1>1, <1>2 DEF LiveAt, At, Working
<1>9. \A f \in Folder : RowsKept(f)
  BY <1>1 DEF RowsKept
<1>10. scan[w].at \in Vetted /\ scan[w].at \in Trusting /\ scan[w].at \in Late
  BY <1>1 DEF Vetted, Trusting, Late
<1> QED BY <1>1, <1>2, <1>5, <1>7, <1>8, <1>9, <1>10, StepHere

LEMMA WriteLive ==
    ASSUME WellFormed, PastInv, NEW w \in Scanner, Scans(w), \A f \in Folder : LiveAt(f), Write(w), ~lapsed'
    PROVE  \A f \in Folder : LiveAt(f)'
<1>1. scan[w].at = "write" /\ scan[w].at \in Reading /\ scan[w].queue # {} /\ UNCHANGED sync
  BY WriteCases DEF Reading, Vetted, Late, WellFormed
<1>2. PICK h \in Folder : h = F(w)
  BY <1>1, ReadingAt DEF WellFormed
<1>3. PICK a \in {"next", "invalidate"} : Left(w, a, Rest(w))
  BY Zenon DEF Write, Written, Left
<1>4. PICK Q : Q = Rest(w)
  OBVIOUS
<1>5. /\ scan'[w].at = a /\ scan'[w].queue = Q /\ scan'[w].seen = scan[w].seen
      /\ scan'[w].todo = scan[w].todo /\ scan'[w].epoch = scan[w].epoch
  BY <1>3, <1>4, WrittenAfter DEF WellFormed
<1>6. Stays(w) /\ F(w)' = h
  BY <1>1, <1>2, <1>5 DEF Stays, Reading, Vetted, Late, F
<1>7. \A f \in Folder : RowsKept(f)
  BY WriteKeeps
<1>8. ~PassedOver
  BY DEF PassedOver
<1>9. PICK m : m = First(w).msg
  OBVIOUS
<1>10. RowThere(w, h) /\ (scan[w].epoch = epoch[h] => Tracks(w, h))
  BY <1>1, <1>2 DEF LiveAt, At, Working
<1>11. Shown(h, m)'
  BY <1>2, <1>8, <1>9, <1>10, WriteKeeps
<1>12. UNCHANGED <<box, top, epoch>>
  BY ScanKeeps
<1>13. Tracks(w, h) => Tracks(w, h)'
  BY <1>1, <1>2, <1>4, <1>5, <1>6, <1>7, <1>9, <1>11, <1>12, WrittenTracks
<1>14. scan[w].at \in Vetted /\ scan[w].at \in Trusting /\ scan[w].at \in Late
  BY <1>1 DEF Vetted, Trusting, Late
<1> QED BY <1>1, <1>2, <1>5, <1>6, <1>7, <1>10, <1>13, <1>14, StepHere

LEMMA RestOfFolderLive ==
    ASSUME WellFormed, PastInv, NEW w \in Scanner, Scans(w), \A f \in Folder : LiveAt(f), ~lapsed',
           InvalidateHistory(w) \/ ConnectionLost(w) \/ Disown(w)
    PROVE  \A f \in Folder : LiveAt(f)'
<1>1. /\ scan[w].at \in {"invalidate", "next", "disown"} /\ scan[w].at \in Reading
      /\ UNCHANGED <<cached, sync>>
  BY DEF InvalidateHistory, ConnectionLost, Disown, Reading, Vetted, Late, cacheVars
<1>2. PICK h \in Folder : h = F(w)
  BY <1>1, ReadingAt DEF WellFormed
<1>3. \A f \in Folder : RowsKept(f)
  BY <1>1 DEF RowsKept
<1>4. UNCHANGED <<box, top, epoch, cached>>
  BY <1>1, ScanKeeps
<1>5. CASE InvalidateHistory(w)
  <2>1. scan[w].at = "invalidate" /\ scan'[w].at = "next" /\ scan'[w].queue = scan[w].queue
        /\ scan'[w].seen = scan[w].seen /\ Stays(w)
    BY <1>1, <1>5, GotoAfter, GotoStays DEF InvalidateHistory, Reading, Vetted, Late, WellFormed
  <2>2. F(w)' = h
    BY <1>2, <2>1 DEF Stays, F
  <2>3. Tracks(w, h) => Tracks(w, h)'
    BY <1>2, <1>4, <2>1, <2>2 DEF Tracks, Shown
  <2>4. scan[w].epoch = epoch[h] => Tracks(w, h)
    BY <1>2, <2>1 DEF LiveAt, At, Working
  <2>5. scan[w].at \in Vetted /\ scan[w].at \in Trusting /\ scan[w].at \in Late
    BY <2>1 DEF Vetted, Trusting, Late
  <2> QED BY <1>1, <1>2, <1>3, <2>1, <2>3, <2>4, <2>5, StepHere
<1>6. CASE ConnectionLost(w)
  <2>1. scan[w].at = "next" /\ scan'[w].at = "next" /\ scan'[w].queue = {}
        /\ scan'[w].seen = scan[w].seen /\ scan'[w].todo = scan[w].todo
        /\ scan'[w].epoch = scan[w].epoch
    BY <1>6, LostAfter, WrittenAfter DEF WellFormed
  <2>2. Stays(w) /\ F(w)' = h
    BY <1>1, <1>2, <2>1 DEF Stays, F
  <2>3. Tracks(w, h) => Tracks(w, h)'
    BY <1>2, <1>4, <2>1, <2>2, LostTracks
  <2>4. scan[w].epoch = epoch[h] => Tracks(w, h)
    BY <1>2, <2>1 DEF LiveAt, At, Working
  <2>5. scan[w].at \in Vetted /\ scan[w].at \in Trusting /\ scan[w].at \in Late
    BY <2>1 DEF Vetted, Trusting, Late
  <2> QED BY <1>1, <1>2, <1>3, <2>1, <2>2, <2>3, <2>4, <2>5, StepHere
<1>7. CASE Disown(w)
  <2>1. scan[w].at = "disown" /\ Goto(w, "restate")
    BY <1>7 DEF Disown, PassedOver
  <2>2. scan'[w].at = "restate" /\ Stays(w)
    BY <1>1, <2>1, GotoAfter, GotoStays DEF Reading, Vetted, WellFormed
  <2>3. /\ scan[w].at \in Vetted /\ scan'[w].at \notin Trusting /\ scan'[w].at \notin Late
        /\ scan'[w].at \notin Working /\ scan'[w].at \notin {"fetch"} \cup Late
    BY <2>1, <2>2 DEF Vetted, Trusting, Late, Working
  <2> QED BY <1>1, <1>2, <1>3, <2>2, <2>3, StepHere
<1> QED BY <1>5, <1>6, <1>7

LEMMA AdoptLive ==
    ASSUME WellFormed, PastInv, NEW w \in Scanner, Scans(w), \A f \in Folder : LiveAt(f), ~lapsed',
           Adopt(w) \/ Restate(w)
    PROVE  \A f \in Folder : LiveAt(f)'
<1>1. PICK a \in {"adopt", "restate"} : scan[w].at = a /\ (a = "adopt" => Adopt(w)) /\ (a = "restate" => Restate(w))
  BY DEF Adopt, Restate
<1>2. scan[w].at \in Reading /\ Goto(w, "fetch") /\ UNCHANGED <<cached, lastId>>
  BY <1>1 DEF Adopt, Restate, Reading, Vetted
<1>3. PICK h \in Folder, e \in Nat : h = F(w) /\ e = scan[w].epoch
  BY <1>2, ReadingAt DEF WellFormed
<1>4. scan'[w].at = "fetch" /\ Stays(w) /\ scan'[w].epoch = e
  BY <1>2, <1>3, GotoAfter, GotoStays DEF Reading, Vetted, WellFormed
<1>5. UNCHANGED <<box, top, epoch>> /\ \A v \in Scanner \ {w} : scan'[v] = scan[v]
  BY ScanKeeps
<1>6. \A f \in Folder : RowsKept(f)
  BY <1>2 DEF RowsKept
<1>7. CASE a = "adopt"
  <2>1. SetUidvalidity(h, e)
    BY <1>1, <1>3, <1>7 DEF Adopt, PassedOver
  <2>2. At(w, h, {"adopt", "confirm"})
    BY <1>1, <1>3, <1>7 DEF At
  <2>3. LiveAt(h)'
    BY <1>2, <1>3, <1>4, <1>5, <2>1, <2>2, DatedLive
  <2>4. \A g \in Folder \ {h} : StoredEpoch(g)' = StoredEpoch(g) /\ LastUid(g)' = LastUid(g)
    BY <1>2, <2>1, SyncDated DEF WellFormed
  <2> QED BY <1>3, <1>4, <1>6, <2>3, <2>4, RestElsewhere
<1>8. CASE a = "restate"
  <2>1. RestartSync(h, e)
    BY <1>1, <1>3, <1>8 DEF Restate, PassedOver
  <2>2. At(w, h, {"restate"})
    BY <1>1, <1>3, <1>8 DEF At
  <2>3. LiveAt(h)'
    BY <1>2, <1>3, <1>4, <1>5, <2>1, <2>2, RestartedLive
  <2>4. \A g \in Folder \ {h} : StoredEpoch(g)' = StoredEpoch(g) /\ LastUid(g)' = LastUid(g)
    BY <1>2, <2>1, SyncRestarted DEF WellFormed
  <2> QED BY <1>3, <1>4, <1>6, <2>3, <2>4, RestElsewhere
<1> QED BY <1>7, <1>8

LEMMA AdvanceLive ==
    ASSUME WellFormed, PastInv, NEW w \in Scanner, Scans(w), \A f \in Folder : LiveAt(f), Advance(w)
    PROVE  \A f \in Folder : LiveAt(f)'
<1>1. scan[w].at = "next" /\ scan[w].at \in Reading /\ scan[w].queue = {} /\ UNCHANGED <<cached, lastId>>
  BY DEF Advance, Reading, Vetted, Late
<1>2. PICK h \in Folder, s \in Nat : h = F(w) /\ s = scan[w].seen
  BY <1>1, ReadingAt DEF WellFormed
<1>3. CASE NextFolder(w) /\ UNCHANGED sync
  <2>1. scan'[w].at \notin Vetted
    BY <1>1, <1>3, NextFolderMoves DEF Vetted, Late, WellFormed
  <2> QED BY <1>1, <1>3, <2>1, AllElsewhere
<1>4. CASE Goto(w, "confirm") /\ (SetLastSyncedUid(h, s) \/ UNCHANGED sync)
  <2>1. scan'[w].at = "confirm" /\ Stays(w) /\ scan'[w].epoch = scan[w].epoch
    BY <1>1, <1>4, GotoAfter, GotoStays DEF Reading, Vetted, Late, WellFormed
  <2>2. \A f \in Folder : RowsKept(f)
    BY <1>1 DEF RowsKept
  <2>3. CASE UNCHANGED sync
    <3>1. scan[w].at \in Vetted /\ scan[w].at \in Trusting /\ scan[w].at \in Late
      BY <1>1 DEF Vetted, Trusting, Late
    <3>2. scan'[w].at \notin Working /\ scan'[w].at # "write"
      BY <2>1 DEF Working
    <3> QED BY <1>2, <2>1, <2>2, <2>3, <3>1, <3>2, StepHere
  <2>4. CASE SetLastSyncedUid(h, s)
    <3>1. At(w, h, {"next"}) /\ At(w, h, {"confirm"})'
      BY <1>1, <1>2, <2>1 DEF At, Stays, F
    <3>2. UNCHANGED <<box, top, epoch>> /\ \A v \in Scanner \ {w} : scan'[v] = scan[v]
      BY ScanKeeps
    <3>3. LiveAt(h)'
      BY <1>1, <1>2, <2>1, <2>4, <3>1, <3>2, AdvancedLive
    <3>4. \A g \in Folder \ {h} : StoredEpoch(g)' = StoredEpoch(g) /\ LastUid(g)' = LastUid(g)
      BY <1>1, <2>4, SyncAdvanced DEF WellFormed
    <3> QED BY <1>2, <2>1, <2>2, <3>3, <3>4, RestElsewhere
  <2> QED BY <1>4, <2>3, <2>4
<1> QED BY <1>2, <1>3, <1>4 DEF Advance

LEMMA ConfirmLive ==
    ASSUME WellFormed, PastInv, NEW w \in Scanner, Scans(w), \A f \in Folder : LiveAt(f), Confirm(w)
    PROVE  \A f \in Folder : LiveAt(f)'
<1>1. scan[w].at = "confirm" /\ scan[w].at \in Reading /\ UNCHANGED <<cached, lastId>>
  BY DEF Confirm, Reading, Vetted, Late
<1>2. PICK h \in Folder, e \in Nat : h = F(w) /\ e = scan[w].epoch
  BY <1>1, ReadingAt DEF WellFormed
<1>3. scan'[w].at \notin Vetted
  BY <1>1, NextFolderMoves DEF Confirm, Vetted, Late, WellFormed
<1>4. CASE UNCHANGED sync
  BY <1>1, <1>3, <1>4, AllElsewhere
<1>5. CASE SetUidvalidity(h, e)
  <2>1. UNCHANGED <<box, top, epoch>> /\ (\A v \in Scanner \ {w} : scan'[v] = scan[v]) /\ scan'[w].epoch \in Nat
    BY ScanKeeps
  <2>2. At(w, h, {"adopt", "confirm"}) /\ \A f : ~At(w, f, Vetted)'
    BY <1>1, <1>2, <1>3 DEF At
  <2>3. LiveAt(h)'
    BY <1>1, <1>2, <1>5, <2>1, <2>2, DatedLive
  <2>4. ASSUME NEW g \in Folder, g # h PROVE LiveAt(g)'
    <3>1. StoredEpoch(g)' = StoredEpoch(g) /\ LastUid(g)' = LastUid(g)
      BY <1>1, <1>5, <2>4, SyncDated DEF WellFormed
    <3>2. RowsKept(g)
      BY <1>1 DEF RowsKept
    <3> QED BY <2>1, <2>2, <3>1, <3>2, ElsewhereLive
  <2> QED BY <2>3, <2>4
<1> QED BY <1>2, <1>4, <1>5 DEF Confirm

\* The steps that throw the cache or its sync state away: no other scan is at work.
LEMMA WipeLive ==
    ASSUME WellFormed, PastInv, NEW w \in Scanner, Scans(w), \A f \in Folder : LiveAt(f), Wipe(w), ~lapsed'
    PROVE  \A f \in Folder : LiveAt(f)'
<1>1. scan[w].at = "wipe" /\ scan[w].at \in Reading /\ UNCHANGED sync
  <2>1. scan[w].at = "wipe" /\ UNCHANGED sync
    BY Zenon DEF Wipe
  <2> QED BY <2>1 DEF Reading
<1>2. PICK h \in Folder : h = F(w)
  BY <1>1, ReadingAt DEF WellFormed
<1>3. PICK a \in {"restate", "disown"} : Goto(w, a) /\ DeleteRows(h)
          /\ lapsed' = (lapsed \/ StoredEpoch(h) = epoch[h] \/ \E v \in Scanner \ {w} : Busy(v))
  <2>1. ~PassedOver
    BY DEF PassedOver
  <2> QED BY <1>2, <2>1, Zenon DEF Wipe
<1>4. StoredEpoch(h) # epoch[h] /\ \A v \in Scanner \ {w} : scan[v].at = "idle"
  BY <1>3, Zenon DEF Busy
<1>5. scan'[w].at = a /\ Stays(w)
  BY <1>1, <1>3, GotoAfter, GotoStays DEF Reading, Vetted, WellFormed
<1>6. \A x \in Scanner : scan'[x].at \in {"idle", "restate", "disown"}
  BY <1>4, <1>5, ScanKeeps
<1>7. UNCHANGED epoch /\ \A f : StoredEpoch(f)' = StoredEpoch(f) /\ LastUid(f)' = LastUid(f)
  BY <1>1, ScanKeeps DEF StoredEpoch, LastUid
<1>8. LiveAt(h)'
  <2>1. \A x \in Scanner : /\ ~At(x, h, Late)' /\ ~At(x, h, {"fetch"} \cup Late)' /\ ~At(x, h, Trusting)'
                           /\ ~At(x, h, Working)' /\ ~At(x, h, {"write"})'
    BY <1>6 DEF At, Late, Trusting, Working
  <2>2. ~Claimed(h)'
    BY <1>4, <1>7, <2>1 DEF Claimed
  <2>3. StoredEpoch(h)' = 0 => LastUid(h)' = 0
    BY <1>2, <1>7 DEF LiveAt
  <2> QED BY <2>1, <2>2, <2>3 DEF LiveAt
<1>9. \A g \in Folder \ {h} : RowsKept(g)
  BY <1>3 DEF RowsKept, DeleteRows, RowsIn
<1> QED BY <1>2, <1>5, <1>7, <1>8, <1>9, RestElsewhere

LEMMA ClearLive ==
    ASSUME WellFormed, PastInv, NEW w \in Scanner, Scans(w), \A f \in Folder : LiveAt(f), Clear(w), ~lapsed'
    PROVE  \A f \in Folder : LiveAt(f)'
<1>1. scan'[w].at = "select" /\ UNCHANGED cached
  BY GotoAfter DEF Clear, WellFormed
<1>2. CASE UNCHANGED sync
  BY <1>1, <1>2, AllElsewhere DEF Vetted, Late
<1>3. CASE ClearLastSyncedUid /\ lapsed' = (lapsed \/ \E v \in Scanner \ {w} : Busy(v))
  <2>1. \A v \in Scanner \ {w} : scan[v].at = "idle"
    BY <1>3, Zenon DEF Busy
  <2>2. \A x \in Scanner : scan'[x].at \in {"idle", "select"}
    BY <1>1, <2>1, ScanKeeps
  <2>3. ASSUME NEW f \in Folder PROVE LiveAt(f)'
    <3>1. \A x \in Scanner : /\ ~At(x, f, Late)' /\ ~At(x, f, {"fetch"} \cup Late)' /\ ~At(x, f, Trusting)'
                             /\ ~At(x, f, Working)' /\ ~At(x, f, {"write"})'
      BY <2>2 DEF At, Late, Trusting, Working
    <3>2. StoredEpoch(f)' = 0 /\ LastUid(f)' = 0
      BY <1>3, SyncCleared DEF ClearLastSyncedUid
    <3>3. epoch'[f] >= 1
      BY ScanKeeps DEF WellFormed, ServerOK
    <3>4. ~Claimed(f)'
      BY <3>1, <3>2, <3>3 DEF Claimed
    <3> QED BY <3>1, <3>2, <3>4 DEF LiveAt
  <2> QED BY <2>3
<1> QED BY <1>2, <1>3, Zenon DEF Clear

\* A step of a scan.
LEMMA ScanLive ==
    ASSUME WellFormed, PastInv, NEW w \in Scanner, Scans(w), \A f \in Folder : LiveAt(f), ~lapsed'
    PROVE  \A f \in Folder : LiveAt(f)'
<1>1. CASE Start(w, FALSE) \/ Start(w, TRUE) \/ ScanCrashes(w)
  <2>1. scan'[w].at \notin Vetted
    BY <1>1, StartAfter, IdleAfter DEF ScanCrashes, Vetted, Late, WellFormed
  <2> QED BY <1>1, <2>1, AllElsewhere DEF Start, ScanCrashes, cacheVars
<1>2. CASE Select(w)
  <2>1. scan[w].at \in Early /\ UNCHANGED cacheVars
    BY <1>2 DEF Select, Early
  <2>2. scan'[w].at \notin Vetted
    <3>1. CASE DOMAIN box[F(w)] = {}
      BY <1>2, <2>1, <3>1, NextFolderMoves DEF Select, Vetted, Late, WellFormed
    <3>2. CASE DOMAIN box[F(w)] # {}
      BY <1>2, <2>1, <3>2, CheckAfter DEF Vetted, Late, WellFormed
    <3> QED BY <3>1, <3>2
  <2> QED BY <2>1, <2>2, AllElsewhere DEF cacheVars
<1>3. CASE Fold(w)
  <2>1. scan'[w].at \notin Vetted
    BY <1>3, IdleAfter DEF Fold, Vetted, Late, WellFormed
  <2> QED BY <1>3, <2>1, AllElsewhere DEF Fold, cacheVars
<1> QED BY <1>1, <1>2, <1>3, CheckLive, AdoptLive, WipeLive, ClearLive, FetchLive, LookUpLive, WriteLive,
           RestOfFolderLive, AdvanceLive, ConfirmLive DEF Scans, ScanStep

\* The server's steps.
LEMMA GrownLive ==
    ASSUME WellFormed, NEW f \in Folder, LiveAt(f), UNCHANGED scan, UNCHANGED cacheVars,
           epoch'[f] = epoch[f], top'[f] \in Nat, top'[f] >= top[f],
           \A u \in DOMAIN box'[f] : \/ u \in DOMAIN box[f] /\ box'[f][u] = box[f][u]
                                     \/ u \in Nat /\ u > top[f]
    PROVE  LiveAt(f)'
<1>1. UNCHANGED cached /\ UNCHANGED sync /\ top[f] \in Nat
  BY DEF cacheVars, WellFormed, ServerOK
<1>2. \A m : Shown(f, m)' <=> Shown(f, m)
  BY <1>1 DEF Shown
<1>3. StoredEpoch(f)' = StoredEpoch(f) /\ LastUid(f)' = LastUid(f) /\ LastUid(f) \in Nat
  BY <1>1, SyncReads DEF StoredEpoch, LastUid, WellFormed
<1>4. \A x \in Scanner : \A S : At(x, f, S)' <=> At(x, f, S)
  BY DEF At, F
<1>5. Claimed(f)' <=> Claimed(f)
  BY <1>3, <1>4 DEF Claimed
<1>6. Holds(f) => Holds(f)'
  <2> SUFFICES ASSUME Holds(f) PROVE Holds(f)'
    OBVIOUS
  <2>1. LastUid(f)' <= top'[f]
    BY <1>1, <1>3 DEF Holds
  <2>2. ASSUME NEW u \in DOMAIN box'[f], u <= LastUid(f)' PROVE Shown(f, box[f][u])'
    <3>1. u \in DOMAIN box[f] /\ box'[f][u] = box[f][u]
      BY <1>1, <1>3, <2>2 DEF Holds
    <3>2. Shown(f, box[f][u])
      BY <1>3, <2>2, <3>1 DEF Holds
    <3> QED BY <1>1, <3>1, <3>2 DEF Shown
  <2> QED BY <2>1, <2>2 DEF Holds
<1>7. ASSUME NEW x \in Scanner, Tracks(x, f), scan[x] \in Scanning PROVE Tracks(x, f)'
  <2>1. scan[x].seen \in Nat /\ \A q \in scan[x].queue : q.uid \in Nat
    BY <1>7 DEF Scanning
  <2>2. scan'[x].seen <= top'[f] /\ \A q \in scan'[x].queue : q.uid <= top'[f]
    BY <1>1, <1>7, <2>1 DEF Tracks
  <2>3. ASSUME NEW u \in DOMAIN box'[f]
        PROVE  \/ Shown(f, box[f][u])'
               \/ \E q \in scan'[x].queue : q.uid = u /\ q.msg = box'[f][u]
               \/ u > scan'[x].seen /\ \A q \in scan'[x].queue : u > q.uid
    <3>1. CASE u \in DOMAIN box[f] /\ box'[f][u] = box[f][u]
      BY <1>1, <1>7, <3>1 DEF Tracks, Shown
    <3>2. CASE u \in Nat /\ u > top[f]
      BY <1>1, <1>7, <2>1, <3>2 DEF Tracks
    <3> QED BY <3>1, <3>2
  <2> QED BY <2>2, <2>3 DEF Tracks
<1>8. \A x \in Scanner : scan[x] \in Scanning
  BY DEF WellFormed, ScansOK
<1>9. \A x \in Scanner : RowThere(x, f)' <=> RowThere(x, f)
  BY <1>1 DEF RowThere, First
<1>10. \A x \in Scanner : Latest(x, f)' <=> Latest(x, f)
  BY <1>3, <1>4 DEF Latest
<1> QED BY <1>3, <1>4, <1>5, <1>6, <1>7, <1>8, <1>9, <1>10 DEF LiveAt

LEMMA RenumberedLive ==
    ASSUME WellFormed, PastInv, NEW f \in Folder, LiveAt(f), UNCHANGED scan, UNCHANGED cacheVars,
           epoch'[f] = epoch[f] + 1
    PROVE  LiveAt(f)'
<1>1. UNCHANGED cached /\ UNCHANGED sync /\ epoch[f] \in Nat
  BY DEF cacheVars, WellFormed, ServerOK
<1>2. StoredEpoch(f)' = StoredEpoch(f) /\ LastUid(f)' = LastUid(f) /\ StoredEpoch(f) \in Nat
  BY <1>1, SyncReads DEF StoredEpoch, LastUid, WellFormed
<1>3. \A x \in Scanner : \A S : At(x, f, S)' <=> At(x, f, S)
  BY DEF At, F
<1>4. \A x \in Scanner : At(x, f, Reading) => scan[x].epoch <= epoch[f] /\ scan[x].epoch \in Nat
  BY DEF At, PastInv, WellFormed, ScansOK, Scanning
<1>5. \A x \in Scanner : At(x, f, Trusting) \/ At(x, f, Working) => At(x, f, Reading)
  BY DEF At, Trusting, Working, Reading, Vetted, Late
<1>6. \A x \in Scanner : At(x, f, Trusting) \/ At(x, f, Working) => scan[x].epoch # epoch'[f]
  BY <1>1, <1>4, <1>5
<1>7. ~Claimed(f)'
  <2>1. StoredEpoch(f)' # epoch'[f]
    BY <1>1, <1>2 DEF PastInv
  <2> QED BY <1>3, <1>6, <2>1 DEF Claimed
<1>8. \A x \in Scanner : RowThere(x, f)' <=> RowThere(x, f)
  BY <1>1 DEF RowThere, First
<1>9. \A x \in Scanner : Latest(x, f)' <=> Latest(x, f)
  BY <1>2, <1>3 DEF Latest
<1> QED BY <1>2, <1>3, <1>6, <1>7, <1>8, <1>9 DEF LiveAt

LEMMA ServerLive ==
    ASSUME WellFormed, PastInv, ServerStep, NEW f \in Folder
    PROVE  /\ UNCHANGED scan /\ UNCHANGED cacheVars /\ UNCHANGED lapsed
           /\ epoch'[f] = epoch[f] \/ epoch'[f] = epoch[f] + 1
           /\ LiveAt(f) => LiveAt(f)'
<1>1. UNCHANGED scan /\ UNCHANGED cacheVars /\ UNCHANGED lapsed
  BY ServerKept DEF WellFormed
<1>2. top[f] \in Nat /\ DOMAIN box[f] \subseteq 1 .. top[f] /\ f \in DOMAIN box /\ f \in DOMAIN top /\ f \in DOMAIN epoch
  BY DEF WellFormed, ServerOK
<1>3. ASSUME epoch'[f] = epoch[f], UNCHANGED <<box, top>> \/ (box'[f] = box[f] /\ top'[f] = top[f])
      PROVE  LiveAt(f) => LiveAt(f)'
  BY <1>1, <1>2, <1>3, GrownLive
<1>4. ASSUME NEW m \in Message, Arrive(m) PROVE epoch'[f] = epoch[f] /\ (LiveAt(f) => LiveAt(f)')
  <2>1. PICK h \in Folder : /\ top' = [top EXCEPT ![h] = top[h] + 1] /\ UNCHANGED epoch
                            /\ \E b \in [DOMAIN box[h] \cup {top[h] + 1} -> Message] :
                                  /\ box' = [box EXCEPT ![h] = b]
                                  /\ \A u \in DOMAIN box[h] : b[u] = box[h][u]
    BY <1>4, ArriveOK DEF WellFormed
  <2>2. PICK b \in [DOMAIN box[h] \cup {top[h] + 1} -> Message] :
            /\ box' = [box EXCEPT ![h] = b]
            /\ \A u \in DOMAIN box[h] : b[u] = box[h][u]
    BY <2>1
  <2>3. CASE f = h
    <3>1. box'[f] = b /\ top'[f] = top[f] + 1
      BY <1>2, <2>1, <2>2, <2>3
    <3>2. \A u \in DOMAIN b : (u \in DOMAIN box[f] /\ b[u] = box[f][u]) \/ (u \in Nat /\ u > top[f])
      BY <1>2, <2>2, <2>3
    <3> QED BY <1>1, <1>2, <2>1, <3>1, <3>2, GrownLive
  <2>4. CASE f # h
    BY <1>3, <2>1, <2>2, <2>4
  <2> QED BY <2>3, <2>4
<1>5. ASSUME NEW h \in Folder, Renumber(h)
      PROVE  (epoch'[f] = epoch[f] \/ epoch'[f] = epoch[f] + 1) /\ (LiveAt(f) => LiveAt(f)')
  <2>1. PICK n \in Nat : /\ top' = [top EXCEPT ![h] = n] /\ epoch' = [epoch EXCEPT ![h] = epoch[h] + 1]
                         /\ \E b \in [1 .. n -> Message] : box' = [box EXCEPT ![h] = b]
    BY <1>5, RenumberOK DEF WellFormed
  <2>2. CASE f = h
    <3>1. epoch'[f] = epoch[f] + 1
      BY <1>2, <2>1, <2>2
    <3> QED BY <1>1, <3>1, RenumberedLive
  <2>3. CASE f # h
    <3>1. epoch'[f] = epoch[f] /\ box'[f] = box[f] /\ top'[f] = top[f]
      BY <2>1, <2>3
    <3> QED BY <1>3, <3>1
  <2> QED BY <2>2, <2>3
<1>6. ASSUME NEW h \in Folder, NEW v \in DOMAIN box[h], Expunge(h, v)
      PROVE  epoch'[f] = epoch[f] /\ (LiveAt(f) => LiveAt(f)')
  <2>1. UNCHANGED <<top, epoch>>
    BY <1>6, ExpungeOK DEF WellFormed
  <2>2. PICK b \in [DOMAIN box[h] \ {v} -> Message] :
            box' = [box EXCEPT ![h] = b] /\ \A u \in DOMAIN b : b[u] = box[h][u]
    BY <1>6, ExpungeOK DEF WellFormed
  <2>3. CASE f = h
    <3>1. box'[f] = b
      BY <1>2, <2>2, <2>3
    <3>2. \A u \in DOMAIN b : u \in DOMAIN box[f] /\ b[u] = box[f][u]
      BY <2>2, <2>3
    <3> QED BY <1>1, <1>2, <2>1, <3>1, <3>2, GrownLive
  <2>4. CASE f # h
    BY <1>3, <2>1, <2>2, <2>4
  <2> QED BY <2>3, <2>4
<1> QED BY <1>1, <1>4, <1>5, <1>6 DEF ServerStep

IndexInv == WellFormed /\ PastInv /\ (~lapsed => \A f \in Folder : LiveAt(f))

LEMMA IndexStays ==
    ASSUME WellFormed, PastInv, UNCHANGED <<box, top, epoch, scan, lapsed, cacheVars>>
    PROVE  /\ PastInv'
           /\ (~lapsed => \A f \in Folder : LiveAt(f)) => (~lapsed => \A f \in Folder : LiveAt(f))'
<1>1. UNCHANGED cached /\ UNCHANGED sync
  BY DEF cacheVars
<1>2. PastInv'
  BY <1>1 DEF PastInv, StoredEpoch, F
<1>3. \A f \in Folder : /\ StoredEpoch(f)' = StoredEpoch(f) /\ LastUid(f)' = LastUid(f)
                        /\ \A v \in Scanner : \A S : At(v, f, S)' <=> At(v, f, S)
                        /\ \A m : Shown(f, m)' <=> Shown(f, m)
  BY <1>1 DEF StoredEpoch, LastUid, At, F, Shown
<1>4. ASSUME NEW f \in Folder, LiveAt(f) PROVE LiveAt(f)'
  <2>1. (Claimed(f)' <=> Claimed(f)) /\ (Holds(f)' <=> Holds(f))
    BY <1>1, <1>3 DEF Claimed, Holds, Shown
  <2>2. \A x \in Scanner : /\ Latest(x, f)' <=> Latest(x, f)
                           /\ Tracks(x, f)' <=> Tracks(x, f)
                           /\ RowThere(x, f)' <=> RowThere(x, f)
    BY <1>1, <1>3 DEF Latest, Tracks, RowThere, First, Shown
  <2> QED BY <1>3, <1>4, <2>1, <2>2 DEF LiveAt
<1> QED BY <1>2, <1>4

LEMMA IndexKept ==
    ASSUME IndexInv, [Next]_vars
    PROVE  IndexInv'
<1> USE DEF IndexInv
<1>1. WellFormed'
  BY WellFormedKept
<1>2. ASSUME UNCHANGED <<box, top, epoch, scan, lapsed, cacheVars>> PROVE IndexInv'
  BY <1>1, <1>2, IndexStays
<1>3. ASSUME NEW w \in Scanner, Scans(w) PROVE IndexInv'
  <2>1. PastInv'
    BY <1>3, PastKept
  <2>2. ASSUME ~lapsed' PROVE \A f \in Folder : LiveAt(f)'
    <3>1. ~lapsed
      BY <1>3, <2>2, ScanFlags DEF WellFormed
    <3> QED BY <1>3, <2>2, <3>1, ScanLive
  <2> QED BY <1>1, <2>1, <2>2
<1>4. CASE ServerStep
  <2>1. \A f \in Folder : (epoch'[f] = epoch[f] \/ epoch'[f] = epoch[f] + 1) /\ (LiveAt(f) => LiveAt(f)')
    BY <1>4, ServerLive
  <2>2. UNCHANGED scan /\ UNCHANGED sync /\ UNCHANGED lapsed
    BY <1>4, ServerKept DEF WellFormed, cacheVars
  <2>3. PastInv'
    <3>1. \A f \in Folder : epoch[f] \in Nat /\ StoredEpoch(f) \in Nat /\ StoredEpoch(f)' = StoredEpoch(f)
      BY <2>2, SyncReads DEF WellFormed, ServerOK, StoredEpoch
    <3>2. \A x \in Scanner : scan[x].at \in Reading => F(x) \in Folder /\ F(x)' = F(x) /\ scan[x].epoch \in Nat
      BY <2>2, ReadingAt DEF WellFormed, F
    <3>3. \A f \in Folder : StoredEpoch(f)' <= epoch'[f]
      BY <2>1, <3>1 DEF PastInv
    <3>4. ASSUME NEW x \in Scanner, scan'[x].at \in Reading
          PROVE  scan'[x].epoch >= 1 /\ scan'[x].epoch <= epoch'[F(x)']
      BY <2>1, <2>2, <3>1, <3>2, <3>4 DEF PastInv
    <3> QED BY <3>3, <3>4 DEF PastInv
  <2> QED BY <1>1, <2>1, <2>2, <2>3
<1>5. CASE UNCHANGED vars
  BY <1>2, <1>5 DEF vars, scanVars
<1>6. CASE Upgrade
  BY <1>2, <1>6, UpgradeParts
<1>7. CASE BookStep /\ UNCHANGED <<cacheVars, scanVars>>
  BY <1>2, <1>7 DEF scanVars
<1> QED BY <1>3, <1>4, <1>5, <1>6, <1>7, StepTaken

\* The UID the cache says it has reached is true (build_threads and
\* set_last_synced_uid): unless a failure was passed over, or the cache or its
\* sync state was wiped under another scan, every message of a folder up to it
\* has its row, whatever arrives, is expunged or renumbered meanwhile.
THEOREM IndexReachesItsUid == Spec => []IndexCovers
<1>1. Init => IndexInv
  <2> SUFFICES ASSUME Init PROVE IndexInv
    OBVIOUS
  <2>1. \A x \in Scanner : scan[x].at = "idle"
    BY DEF Init, Idle
  <2>2. \A f \in Folder : StoredEpoch(f) = 0 /\ LastUid(f) = 0 /\ epoch[f] = 1
    BY DEF Init, CacheInit, StoredEpoch, LastUid
  <2>3. PastInv
    BY <2>1, <2>2 DEF PastInv, Reading, Vetted, Late
  <2>4. \A f \in Folder : LiveAt(f)
    BY <2>1, <2>2 DEF LiveAt, At, Late, Claimed, Trusting, Working
  <2> QED BY <2>3, <2>4, WellFormedAtFirst DEF IndexInv
<1>2. IndexInv /\ [Next]_vars => IndexInv'
  BY IndexKept
<1>3. IndexInv => IndexCovers
  <2> SUFFICES ASSUME IndexInv, ~lapsed, NEW f \in Folder, StoredEpoch(f) = epoch[f],
                      NEW u \in DOMAIN box[f], u <= LastUid(f)
               PROVE  RowsFor(f, box[f][u]) # {}
    BY DEF IndexCovers
  <2>1. Shown(f, box[f][u])
    BY DEF IndexInv, LiveAt, Claimed, Holds
  <2> QED BY <2>1 DEF Shown, RowsFor, RowsIn
<1> QED BY <1>1, <1>2, <1>3, PTL DEF Spec
=============================================================================
