--------------------------- MODULE MailroomProofs ---------------------------
(***************************************************************************)
(* What the commands on messages promise, for any number of messages,      *)
(* folders and programs: a message nobody asked to delete keeps a copy     *)
(* without \Deleted, a bulk call reports as done what was done, and a      *)
(* return moves the message its row was written for.                       *)
(*                                                                         *)
(* The first is inductive with the copy that is Clear: not marked, and not *)
(* about to be marked by a move that has copied it.  A move makes such a   *)
(* copy before it endangers one.  The last is a count: every row has to    *)
(* itself a copy of its message in Snoozed, so the search by Message-ID    *)
(* finds one, and the UID of the row is not needed.                        *)
(***************************************************************************)
EXTENDS Mailroom, FiniteSetTheorems, SequenceTheorems, TLAPS

Job == [at : At, task : Task, by : {"cli", "dashboard"}, delete : BOOLEAN,
        from : Folder \cup {Nobody}, to : Folder \cup {Nobody}, now : SUBSET Nat,
        rest : SUBSET Nat, batch : BOOLEAN, done : SUBSET Nat, failed : SUBSET Nat,
        row : Row \cup {Nobody}, queue : SUBSET Row, met : SUBSET Nat]

\* What a program has at hand at the step it is at.
AtHand(j) ==
    /\ j.at \in {"copy", "mark", "expunge"} => j.from \in Folder /\ j.to \in Folder
    /\ j.at \in {"copy", "mark", "expunge"} => j.task # "none"
    /\ j.at = "record" => j.task = "snooze"
    /\ j.task = "snooze" => j.row \in Row /\ j.from \in Folder /\ j.to \in Folder
    /\ j.task \in FolderPrograms => j.from = Inbox /\ j.to = Archive

MailOK ==
    /\ mail \in [Folder -> Seq(Copy \cup {Nobody})]
    /\ \A f \in Folder : Len(mail[f]) <= MaxUid
JobsOK == job \in [Worker -> Job] /\ \A w \in Worker : AtHand(job[w])
RowsOK == rows \subseteq Row /\ ever \subseteq Row /\ IsFiniteSet(ever)

TypeOK == MailOK /\ JobsOK /\ RowsOK /\ time \in 0 .. MaxTime

LEMMA NobodyIsNone ==
    /\ Nobody \notin Copy /\ Nobody \notin Folder
    /\ Inbox \in Folder /\ Archive \in Folder /\ Snoozed \in Folder /\ Inbox # Archive
BY NobodyAssumption, FoldersAssumption DEF Copy

-----------------------------------------------------------------------------
(* The folders.                                                            *)

LEMMA HeldUids ==
    ASSUME MailOK, NEW f \in Folder
    PROVE  /\ Held(f) \subseteq Uid /\ Held(f) \subseteq Nat /\ IsFiniteSet(Held(f))
           /\ DOMAIN mail[f] = 1 .. Len(mail[f]) /\ Len(mail[f]) \in Nat
           /\ \A u \in DOMAIN mail[f] : mail[f][u] \in Copy \cup {Nobody}
           /\ \A u \in Held(f) : mail[f][u] \in Copy /\ mail[f][u].msg \in Message
<1>1. mail[f] \in Seq(Copy \cup {Nobody}) /\ Len(mail[f]) <= MaxUid
  BY DEF MailOK
<1>2. DOMAIN mail[f] = 1 .. Len(mail[f]) /\ Len(mail[f]) \in Nat
  BY <1>1
<1>3. \A u \in DOMAIN mail[f] : mail[f][u] \in Copy \cup {Nobody}
  BY <1>1, <1>2
<1>4. Held(f) \subseteq 1 .. Len(mail[f])
  BY <1>2 DEF Held
<1>5. Held(f) \subseteq Uid
  <2>1. MaxUid \in Nat
    BY MaxUidAssumption
  <2> SUFFICES ASSUME NEW u \in 1 .. Len(mail[f]) PROVE u \in 1 .. MaxUid
    BY <1>4 DEF Uid
  <2> QED BY <1>1, <1>2, <2>1
<1>6. IsFiniteSet(Held(f))
  <2>1. IsFiniteSet(1 .. Len(mail[f]))
    BY <1>2, FS_Interval
  <2> QED BY <1>4, <2>1, FS_Subset
<1>7. \A u \in Held(f) : mail[f][u] \in Copy /\ mail[f][u].msg \in Message
  BY <1>3 DEF Held, Copy
<1> QED BY <1>2, <1>3, <1>4, <1>5, <1>6, <1>7

\* Every UID of a set is one of its UIDs in order.
LEMMA InOrderCovers ==
    ASSUME NEW S \in SUBSET Nat, IsFiniteSet(S)
    PROVE  /\ Cardinality(S) \in Nat
           /\ InOrder(S) \in [1 .. Cardinality(S) -> S]
           /\ \A u \in S : \E i \in 1 .. Cardinality(S) : InOrder(S)[i] = u
<1> DEFINE below(u) == {v \in S : v <= u}
           rank == [u \in S |-> Cardinality(below(u))]
           n == Cardinality(S)
<1>1. n \in Nat
  BY FS_CardinalityType
<1>2. ASSUME NEW u \in S
      PROVE  IsFiniteSet(below(u)) /\ Cardinality(below(u)) \in 1 .. n
  <2>1. below(u) \subseteq S /\ u \in below(u)
    OBVIOUS
  <2>2. IsFiniteSet(below(u)) /\ Cardinality(below(u)) <= n
    BY <2>1, FS_Subset
  <2>3. Cardinality(below(u)) \in Nat /\ Cardinality(below(u)) # 0
    BY <2>1, <2>2, FS_CardinalityType, FS_EmptySet
  <2> QED BY <1>1, <2>2, <2>3
<1>3. ASSUME NEW u \in S, NEW v \in S, Cardinality(below(u)) = Cardinality(below(v))
      PROVE  u = v
  <2>1. ASSUME NEW x \in S, NEW y \in S, x <= y
        PROVE  below(x) \subseteq below(y)
    <3> SUFFICES ASSUME NEW z \in S, z <= x PROVE z <= y
      OBVIOUS
    <3>1. z \in Nat /\ x \in Nat /\ y \in Nat
      OBVIOUS
    <3> QED BY <2>1, <3>1
  <2>2. below(u) = below(v)
    <3>1. CASE u <= v
      BY <1>2, <1>3, <2>1, <3>1, FS_Subset
    <3>2. CASE v <= u
      BY <1>2, <1>3, <2>1, <3>2, FS_Subset
    <3> QED BY <3>1, <3>2
  <2>3. u \in below(u) /\ v \in below(v)
    OBVIOUS
  <2> QED BY <2>2, <2>3
<1>4. rank \in Injection(S, 1 .. n)
  BY <1>2, <1>3 DEF Injection, IsInjective
<1>5. IsFiniteSet(1 .. n) /\ Cardinality(1 .. n) = n
  BY <1>1, FS_Interval
<1>6. rank \in Surjection(S, 1 .. n)
  BY <1>4, <1>5, FS_Injection
<1>7. \A i \in 1 .. n : \E u \in S : Cardinality(below(u)) = i
  BY <1>6 DEF Surjection
<1>8. InOrder(S) = [i \in 1 .. n |-> CHOOSE u \in S : Cardinality(below(u)) = i]
  BY DEF InOrder
<1>9. InOrder(S) \in [1 .. n -> S]
  BY <1>7, <1>8
<1>10. ASSUME NEW u \in S PROVE InOrder(S)[Cardinality(below(u))] = u
  <2>1. PICK i \in 1 .. n : i = Cardinality(below(u))
    BY <1>2
  <2>2. InOrder(S)[i] = CHOOSE v \in S : Cardinality(below(v)) = i
    BY <1>8
  <2>3. (CHOOSE v \in S : Cardinality(below(v)) = i) \in {v \in S : Cardinality(below(v)) = i}
    BY <2>1
  <2>4. \A v \in S : Cardinality(below(v)) = i => v = u
    BY <1>3, <2>1
  <2> QED BY <2>1, <2>2, <2>3, <2>4
<1> QED BY <1>1, <1>2, <1>9, <1>10

-----------------------------------------------------------------------------
(* The commands, and what they do to the folders.                          *)

LEMMA Concatenated ==
    ASSUME NEW X, NEW s \in Seq(X), NEW n \in Nat, NEW t \in [1 .. n -> X]
    PROVE  /\ s \o t \in Seq(X) /\ Len(s) \in Nat /\ DOMAIN s = 1 .. Len(s)
           /\ DOMAIN (s \o t) = 1 .. Len(s) + n
           /\ \A i \in 1 .. Len(s) : (s \o t)[i] = s[i]
           /\ \A i \in 1 .. n : (s \o t)[Len(s) + i] = t[i]
<1>1. t \in Seq(X) /\ Len(t) = n
  OBVIOUS
<1>2. Len(s) \in Nat /\ DOMAIN s = 1 .. Len(s)
  BY LenProperties
<1>3. /\ s \o t \in Seq(X) /\ Len(s \o t) = Len(s) + n
      /\ \A i \in 1 .. Len(s) + n : (s \o t)[i] = IF i <= Len(s) THEN s[i] ELSE t[i - Len(s)]
  BY <1>1, ConcatProperties
<1>4. DOMAIN (s \o t) = 1 .. Len(s) + n
  BY <1>3, LenProperties
<1>5. \A i \in 1 .. Len(s) : (s \o t)[i] = s[i]
  BY <1>2, <1>3
<1>6. ASSUME NEW i \in 1 .. n PROVE (s \o t)[Len(s) + i] = t[i]
  <2>1. Len(s) + i \in 1 .. Len(s) + n /\ ~(Len(s) + i <= Len(s)) /\ Len(s) + i - Len(s) = i
    BY <1>2
  <2> QED BY <1>3, <2>1
<1> QED BY <1>2, <1>3, <1>4, <1>5, <1>6

\* A COPY leaves every message where it is, every message named has a copy
\* under a UID that is new, and no other message has one.
LEMMA CopyAppends ==
    ASSUME TypeOK, NEW w \in Worker, CopyMessages(w)
    PROVE  /\ MailOK'
           /\ \A f \in Folder : DOMAIN mail[f] \subseteq DOMAIN mail'[f]
           /\ \A f \in Folder : \A u \in DOMAIN mail[f] : mail'[f][u] = mail[f][u]
           /\ \A f \in Folder : f # job[w].to => mail'[f] = mail[f]
           /\ \A u \in job[w].now \cap Held(job[w].from) :
                  \E p \in DOMAIN mail'[job[w].to] :
                      /\ p \notin DOMAIN mail[job[w].to]
                      /\ mail'[job[w].to][p] = mail[job[w].from][u]
           /\ \A p \in DOMAIN mail'[job[w].to] \ DOMAIN mail[job[w].to] :
                  \E u \in job[w].now \cap Held(job[w].from) :
                      mail'[job[w].to][p] = mail[job[w].from][u]
<1>1. PICK from \in Folder, to \in Folder : from = job[w].from /\ to = job[w].to
  BY DEF TypeOK, JobsOK, AtHand, CopyMessages
<1>2. PICK S : S = job[w].now \cap Held(from)
  OBVIOUS
<1>3. S \in SUBSET Nat /\ IsFiniteSet(S) /\ \A u \in S : mail[from][u] \in Copy
  BY <1>2, HeldUids, FS_Subset DEF TypeOK
<1>14. PICK n \in Nat : n = Cardinality(S)
  BY <1>3, InOrderCovers
<1>4. PICK order \in [1 .. n -> S] :
          order = InOrder(S) /\ \A u \in S : \E i \in 1 .. n : order[i] = u
  BY <1>3, <1>14, InOrderCovers
<1> DEFINE new == [i \in 1 .. n |-> mail[from][order[i]]]
<1>5. mail' = [mail EXCEPT ![to] = @ \o new] /\ \A f \in Folder : Len(mail'[f]) <= MaxUid
  <2>1. InOrder(job[w].now \cap Held(job[w].from)) = order /\ DOMAIN order = 1 .. n
    BY <1>1, <1>2, <1>4
  <2>2. new = [i \in DOMAIN order |-> mail[from][order[i]]]
    BY <2>1
  <2>3. mail' = AppendCopies(w) /\ \A f \in Folder : Len(mail'[f]) <= MaxUid
    BY DEF CopyMessages
  <2>4. AppendCopies(w) = [mail EXCEPT ![to] = @ \o [i \in DOMAIN order |-> mail[from][order[i]]]]
    BY <1>1, <2>1, Zenon DEF AppendCopies
  <2> HIDE DEF new
  <2> QED BY <2>2, <2>3, <2>4
<1>6. /\ new \in [1 .. n -> Copy \cup {Nobody}]
      /\ \A i \in 1 .. n : new[i] = mail[from][order[i]]
  BY <1>3, <1>4
<1>7. PICK old : old = mail[to]
  OBVIOUS
<1>8. old \in Seq(Copy \cup {Nobody}) /\ mail \in [Folder -> Seq(Copy \cup {Nobody})]
  BY <1>7 DEF TypeOK, MailOK
<1> HIDE DEF new
<1>9. /\ old \o new \in Seq(Copy \cup {Nobody})
      /\ DOMAIN (old \o new) = 1 .. Len(old) + n
      /\ \A i \in 1 .. Len(old) : (old \o new)[i] = old[i]
      /\ \A i \in 1 .. n : (old \o new)[Len(old) + i] = new[i]
      /\ DOMAIN old = 1 .. Len(old) /\ Len(old) \in Nat
  BY <1>6, <1>8, Concatenated
<1>10. mail'[to] = old \o new /\ \A f \in Folder \ {to} : mail'[f] = mail[f]
  BY <1>5, <1>7, <1>8
<1>11. MailOK'
  BY <1>5, <1>7, <1>8, <1>9 DEF MailOK
<1>12. \A f \in Folder : /\ DOMAIN mail[f] \subseteq DOMAIN mail'[f]
                         /\ \A u \in DOMAIN mail[f] : mail'[f][u] = mail[f][u]
  <2> SUFFICES ASSUME NEW f \in Folder
               PROVE  /\ DOMAIN mail[f] \subseteq DOMAIN mail'[f]
                      /\ \A u \in DOMAIN mail[f] : mail'[f][u] = mail[f][u]
    OBVIOUS
  <2>1. CASE f # to
    BY <1>10, <2>1
  <2>2. CASE f = to
    <3>1. 1 .. Len(old) \subseteq 1 .. Len(old) + n
      BY <1>9
    <3>2. mail[f] = old /\ mail'[f] = old \o new
      BY <1>7, <1>10, <2>2
    <3> QED BY <1>9, <3>1, <3>2
  <2> QED BY <2>1, <2>2
<1>13. ASSUME NEW u \in S
       PROVE  \E p \in DOMAIN mail'[to] : p \notin DOMAIN mail[to] /\ mail'[to][p] = mail[from][u]
  <2>1. PICK i \in 1 .. n : order[i] = u
    BY <1>4
  <2>2. /\ Len(old) + i \in 1 .. Len(old) + n /\ Len(old) + i \notin 1 .. Len(old)
        /\ (old \o new)[Len(old) + i] = mail[from][u]
    BY <1>4, <1>6, <1>9, <2>1
  <2> QED BY <1>7, <1>9, <1>10, <2>2
<1>15. ASSUME NEW p \in DOMAIN mail'[to] \ DOMAIN mail[to]
       PROVE  \E u \in S : mail'[to][p] = mail[from][u]
  <2>1. p \in 1 .. Len(old) + n /\ p \notin 1 .. Len(old)
    BY <1>7, <1>9, <1>10
  <2>2. PICK i \in 1 .. n : p = Len(old) + i
    <3>1. PICK k \in Nat : k = Len(old)
      BY <1>9
    <3>2. p \in 1 .. k + n /\ p \notin 1 .. k
      BY <2>1, <3>1
    <3>3. p \in Int /\ p <= k + n /\ k < p
      BY <3>1, <3>2
    <3>4. p - k \in 1 .. n /\ p = k + (p - k)
      BY <3>1, <3>3
    <3> QED BY <3>1, <3>4
  <2>3. mail'[to][p] = mail[from][order[i]] /\ order[i] \in S
    BY <1>4, <1>6, <1>9, <1>10, <2>2
  <2> QED BY <2>3
<1>16. \A p \in DOMAIN mail'[job[w].to] \ DOMAIN mail[job[w].to] :
           \E u \in job[w].now \cap Held(job[w].from) : mail'[job[w].to][p] = mail[job[w].from][u]
  BY <1>1, <1>2, <1>15, Zenon
<1> QED BY <1>1, <1>2, <1>10, <1>11, <1>12, <1>13, <1>16

\* A STORE or an expunge of the folder a program works on, as a map of its
\* entries.
LEMMA FolderMapped ==
    ASSUME MailOK, NEW f \in Folder, NEW box, DOMAIN box = DOMAIN mail[f],
           \A u \in DOMAIN mail[f] : box[u] \in Copy \cup {Nobody},
           box = [u \in DOMAIN mail[f] |-> box[u]],
           mail' = [mail EXCEPT ![f] = box]
    PROVE  /\ MailOK'
           /\ mail'[f] = box /\ \A g \in Folder : DOMAIN mail'[g] = DOMAIN mail[g]
           /\ \A g \in Folder \ {f} : mail'[g] = mail[g]
<1>1. DOMAIN mail[f] = 1 .. Len(mail[f]) /\ Len(mail[f]) \in Nat
  BY HeldUids
<1>2. box \in Seq(Copy \cup {Nobody}) /\ Len(box) = Len(mail[f])
  BY <1>1
<1>3. mail \in [Folder -> Seq(Copy \cup {Nobody})]
  BY DEF MailOK
<1> QED BY <1>2, <1>3 DEF MailOK

LEMMA MarkFlags ==
    ASSUME TypeOK, NEW w \in Worker, MarkDeleted(w)
    PROVE  /\ MailOK'
           /\ \A f \in Folder : DOMAIN mail'[f] = DOMAIN mail[f]
           /\ \A f \in Folder : \A u \in DOMAIN mail[f] :
                  \/ mail'[f][u] = mail[f][u]
                  \/ /\ f = job[w].from /\ u \in job[w].now /\ u \in Held(f)
                     /\ mail'[f][u] = [mail[f][u] EXCEPT !.flagged = TRUE]
                     /\ mail'[f][u] \in Copy
<1>1. PICK f \in Folder : f = job[w].from
  BY DEF TypeOK, JobsOK, AtHand, MarkDeleted
<1> DEFINE box == [u \in DOMAIN mail[f] |->
                      IF u \in job[w].now /\ mail[f][u] # Nobody
                      THEN [mail[f][u] EXCEPT !.flagged = TRUE] ELSE mail[f][u]]
<1>2. CASE UNCHANGED mail
  BY <1>2 DEF TypeOK, MailOK
<1>3. CASE mail' = [mail EXCEPT ![f] = box]
  <2>1. MailOK /\ \A u \in DOMAIN mail[f] : mail[f][u] \in Copy \cup {Nobody}
    BY HeldUids DEF TypeOK
  <2>2. \A u \in DOMAIN mail[f] :
            mail[f][u] # Nobody => [mail[f][u] EXCEPT !.flagged = TRUE] \in Copy
    BY <2>1 DEF Copy
  <2>3. /\ DOMAIN box = DOMAIN mail[f] /\ box = [u \in DOMAIN mail[f] |-> box[u]]
        /\ \A u \in DOMAIN mail[f] : box[u] \in Copy \cup {Nobody}
    BY <2>1, <2>2
  <2>4. \A u \in DOMAIN mail[f] :
            \/ box[u] = mail[f][u]
            \/ /\ u \in job[w].now /\ u \in Held(f)
               /\ box[u] = [mail[f][u] EXCEPT !.flagged = TRUE] /\ box[u] \in Copy
    BY <2>2 DEF Held
  <2>5. PICK b : b = box
    OBVIOUS
  <2> HIDE DEF box
  <2>6. /\ MailOK' /\ mail'[f] = b
        /\ \A g \in Folder : DOMAIN mail'[g] = DOMAIN mail[g]
        /\ \A g \in Folder \ {f} : mail'[g] = mail[g]
    BY <1>3, <2>1, <2>3, <2>5, FolderMapped
  <2> QED BY <1>1, <2>4, <2>5, <2>6
<1> QED BY <1>1, <1>2, <1>3 DEF MarkDeleted

LEMMA ExpungeRemoves ==
    ASSUME TypeOK, NEW w \in Worker, NEW after, Expunge(w, after)
    PROVE  /\ MailOK'
           /\ \A f \in Folder : DOMAIN mail'[f] = DOMAIN mail[f]
           /\ \A f \in Folder : \A u \in DOMAIN mail[f] :
                  \/ mail'[f][u] = mail[f][u]
                  \/ /\ f = job[w].from /\ u \in Expunged(w) /\ u \in Held(f)
                     /\ mail[f][u].flagged /\ mail'[f][u] = Nobody
<1>1. PICK f \in Folder : f = job[w].from
  BY DEF TypeOK, JobsOK, AtHand, Expunge
<1> DEFINE box == [u \in DOMAIN mail[f] |->
                      IF u \in Expunged(w) /\ mail[f][u] # Nobody /\ mail[f][u].flagged
                      THEN Nobody ELSE mail[f][u]]
<1>2. CASE UNCHANGED mail
  BY <1>2 DEF TypeOK, MailOK
<1>3. CASE mail' = [mail EXCEPT ![f] = box]
  <2>1. MailOK /\ \A u \in DOMAIN mail[f] : mail[f][u] \in Copy \cup {Nobody}
    BY HeldUids DEF TypeOK
  <2>2. /\ DOMAIN box = DOMAIN mail[f] /\ box = [u \in DOMAIN mail[f] |-> box[u]]
        /\ \A u \in DOMAIN mail[f] : box[u] \in Copy \cup {Nobody}
    BY <2>1
  <2>3. \A u \in DOMAIN mail[f] :
            \/ box[u] = mail[f][u]
            \/ /\ u \in Expunged(w) /\ u \in Held(f) /\ mail[f][u].flagged
               /\ box[u] = Nobody
    BY DEF Held
  <2>4. PICK b : b = box
    OBVIOUS
  <2> HIDE DEF box
  <2>5. /\ MailOK' /\ mail'[f] = b
        /\ \A g \in Folder : DOMAIN mail'[g] = DOMAIN mail[g]
        /\ \A g \in Folder \ {f} : mail'[g] = mail[g]
    BY <1>3, <2>1, <2>2, <2>4, FolderMapped
  <2> QED BY <1>1, <2>3, <2>4, <2>5
<1> QED BY <1>1, <1>2, <1>3 DEF Expunge

-----------------------------------------------------------------------------
(* The programs: each step replaces the job of one.                        *)

LEMMA JobReplaced ==
    ASSUME JobsOK, NEW w \in Worker, NEW j, job' = [job EXCEPT ![w] = j]
    PROVE  /\ job'[w] = j /\ \A v \in Worker \ {w} : job'[v] = job[v]
           /\ j \in Job /\ AtHand(j) => JobsOK'
BY DEF JobsOK

LEMMA IdleIsJob == Idle \in Job /\ AtHand(Idle)
BY DEF Idle, Job, At, Task, AtHand, FolderPrograms

\* A move about to mark a copy it has made another of.
Threatens(j, f, u) == j.at = "mark" /\ ~j.delete /\ j.from = f /\ u \in j.now /\ u \in j.met

\* A step leaves the folders and endangers nothing, or is one of the commands.
Others(w) == \A v \in Worker \ {w} : job'[v] = job[v]
Quiet(w) ==
    UNCHANGED folderVars /\ \A f, u : Threatens(job'[w], f, u) => Threatens(job[w], f, u)
Copies(w) ==
    /\ CopyMessages(w)
    /\ job'[w] = [job[w] EXCEPT !.at = "mark", !.met = job[w].now \cap Held(job[w].from)]
Marks(w) == MarkDeleted(w) /\ job'[w] = [job[w] EXCEPT !.at = "expunge"]
Expunges(w) ==
    /\ \E after : Expunge(w, after)
    /\ job'[w].at \in {"next", "record", "forget", "report"}

MailStep(w) == Others(w) /\ (Quiet(w) \/ Copies(w) \/ Marks(w) \/ Expunges(w))

LEMMA Replaces ==
    ASSUME JobsOK, NEW w \in Worker, NEW j \in Job, AtHand(j), job' = [job EXCEPT ![w] = j],
           UNCHANGED folderVars, \A f, u : Threatens(j, f, u) => Threatens(job[w], f, u)
    PROVE  JobsOK' /\ MailStep(w)
BY JobReplaced DEF MailStep, Others, Quiet

LEMMA GoneOn ==
    ASSUME JobsOK, NEW w \in Worker, NEW at \in {"next", "record", "forget", "report"},
           at = "record" => job[w].task = "snooze", Goto(w, at)
    PROVE  JobsOK' /\ Others(w) /\ job'[w] = [job[w] EXCEPT !.at = at]
<1> DEFINE j == [job[w] EXCEPT !.at = at]
<1>1. job[w] \in Job /\ AtHand(job[w])
  BY DEF JobsOK
<1>2. j \in Job /\ AtHand(j)
  BY <1>1 DEF Job, At, AtHand
<1>3. job' = [job EXCEPT ![w] = j]
  BY DEF Goto
<1> HIDE DEF j
<1>4. JobsOK' /\ job'[w] = j /\ Others(w)
  BY <1>2, <1>3, JobReplaced DEF Others
<1> QED BY <1>4 DEF j

LEMMA GoneOnQuiet ==
    ASSUME JobsOK, NEW w \in Worker, NEW at \in {"next", "forget", "report"},
           Goto(w, at), UNCHANGED folderVars
    PROVE  JobsOK' /\ MailStep(w)
<1>1. JobsOK' /\ Others(w) /\ job'[w] = [job[w] EXCEPT !.at = at]
  BY GoneOn
<1>2. job'[w].at = at
  BY <1>1 DEF JobsOK, Job
<1> QED BY <1>1, <1>2 DEF MailStep, Quiet, Threatens

LEMMA Stopped ==
    ASSUME JobsOK, NEW w \in Worker, job' = [job EXCEPT ![w] = Idle], UNCHANGED folderVars
    PROVE  JobsOK' /\ MailStep(w)
BY IdleIsJob, Replaces DEF Threatens, Idle

LEMMA CopyStep ==
    ASSUME JobsOK, NEW w \in Worker, CopyMessages(w)
    PROVE  JobsOK' /\ MailStep(w) /\ Copies(w)
<1> DEFINE met == job[w].now \cap Held(job[w].from)
           j == [job[w] EXCEPT !.at = "mark", !.met = met]
<1>1. job[w] \in Job /\ AtHand(job[w])
  BY DEF JobsOK
<1>2. met \subseteq Nat
  BY <1>1 DEF Job
<1>3. job[w].at = "copy"
  BY DEF CopyMessages
<1>4. job' = [job EXCEPT ![w] = j]
  BY DEF CopyMessages
<1> HIDE DEF met
<1>5. j \in Job /\ AtHand(j)
  BY <1>1, <1>2, <1>3 DEF Job, At, AtHand
<1> HIDE DEF j
<1>6. JobsOK' /\ job'[w] = j /\ Others(w)
  BY <1>4, <1>5, JobReplaced DEF Others
<1> QED BY <1>6 DEF j, met, MailStep, Copies

LEMMA MarkStep ==
    ASSUME JobsOK, NEW w \in Worker, MarkDeleted(w)
    PROVE  JobsOK' /\ MailStep(w) /\ Marks(w)
<1> DEFINE j == [job[w] EXCEPT !.at = "expunge"]
<1>1. job[w] \in Job /\ AtHand(job[w]) /\ job[w].at = "mark"
  BY DEF JobsOK, MarkDeleted
<1>2. j \in Job /\ AtHand(j)
  BY <1>1 DEF Job, At, AtHand
<1>3. job' = [job EXCEPT ![w] = j]
  BY DEF MarkDeleted, Goto
<1> HIDE DEF j
<1>4. JobsOK' /\ job'[w] = j /\ Others(w)
  BY <1>2, <1>3, JobReplaced DEF Others
<1> QED BY <1>4 DEF j, MailStep, Marks

\* The jobs a program starts with.
LEMMA StartOK ==
    ASSUME JobsOK, NEW w \in Worker, UNCHANGED folderVars, NEW j \in Job, AtHand(j),
           j.at = "mark" => j.delete, job' = [job EXCEPT ![w] = j]
    PROVE  JobsOK' /\ MailStep(w)
BY Replaces DEF Threatens

LEMMA FirstSteps ==
    ASSUME NEW delete \in BOOLEAN
    PROVE  FirstStep(delete) \in At \ {"record"} /\ (FirstStep(delete) = "mark" => delete)
BY DEF FirstStep, At

LEMMA StartBulkOK ==
    ASSUME JobsOK, NEW w \in Worker, UNCHANGED folderVars, NEW delete \in BOOLEAN,
           NEW uids \in SUBSET Nat, StartBulk(w, delete, Inbox, Archive, uids)
    PROVE  JobsOK' /\ MailStep(w)
<1>1. PICK at \in At \ {"record"} : at = FirstStep(delete) /\ (at = "mark" => delete)
  BY FirstSteps
<1>2. PICK j : j = [Idle EXCEPT !.at = at, !.task = "bulk", !.delete = delete, !.from = Inbox,
                                !.to = Archive, !.now = uids, !.batch = TRUE]
  OBVIOUS
<1>3. job' = [job EXCEPT ![w] = j]
  BY <1>1, <1>2, Zenon DEF StartBulk
<1>4. j = [at |-> at, task |-> "bulk", by |-> "cli", delete |-> delete, from |-> Inbox,
           to |-> Archive, now |-> uids, rest |-> {}, batch |-> TRUE, done |-> {}, failed |-> {},
           row |-> Nobody, queue |-> {}, met |-> {}]
  BY <1>2 DEF Idle
<1>5. j \in Job /\ AtHand(j) /\ (j.at = "mark" => j.delete)
  BY <1>1, <1>4, NobodyIsNone DEF Job, AtHand, Task
<1> QED BY <1>3, <1>5, StartOK

LEMMA StartSingleOK ==
    ASSUME JobsOK, NEW w \in Worker, UNCHANGED folderVars, NEW delete \in BOOLEAN,
           NEW u \in Nat, StartSingle(w, delete, Inbox, Archive, u)
    PROVE  JobsOK' /\ MailStep(w)
<1>1. PICK at \in At \ {"record"} : at = FirstStep(delete) /\ (at = "mark" => delete)
  BY FirstSteps
<1>2. PICK j : j = [Idle EXCEPT !.at = at, !.task = "single", !.by = "dashboard",
                                !.delete = delete, !.from = Inbox, !.to = Archive, !.now = {u}]
  OBVIOUS
<1>3. job' = [job EXCEPT ![w] = j]
  BY <1>1, <1>2, Zenon DEF StartSingle
<1>4. j = [at |-> at, task |-> "single", by |-> "dashboard", delete |-> delete, from |-> Inbox,
           to |-> Archive, now |-> {u}, rest |-> {}, batch |-> FALSE, done |-> {}, failed |-> {},
           row |-> Nobody, queue |-> {}, met |-> {}]
  BY <1>2 DEF Idle
<1>5. j \in Job /\ AtHand(j) /\ (j.at = "mark" => j.delete)
  BY <1>1, <1>4, NobodyIsNone DEF Job, AtHand, Task
<1> QED BY <1>3, <1>5, StartOK

LEMMA StartRulesOK ==
    ASSUME TypeOK, NEW w \in Worker, UNCHANGED folderVars, StartRules(w, Inbox, Archive)
    PROVE  JobsOK' /\ MailStep(w)
<1>1. PICK matched : matched = {u \in Held(Inbox) : RuleAction[mail[Inbox][u].msg] # "keep"}
  OBVIOUS
<1>2. PICK j : j = [Idle EXCEPT !.at = "next", !.task = "rules", !.from = Inbox, !.to = Archive,
                                !.rest = matched]
  OBVIOUS
<1>3. job' = [job EXCEPT ![w] = j]
  BY <1>1, <1>2, Zenon DEF StartRules
<1>4. j = [at |-> "next", task |-> "rules", by |-> "cli", delete |-> FALSE, from |-> Inbox,
           to |-> Archive, now |-> {}, rest |-> matched, batch |-> FALSE, done |-> {},
           failed |-> {}, row |-> Nobody, queue |-> {}, met |-> {}]
  BY <1>2 DEF Idle
<1>5. Held(Inbox) \subseteq Nat
  BY HeldUids, NobodyIsNone DEF TypeOK
<1>6. matched \in SUBSET Nat
  BY <1>1, <1>5
<1>7. j \in Job /\ AtHand(j) /\ (j.at = "mark" => j.delete)
  BY <1>4, <1>6, NobodyIsNone DEF Job, AtHand, Task, At
<1> QED BY <1>3, <1>7, StartOK DEF TypeOK

\* A return knows its folders only when it takes up a row.
LEMMA ReturnStarts ==
    ASSUME JobsOK, NEW w \in Worker, UNCHANGED folderVars, NEW by \in {"cli", "dashboard"},
           NEW queue \in SUBSET Row,
           job' = [job EXCEPT ![w] =
               [Idle EXCEPT !.at = "next", !.task = "return", !.by = by, !.queue = queue]]
    PROVE  JobsOK' /\ MailStep(w)
<1>1. PICK j : j = [Idle EXCEPT !.at = "next", !.task = "return", !.by = by, !.queue = queue]
  OBVIOUS
<1>2. j = [at |-> "next", task |-> "return", by |-> by, delete |-> FALSE, from |-> Nobody,
           to |-> Nobody, now |-> {}, rest |-> {}, batch |-> FALSE, done |-> {}, failed |-> {},
           row |-> Nobody, queue |-> queue, met |-> {}]
  BY <1>1 DEF Idle
<1>3. j \in Job /\ AtHand(j) /\ (j.at = "mark" => j.delete)
  BY <1>2 DEF Job, AtHand, Task, At, FolderPrograms
<1> QED BY <1>1, <1>3, StartOK

LEMMA StartSweepOK ==
    ASSUME TypeOK, NEW w \in Worker, NEW by \in {"cli", "dashboard"}, StartSweep(w, by)
    PROVE  JobsOK' /\ MailStep(w)
<1>1. PICK now : now = IF by = "cli" THEN time + Skew ELSE time
  OBVIOUS
<1>2. PICK queue : queue = SnoozedDue(now, by)
  OBVIOUS
<1>3. job' = [job EXCEPT ![w] =
          [Idle EXCEPT !.at = "next", !.task = "return", !.by = by, !.queue = queue]]
  BY <1>1, <1>2, Zenon DEF StartSweep
<1>4. UNCHANGED folderVars
  BY DEF StartSweep
<1>5. queue \in SUBSET Row
  BY <1>2 DEF SnoozedDue, TypeOK, RowsOK
<1> QED BY <1>3, <1>4, <1>5, ReturnStarts DEF TypeOK

LEMMA StartCancelOK ==
    ASSUME TypeOK, NEW w \in Worker, NEW by \in {"cli", "dashboard"}, NEW row \in rows,
           StartCancel(w, by, row)
    PROVE  JobsOK' /\ MailStep(w)
<1>1. {row} \in SUBSET Row /\ UNCHANGED folderVars
  BY DEF StartCancel, TypeOK, RowsOK
<1>2. PICK queue : queue = {row}
  OBVIOUS
<1>3. job' = [job EXCEPT ![w] =
          [Idle EXCEPT !.at = "next", !.task = "return", !.by = by, !.queue = queue]]
  BY <1>2, Zenon DEF StartCancel
<1> QED BY <1>1, <1>2, <1>3, ReturnStarts DEF TypeOK

LEMMA StartSnoozeOK ==
    ASSUME TypeOK, NEW w \in Worker, NEW by \in {"cli", "dashboard"}, NEW f \in Folder,
           NEW u \in Held(f), NEW at \in 0 .. MaxTime, Cardinality(ever) < MaxRow,
           StartSnooze(w, by, f, u, at)
    PROVE  JobsOK' /\ MailStep(w)
<1>1. PICK row : row = SnoozeRow(by, f, u, at)
  OBVIOUS
<1>2. PICK j : j = [Idle EXCEPT !.at = "copy", !.task = "snooze", !.by = by, !.from = f,
                                !.to = Snoozed, !.now = {u}, !.row = row]
  OBVIOUS
<1>3. job' = [job EXCEPT ![w] = j]
  BY <1>1, <1>2, Zenon DEF StartSnooze
<1>4. j = [at |-> "copy", task |-> "snooze", by |-> by, delete |-> FALSE, from |-> f,
           to |-> Snoozed, now |-> {u}, rest |-> {}, batch |-> FALSE, done |-> {},
           failed |-> {}, row |-> row, queue |-> {}, met |-> {}]
  BY <1>2 DEF Idle
<1>5. Cardinality(ever) + 1 \in 1 .. MaxRow
  BY FS_CardinalityType, TimeAssumption DEF TypeOK, RowsOK
<1>6. u \in Uid /\ u \in Nat /\ mail[f][u].msg \in Message
  BY HeldUids DEF TypeOK
<1>7. row \in Row
  BY <1>1, <1>5, <1>6 DEF SnoozeRow, Row
<1>8. UNCHANGED folderVars
  BY DEF StartSnooze
<1>9. j \in Job /\ AtHand(j) /\ (j.at = "mark" => j.delete)
  BY <1>4, <1>6, <1>7, NobodyIsNone DEF Job, AtHand, Task, At, FolderPrograms
<1> QED BY <1>3, <1>8, <1>9, StartOK DEF TypeOK

\* The steps between the commands.
LEMMA ReturnNextOK ==
    ASSUME TypeOK, NEW w \in Worker, NEW row \in job[w].queue, ReturnNext(w, row)
    PROVE  JobsOK' /\ MailStep(w)
<1>1. job[w] \in Job /\ AtHand(job[w]) /\ job[w].task = "return" /\ UNCHANGED folderVars
  BY DEF TypeOK, JobsOK, ReturnNext
<1>2. row \in Row
  BY <1>1 DEF Job
<1>3. PICK u \in FoundUids(row) \cup {row.uid} :
          job' = [job EXCEPT ![w].at = "copy", ![w].row = row, ![w].from = Snoozed,
                             ![w].to = row.from, ![w].now = {u}, ![w].queue = @ \ {row}]
  BY Zenon DEF ReturnNext
<1>4. PICK queue : queue = job[w].queue \ {row}
  OBVIOUS
<1>5. PICK j : j = [job[w] EXCEPT !.at = "copy", !.row = row, !.from = Snoozed, !.to = row.from,
                                  !.now = {u}, !.queue = queue]
  OBVIOUS
<1>6. job' = [job EXCEPT ![w] = j]
  BY <1>3, <1>4, <1>5
<1>7. u \in Nat
  <2>1. Held(Snoozed) \subseteq Nat
    BY HeldUids, NobodyIsNone DEF TypeOK
  <2>2. row.uid \in Nat
    BY <1>2, MaxUidAssumption DEF Row, Uid
  <2> QED BY <1>3, <2>1, <2>2 DEF FoundUids
<1>8. queue \in SUBSET Row
  BY <1>1, <1>4 DEF Job
<1>9. j = [at |-> "copy", task |-> "return", by |-> job[w].by, delete |-> job[w].delete,
           from |-> Snoozed, to |-> row.from, now |-> {u}, rest |-> job[w].rest,
           batch |-> job[w].batch, done |-> job[w].done, failed |-> job[w].failed, row |-> row,
           queue |-> queue, met |-> job[w].met]
  BY <1>1, <1>5 DEF Job
<1>10. row.from \in Folder
  BY <1>2 DEF Row
<1>11. j \in Job
  BY <1>1, <1>2, <1>7, <1>8, <1>9, <1>10, NobodyIsNone DEF Job, At, Task
<1>12. AtHand(j) /\ j.at # "mark"
  BY <1>9, <1>10, NobodyIsNone DEF AtHand, FolderPrograms
<1> QED BY <1>1, <1>6, <1>11, <1>12, StartOK DEF TypeOK

LEMMA NextSingleOK ==
    ASSUME TypeOK, NEW w \in Worker, UNCHANGED folderVars, NextSingle(w)
    PROVE  JobsOK' /\ MailStep(w)
<1>1. job[w] \in Job /\ AtHand(job[w]) /\ job[w].task \in {"bulk", "rules"}
  BY DEF TypeOK, JobsOK, NextSingle
<1>2. PICK u \in job[w].rest :
          job' = [job EXCEPT ![w].at = FirstStep(DeletesHere(w, u)), ![w].now = {u},
                             ![w].delete = DeletesHere(w, u), ![w].rest = @ \ {u}]
  BY Zenon DEF NextSingle
<1>3. DeletesHere(w, u) \in BOOLEAN
  BY <1>1 DEF DeletesHere, Job
<1>4. PICK delete \in BOOLEAN : delete = DeletesHere(w, u)
  BY <1>3
<1>5. PICK at \in At \ {"record"} : at = FirstStep(delete) /\ (at = "mark" => delete)
  BY FirstSteps
<1>6. PICK rest : rest = job[w].rest \ {u}
  OBVIOUS
<1>7. PICK j : j = [job[w] EXCEPT !.at = at, !.now = {u}, !.delete = delete, !.rest = rest]
  OBVIOUS
<1>8. job' = [job EXCEPT ![w] = j]
  BY <1>2, <1>4, <1>5, <1>6, <1>7
<1>9. j = [at |-> at, task |-> job[w].task, by |-> job[w].by, delete |-> delete,
           from |-> job[w].from, to |-> job[w].to, now |-> {u}, rest |-> rest,
           batch |-> job[w].batch, done |-> job[w].done, failed |-> job[w].failed,
           row |-> job[w].row, queue |-> job[w].queue, met |-> job[w].met]
  BY <1>1, <1>7 DEF Job
<1>10. u \in Nat /\ rest \in SUBSET Nat
  BY <1>1, <1>6 DEF Job
<1>11. j \in Job
  BY <1>1, <1>9, <1>10 DEF Job
<1>12. AtHand(j) /\ (j.at = "mark" => j.delete)
  BY <1>1, <1>5, <1>9, NobodyIsNone DEF AtHand, FolderPrograms
<1> QED BY <1>8, <1>11, <1>12, StartOK DEF TypeOK

\* What follows an executed command: the outcome is noted.
LEMMA SucceededOK ==
    ASSUME JobsOK, NEW w \in Worker, Succeeded(w)
    PROVE  /\ JobsOK' /\ Others(w) /\ job'[w].at \in {"next", "report"}
<1>1. job[w] \in Job /\ AtHand(job[w])
  BY DEF JobsOK
<1>2. PICK at \in {"next", "report"} :
          at = IF job[w].batch \/ job[w].task = "single" THEN "report" ELSE "next"
  OBVIOUS
<1>3. PICK done : done = job[w].done \cup job[w].now
  OBVIOUS
<1>4. PICK j : j = [job[w] EXCEPT !.at = at, !.done = done]
  OBVIOUS
<1>5. job' = [job EXCEPT ![w] = j]
  BY <1>2, <1>3, <1>4 DEF Succeeded
<1>6. done \in SUBSET Nat
  BY <1>1, <1>3 DEF Job
<1>7. j \in Job /\ j.at = at /\ AtHand(j)
  BY <1>1, <1>4, <1>6 DEF Job, At, AtHand
<1> QED BY <1>5, <1>7, JobReplaced DEF Others

LEMMA FailedOK ==
    ASSUME JobsOK, NEW w \in Worker, UNCHANGED folderVars, Failed(w)
    PROVE  JobsOK' /\ MailStep(w)
<1>1. job[w] \in Job /\ AtHand(job[w])
  BY DEF JobsOK
<1>2. CASE job[w].batch
  <2>1. PICK j : j = [job[w] EXCEPT !.at = "next", !.batch = FALSE, !.rest = job[w].now]
    OBVIOUS
  <2>2. job' = [job EXCEPT ![w] = j]
    BY <1>2, <2>1 DEF Failed
  <2>3. j \in Job /\ AtHand(j) /\ j.at = "next"
    BY <1>1, <2>1 DEF Job, At, AtHand
  <2> QED BY <2>2, <2>3, StartOK
<1>3. CASE ~job[w].batch
  <2>1. PICK at \in {"next", "report"} : at = IF job[w].task = "single" THEN "report" ELSE "next"
    OBVIOUS
  <2>2. PICK failed : failed = job[w].failed \cup job[w].now
    OBVIOUS
  <2>3. PICK j : j = [job[w] EXCEPT !.at = at, !.failed = failed]
    OBVIOUS
  <2>4. job' = [job EXCEPT ![w] = j]
    BY <1>3, <2>1, <2>2, <2>3 DEF Failed
  <2>5. failed \in SUBSET Nat
    BY <1>1, <2>2 DEF Job
  <2>6. j \in Job /\ AtHand(j) /\ j.at = at
    BY <1>1, <2>3, <2>5 DEF Job, At, AtHand
  <2> QED BY <2>1, <2>4, <2>6, StartOK
<1> QED BY <1>2, <1>3

LEMMA RecordSnoozeOK ==
    ASSUME TypeOK, NEW w \in Worker, RecordSnooze(w)
    PROVE  JobsOK' /\ MailStep(w) /\ RowsOK' /\ time' = time
<1>1. /\ job' = [job EXCEPT ![w] = Idle] /\ UNCHANGED folderVars /\ time' = time
      /\ job[w].at = "record" /\ Cardinality(ever) < MaxRow
  BY DEF RecordSnooze
<1>2. JobsOK' /\ MailStep(w)
  BY <1>1, Stopped DEF TypeOK
<1>3. job[w].row \in Row
  BY <1>1 DEF TypeOK, JobsOK, AtHand
<1>4. Cardinality(ever) + 1 \in 1 .. MaxRow
  BY <1>1, FS_CardinalityType, TimeAssumption DEF TypeOK, RowsOK
<1>5. PICK row : row = [job[w].row EXCEPT !.id = Cardinality(ever) + 1]
  OBVIOUS
<1>6. row \in Row
  BY <1>3, <1>4, <1>5 DEF Row
<1>7. (rows' = rows \cup {row} /\ ever' = ever \cup {row}) \/ UNCHANGED <<rows, ever>>
  BY <1>5 DEF RecordSnooze, CreateSnoozed
<1>8. IsFiniteSet(ever \cup {row})
  BY FS_AddElement DEF TypeOK, RowsOK
<1>9. RowsOK'
  BY <1>6, <1>7, <1>8 DEF RowsOK, TypeOK
<1> QED BY <1>1, <1>2, <1>9

LEMMA ForgetRowOK ==
    ASSUME TypeOK, NEW w \in Worker, ForgetRow(w)
    PROVE  JobsOK' /\ MailStep(w) /\ RowsOK' /\ time' = time
<1>1. Goto(w, "next") /\ UNCHANGED folderVars /\ time' = time
  BY DEF ForgetRow
<1>2. JobsOK' /\ MailStep(w)
  BY <1>1, GoneOnQuiet DEF TypeOK
<1>3. rows' \subseteq rows /\ ever' = ever
  BY DEF ForgetRow, DeleteSnoozed
<1> QED BY <1>1, <1>2, <1>3 DEF TypeOK, RowsOK

\* Every step of a worker is one of the four kinds.
LEMMA BeginOK ==
    ASSUME TypeOK, NEW w \in Worker, Begin(w)
    PROVE  JobsOK' /\ MailStep(w) /\ RowsOK' /\ time' = time
<1>1. ASSUME NEW by \in {"cli", "dashboard"}, NEW f \in {Inbox, Archive}, NEW at \in 0 .. MaxTime,
             NEW u \in Held(f), Cardinality(ever) < MaxRow, StartSnooze(w, by, f, u, at)
      PROVE  JobsOK' /\ MailStep(w) /\ UNCHANGED snoozeVars
  <2>1. f \in Folder
    BY NobodyIsNone
  <2>2. UNCHANGED snoozeVars
    BY <1>1 DEF StartSnooze
  <2> QED BY <1>1, <2>1, <2>2, StartSnoozeOK
<1>2. ASSUME NEW by \in {"cli", "dashboard"}, StartSweep(w, by)
      PROVE  JobsOK' /\ MailStep(w) /\ UNCHANGED snoozeVars
  <2>1. UNCHANGED snoozeVars
    BY <1>2 DEF StartSweep
  <2> QED BY <1>2, <2>1, StartSweepOK
<1>3. ASSUME NEW by \in {"cli", "dashboard"}, NEW row \in rows, StartCancel(w, by, row)
      PROVE  JobsOK' /\ MailStep(w) /\ UNCHANGED snoozeVars
  <2>1. UNCHANGED snoozeVars
    BY <1>3 DEF StartCancel
  <2> QED BY <1>3, <2>1, StartCancelOK
<1>4. \/ \E by \in {"cli", "dashboard"}, f \in {Inbox, Archive}, at \in 0 .. MaxTime :
             \E u \in Held(f) : Cardinality(ever) < MaxRow /\ StartSnooze(w, by, f, u, at)
      \/ \E by \in {"cli", "dashboard"} : StartSweep(w, by)
      \/ \E by \in {"cli", "dashboard"} : \E row \in rows : StartCancel(w, by, row)
  BY Zenon DEF Begin
<1>5. JobsOK' /\ MailStep(w) /\ UNCHANGED snoozeVars
  BY <1>1, <1>2, <1>3, <1>4, Zenon
<1> QED BY <1>5 DEF snoozeVars, TypeOK, RowsOK

LEMMA BeginBulkOK ==
    ASSUME TypeOK, NEW w \in Worker, BeginBulk(w)
    PROVE  JobsOK' /\ MailStep(w) /\ RowsOK' /\ time' = time
<1>1. UNCHANGED folderVars /\ UNCHANGED snoozeVars
  BY DEF BeginBulk
<1>2. DOMAIN mail[Inbox] \subseteq Nat
  BY HeldUids, NobodyIsNone DEF TypeOK
<1>3. ASSUME NEW delete \in BOOLEAN, NEW uids \in SUBSET DOMAIN mail[Inbox],
             StartBulk(w, delete, Inbox, Archive, uids)
      PROVE  JobsOK' /\ MailStep(w)
  <2>1. uids \in SUBSET Nat
    BY <1>2
  <2> QED BY <1>1, <1>3, <2>1, StartBulkOK DEF TypeOK
<1>4. ASSUME NEW delete \in BOOLEAN, NEW u \in DOMAIN mail[Inbox],
             StartSingle(w, delete, Inbox, Archive, u)
      PROVE  JobsOK' /\ MailStep(w)
  <2>1. u \in Nat
    BY <1>2
  <2> QED BY <1>1, <1>4, <2>1, StartSingleOK DEF TypeOK
<1>5. StartRules(w, Inbox, Archive) => JobsOK' /\ MailStep(w)
  BY <1>1, StartRulesOK
<1>6. JobsOK' /\ MailStep(w)
  BY <1>3, <1>4, <1>5, Zenon DEF BeginBulk
<1> QED BY <1>1, <1>6 DEF snoozeVars, TypeOK, RowsOK

LEMMA SnoozeExpungedOK ==
    ASSUME JobsOK, NEW w \in Worker, job[w].task \in {"snooze", "return"}, SnoozeExpunged(w)
    PROVE  JobsOK' /\ Others(w) /\ job'[w].at \in {"record", "forget"}
<1>1. job[w] \in Job
  BY DEF JobsOK
<1>2. PICK at \in {"record", "forget"} : Goto(w, at) /\ (at = "record" => job[w].task = "snooze")
  BY DEF SnoozeExpunged
<1>3. JobsOK' /\ Others(w) /\ job'[w] = [job[w] EXCEPT !.at = at]
  BY <1>2, GoneOn
<1> QED BY <1>1, <1>3 DEF Job

LEMMA SnoozeStepOK ==
    ASSUME TypeOK, NEW w \in Worker, SnoozeStep(w)
    PROVE  JobsOK' /\ MailStep(w) /\ RowsOK' /\ time' = time
<1> DEFINE Goal == JobsOK' /\ MailStep(w) /\ RowsOK' /\ time' = time
<1>1. UNCHANGED snoozeVars => RowsOK' /\ time' = time
  BY DEF snoozeVars, TypeOK, RowsOK
<1>2. ASSUME NEW row \in job[w].queue, ReturnNext(w, row) PROVE Goal
  <2>1. UNCHANGED snoozeVars
    BY <1>2 DEF ReturnNext
  <2> QED BY <1>1, <1>2, <2>1, ReturnNextOK
<1>3. ReturnCopies(w) => Goal
  <2> SUFFICES ASSUME ReturnCopies(w) PROVE Goal
    OBVIOUS
  <2>1. CopyMessages(w) /\ UNCHANGED <<rows, ever, time>>
    BY DEF ReturnCopies
  <2> QED BY <2>1, CopyStep DEF TypeOK, RowsOK
<1>4. CopyMessages(w) /\ UNCHANGED snoozeVars => Goal
  BY <1>1, CopyStep DEF TypeOK
<1>5. MarkDeleted(w) /\ UNCHANGED snoozeVars => Goal
  BY <1>1, MarkStep DEF TypeOK
<1>6. ASSUME job[w].task \in {"snooze", "return"}, Expunge(w, SnoozeExpunged(w)),
             UNCHANGED snoozeVars
      PROVE  Goal
  <2>1. SnoozeExpunged(w)
    BY <1>6 DEF Expunge
  <2>2. JobsOK' /\ Others(w) /\ job'[w].at \in {"record", "forget"}
    BY <1>6, <2>1, SnoozeExpungedOK DEF TypeOK
  <2>3. Expunges(w)
    BY <1>6, <2>2 DEF Expunges
  <2> QED BY <1>1, <1>6, <2>2, <2>3 DEF MailStep
<1>7. RecordSnooze(w) => Goal
  BY RecordSnoozeOK
<1>8. ForgetRow(w) => Goal
  BY ForgetRowOK
<1>9. ReturnDone(w) => Goal
  <2> SUFFICES ASSUME ReturnDone(w) PROVE Goal
    OBVIOUS
  <2>1. job' = [job EXCEPT ![w] = Idle] /\ UNCHANGED folderVars /\ UNCHANGED snoozeVars
    BY DEF ReturnDone
  <2> QED BY <1>1, <2>1, Stopped DEF TypeOK
<1> HIDE DEF Goal
<1>10. Goal
  BY <1>2, <1>3, <1>4, <1>5, <1>6, <1>7, <1>8, <1>9, Zenon DEF SnoozeStep
<1> QED BY <1>10 DEF Goal

LEMMA BulkStepOK ==
    ASSUME TypeOK, NEW w \in Worker, BulkStep(w)
    PROVE  JobsOK' /\ MailStep(w) /\ RowsOK' /\ time' = time
<1>1. RowsOK' /\ time' = time
  BY DEF BulkStep, snoozeVars, TypeOK, RowsOK
<1>2. CopyMessages(w) => JobsOK' /\ MailStep(w)
  BY CopyStep DEF TypeOK
<1>3. MarkDeleted(w) => JobsOK' /\ MailStep(w)
  BY MarkStep DEF TypeOK
<1>4. ASSUME Expunge(w, Succeeded(w)) PROVE JobsOK' /\ MailStep(w)
  <2>1. Succeeded(w)
    BY <1>4 DEF Expunge
  <2>2. JobsOK' /\ Others(w) /\ job'[w].at \in {"next", "report"}
    BY <2>1, SucceededOK DEF TypeOK
  <2>3. Expunges(w)
    BY <1>4, <2>2 DEF Expunges
  <2> QED BY <2>2, <2>3 DEF MailStep
<1>5. ASSUME CommandFails(w, Failed(w)) PROVE JobsOK' /\ MailStep(w)
  <2>1. Failed(w) /\ UNCHANGED folderVars
    BY <1>5 DEF CommandFails
  <2> QED BY <2>1, FailedOK DEF TypeOK
<1>6. ASSUME UNCHANGED folderVars, NextSingle(w) PROVE JobsOK' /\ MailStep(w)
  BY <1>6, NextSingleOK
<1>7. ASSUME UNCHANGED folderVars, LastSingle(w) PROVE JobsOK' /\ MailStep(w)
  <2>1. Goto(w, "report")
    BY <1>7 DEF LastSingle
  <2> QED BY <1>7, <2>1, GoneOnQuiet DEF TypeOK
<1>8. ASSUME UNCHANGED folderVars, Reported(w) PROVE JobsOK' /\ MailStep(w)
  <2>1. job' = [job EXCEPT ![w] = Idle]
    BY <1>8 DEF Reported
  <2> QED BY <1>8, <2>1, Stopped DEF TypeOK
<1>9. JobsOK' /\ MailStep(w)
  BY <1>2, <1>3, <1>4, <1>5, <1>6, <1>7, <1>8, Zenon DEF BulkStep
<1> QED BY <1>1, <1>9

LEMMA SnoozeFailsOK ==
    ASSUME TypeOK, NEW w \in Worker, SnoozeFails(w)
    PROVE  JobsOK' /\ MailStep(w) /\ RowsOK' /\ time' = time
<1>1. UNCHANGED folderVars /\ RowsOK' /\ time' = time
  BY DEF SnoozeFails, CommandFails, snoozeVars, TypeOK, RowsOK
<1>2. job' = [job EXCEPT ![w] = Idle] \/ Goto(w, "next")
  BY DEF SnoozeFails, CommandFails
<1> QED BY <1>1, <1>2, Stopped, GoneOnQuiet DEF TypeOK

LEMMA CrashOK ==
    ASSUME TypeOK, NEW w \in Worker, Crash(w)
    PROVE  JobsOK' /\ MailStep(w) /\ RowsOK' /\ time' = time
<1>1. UNCHANGED folderVars /\ RowsOK' /\ time' = time /\ job' = [job EXCEPT ![w] = Idle]
  BY DEF Crash, WorkerCrashes, snoozeVars, TypeOK, RowsOK
<1> QED BY <1>1, Stopped DEF TypeOK

LEMMA MailStepOK ==
    ASSUME TypeOK, NEW w \in Worker, MailStep(w)
    PROVE  MailOK'
<1>1. CASE Quiet(w)
  BY <1>1 DEF Quiet, folderVars, TypeOK, MailOK
<1>2. CASE Copies(w)
  BY <1>2, CopyAppends DEF Copies
<1>3. CASE Marks(w)
  BY <1>3, MarkFlags DEF Marks
<1>4. CASE Expunges(w)
  BY <1>4, ExpungeRemoves DEF Expunges
<1> QED BY <1>1, <1>2, <1>3, <1>4 DEF MailStep

\* The clock ticks, or a worker takes a step.
Ticks == UNCHANGED <<folderVars, job>>

LEMMA Stepped ==
    ASSUME TypeOK, [Next]_vars
    PROVE  TypeOK' /\ (Ticks \/ \E w \in Worker : MailStep(w))
<1>1. ASSUME NEW w \in Worker,
             \/ Begin(w) \/ BeginBulk(w) \/ SnoozeStep(w) \/ BulkStep(w) \/ SnoozeFails(w) \/ Crash(w)
      PROVE  TypeOK' /\ MailStep(w)
  <2>1. JobsOK' /\ MailStep(w) /\ RowsOK' /\ time' = time
    BY <1>1, BeginOK, BeginBulkOK, SnoozeStepOK, BulkStepOK, SnoozeFailsOK, CrashOK, Zenon
  <2>2. MailOK'
    BY <2>1, MailStepOK
  <2> QED BY <2>1, <2>2 DEF TypeOK
<1>2. ASSUME Tick PROVE TypeOK' /\ Ticks
  <2>1. /\ UNCHANGED <<mail, job, rows, ever>> /\ UNCHANGED folderVars
        /\ time' = time + 1 /\ time < MaxTime
    BY <1>2 DEF Tick, folderVars
  <2>2. time' \in 0 .. MaxTime
    BY <2>1, TimeAssumption DEF TypeOK
  <2> QED BY <2>1, <2>2 DEF TypeOK, MailOK, JobsOK, RowsOK, Ticks
<1>3. ASSUME UNCHANGED vars PROVE TypeOK' /\ Ticks
  BY <1>3 DEF vars, folderVars, TypeOK, MailOK, JobsOK, RowsOK, Ticks
<1> QED BY <1>1, <1>2, <1>3, Zenon DEF Next

LEMMA TypeInit == Init => TypeOK
<1> SUFFICES ASSUME Init PROVE TypeOK
  OBVIOUS
<1>1. ASSUME NEW f \in Folder
      PROVE  /\ mail[f] \in Seq(Copy \cup {Nobody}) /\ Len(mail[f]) <= MaxUid
  <2>1. PICK n \in Nat : n = Len(Initially[f]) /\ DOMAIN Initially[f] = 1 .. n /\ n <= MaxUid
                         /\ \A u \in 1 .. n : Initially[f][u] \in Message
    BY InitiallyAssumption
  <2>2. PICK box : box = [u \in 1 .. n |-> [msg |-> Initially[f][u], flagged |-> FALSE]]
    OBVIOUS
  <2>3. mail[f] = box
    BY <2>1, <2>2, Zenon DEF Init
  <2>4. box \in [1 .. n -> Copy \cup {Nobody}]
    BY <2>1, <2>2 DEF Copy
  <2>5. box \in Seq(Copy \cup {Nobody}) /\ Len(box) = n
    BY <2>4
  <2> QED BY <2>1, <2>3, <2>5
<1>2. mail = [f \in Folder |-> mail[f]]
  BY DEF Init
<1>3. MailOK
  BY <1>1, <1>2 DEF MailOK
<1>4. JobsOK
  BY IdleIsJob DEF Init, JobsOK
<1>5. RowsOK /\ time \in 0 .. MaxTime
  BY FS_EmptySet, TimeAssumption DEF Init, RowsOK
<1> QED BY <1>3, <1>4, <1>5 DEF TypeOK

-----------------------------------------------------------------------------
(* What is not asked to be deleted is not lost.                            *)

\* A copy that nothing the programs are about to do endangers.
Clear(m) ==
    \E f \in Folder : \E u \in Held(f) :
        /\ mail[f][u].msg = m /\ ~mail[f][u].flagged
        /\ \A w \in Worker : ~Threatens(job[w], f, u)

\* A move marks what its COPY met, which was in the folder then.
MetBounded ==
    \A w \in Worker : \A f \in Folder : \A u : Threatens(job[w], f, u) => u \in DOMAIN mail[f]

AllClear == \A m \in Message \ (deleted \cup unseen) : Clear(m)
LossInv == TypeOK /\ MetBounded /\ AllClear

LEMMA LossInit == Init => LossInv
<1> SUFFICES ASSUME Init PROVE LossInv
  OBVIOUS
<1>1. TypeOK
  BY TypeInit
<1>2. \A w \in Worker : job[w] = Idle
  BY DEF Init
<1>3. \A w \in Worker : \A f, u : ~Threatens(job[w], f, u)
  BY <1>2 DEF Threatens, Idle
<1>4. ASSUME NEW m \in Message PROVE Clear(m)
  <2>1. PICK f \in Folder : \E u \in DOMAIN Initially[f] : Initially[f][u] = m
    BY InitiallyAssumption
  <2>2. PICK u \in DOMAIN Initially[f] : Initially[f][u] = m
    BY <2>1
  <2>3. mail[f] = [v \in DOMAIN Initially[f] |-> [msg |-> Initially[f][v], flagged |-> FALSE]]
    BY Zenon DEF Init
  <2>4. /\ mail[f][u] = [msg |-> m, flagged |-> FALSE] /\ u \in DOMAIN mail[f]
    BY <2>2, <2>3
  <2>5. mail[f][u] \in Copy /\ mail[f][u].msg = m /\ ~mail[f][u].flagged
    BY <2>4 DEF Copy
  <2>6. u \in Held(f)
    BY <2>4, <2>5, NobodyIsNone DEF Held
  <2> QED BY <1>3, <2>5, <2>6 DEF Clear
<1> QED BY <1>1, <1>3, <1>4 DEF LossInv, MetBounded, AllClear

\* A step other than a COPY endangers nothing it did not endanger before, and
\* takes no UID back.
LEMMA BoundedStep ==
    ASSUME TypeOK, MetBounded, NEW w \in Worker, Others(w),
           \A f, u : Threatens(job'[w], f, u) => Threatens(job[w], f, u),
           \A f \in Folder : DOMAIN mail[f] \subseteq DOMAIN mail'[f]
    PROVE  MetBounded' /\ \A v \in Worker : \A f, u : Threatens(job'[v], f, u) => Threatens(job[v], f, u)
<1>1. \A v \in Worker : \A f, u : Threatens(job'[v], f, u) => Threatens(job[v], f, u)
  BY DEF Others
<1> QED BY <1>1 DEF MetBounded

LEMMA Kept ==
    ASSUME TypeOK, NEW m, NEW f \in Folder, NEW u \in Held(f), mail[f][u].msg = m,
           ~mail[f][u].flagged, \A v \in Worker : ~Threatens(job'[v], f, u),
           u \in DOMAIN mail'[f], mail'[f][u] = mail[f][u]
    PROVE  Clear(m)'
<1>1. u \in Held(f)'
  BY DEF Held
<1> QED BY <1>1 DEF Clear

LEMMA QuietLoss ==
    ASSUME LossInv, NEW w \in Worker, Others(w), Quiet(w)
    PROVE  MetBounded' /\ AllClear'
<1>1. UNCHANGED <<mail, deleted, unseen>>
  BY DEF Quiet, folderVars
<1>2. MetBounded' /\ \A v \in Worker : \A f, u : Threatens(job'[v], f, u) => Threatens(job[v], f, u)
  BY <1>1, BoundedStep DEF LossInv, Quiet
<1>3. \A m : Clear(m) => Clear(m)'
  BY <1>1, <1>2 DEF Clear, Held
<1> QED BY <1>1, <1>2, <1>3 DEF LossInv, AllClear

LEMMA CopiesLoss ==
    ASSUME LossInv, NEW w \in Worker, Others(w), Copies(w)
    PROVE  MetBounded' /\ AllClear'
<1>1. /\ MailOK'
      /\ \A f \in Folder : DOMAIN mail[f] \subseteq DOMAIN mail'[f]
      /\ \A f \in Folder : \A u \in DOMAIN mail[f] : mail'[f][u] = mail[f][u]
      /\ \A u \in job[w].now \cap Held(job[w].from) :
             \E p \in DOMAIN mail'[job[w].to] :
                 p \notin DOMAIN mail[job[w].to] /\ mail'[job[w].to][p] = mail[job[w].from][u]
  BY CopyAppends DEF LossInv, Copies
<1>2. job[w].from \in Folder /\ job[w].to \in Folder /\ job[w] \in Job
  BY DEF LossInv, TypeOK, JobsOK, AtHand, Copies, CopyMessages
<1>3. job'[w] = [job[w] EXCEPT !.at = "mark", !.met = job[w].now \cap Held(job[w].from)]
  BY DEF Copies
<1>4. \A f, u : Threatens(job'[w], f, u) =>
          f = job[w].from /\ u \in job[w].now \cap Held(job[w].from)
  BY <1>2, <1>3 DEF Threatens, Job
<1>5. \A f, u : \A v \in Worker \ {w} : Threatens(job'[v], f, u) <=> Threatens(job[v], f, u)
  BY DEF Others
\* Every threat of this state is to a UID of the state before.
<1>6. \A v \in Worker : \A f \in Folder : \A u : Threatens(job'[v], f, u) => u \in DOMAIN mail[f]
  <2>1. Held(job[w].from) \subseteq DOMAIN mail[job[w].from]
    BY DEF Held
  <2>2. \A f \in Folder : \A u : Threatens(job'[w], f, u) => u \in DOMAIN mail[f]
    BY <1>4, <2>1
  <2> QED BY <1>5, <2>2 DEF LossInv, MetBounded
<1>7. MetBounded'
  BY <1>1, <1>6 DEF MetBounded
<1>8. ASSUME NEW m, Clear(m) PROVE Clear(m)'
  <2>1. PICK f, u :
            /\ f \in Folder /\ u \in DOMAIN mail[f] /\ u \in Held(f) /\ mail[f][u].msg = m /\ ~mail[f][u].flagged
            /\ \A v \in Worker : ~Threatens(job[v], f, u)
    BY <1>8 DEF Clear, Held
  <2>2. CASE ~Threatens(job'[w], f, u)
    <3>1. \A v \in Worker : ~Threatens(job'[v], f, u)
      BY <1>5, <2>1, <2>2
    <3> QED BY <1>1, <2>1, <3>1, Kept DEF LossInv
  <2>3. CASE Threatens(job'[w], f, u)
    <3>1. f = job[w].from /\ u \in job[w].now \cap Held(job[w].from)
      BY <1>4, <2>3
    <3>2. PICK to \in Folder : to = job[w].to
      BY <1>2
    <3>3. PICK p \in DOMAIN mail'[to] :
              p \notin DOMAIN mail[to] /\ mail'[to][p] = mail[f][u]
      BY <1>1, <3>1, <3>2
    <3>4. \A v \in Worker : ~Threatens(job'[v], to, p)
      BY <1>6, <3>3
    <3>5. p \in Held(to)'
      BY <2>1, <3>3 DEF Held
    <3> QED BY <2>1, <3>3, <3>4, <3>5 DEF Clear
  <2> QED BY <2>2, <2>3
<1>9. UNCHANGED <<deleted, unseen>>
  BY DEF Copies, CopyMessages
<1> QED BY <1>7, <1>8, <1>9 DEF LossInv, AllClear

LEMMA MarksLoss ==
    ASSUME LossInv, NEW w \in Worker, Others(w), Marks(w)
    PROVE  MetBounded' /\ AllClear'
<1>1. /\ \A f \in Folder : DOMAIN mail'[f] = DOMAIN mail[f]
      /\ \A f \in Folder : \A u \in DOMAIN mail[f] :
             mail'[f][u] = mail[f][u] \/ (f = job[w].from /\ u \in job[w].now /\ u \in Held(f))
  BY MarkFlags DEF LossInv, Marks
<1>2. job[w].at = "mark" /\ job'[w] = [job[w] EXCEPT !.at = "expunge"] /\ job[w] \in Job
  BY DEF Marks, MarkDeleted, LossInv, TypeOK, JobsOK
<1>3. \A f, u : ~Threatens(job'[w], f, u)
  BY <1>2 DEF Threatens, Job
<1>4. MetBounded' /\ \A v \in Worker : \A f, u : Threatens(job'[v], f, u) => Threatens(job[v], f, u)
  BY <1>1, <1>3, BoundedStep DEF LossInv
<1>5. /\ deleted' = IF job[w].delete THEN deleted \cup Named(w) ELSE deleted
      /\ unseen' = IF job[w].delete THEN unseen
                   ELSE unseen \cup {mail[job[w].from][u].msg :
                                        u \in (job[w].now \ job[w].met) \cap Held(job[w].from)}
  BY DEF Marks, MarkDeleted, Renounce
<1>6. ASSUME NEW m \in Message \ (deleted \cup unseen)', Clear(m) PROVE Clear(m)'
  <2>1. PICK f, u :
            /\ f \in Folder /\ u \in DOMAIN mail[f] /\ u \in Held(f) /\ mail[f][u].msg = m /\ ~mail[f][u].flagged
            /\ \A v \in Worker : ~Threatens(job[v], f, u)
    BY <1>6 DEF Clear, Held
  <2>2. ~(f = job[w].from /\ u \in job[w].now)
    <3> SUFFICES ASSUME f = job[w].from, u \in job[w].now PROVE FALSE
      OBVIOUS
    <3>1. CASE job[w].delete
      <4>1. m \in Named(w)
        BY <2>1 DEF Named
      <4> QED BY <1>5, <1>6, <3>1, <4>1
    <3>2. CASE ~job[w].delete
      <4>1. u \notin job[w].met
        BY <1>2, <2>1, <3>2 DEF Threatens
      <4>2. m \in unseen'
        BY <1>5, <2>1, <3>2, <4>1
      <4> QED BY <1>6, <4>2
    <3> QED BY <3>1, <3>2
  <2> QED BY <1>1, <1>4, <2>1, <2>2, Kept DEF LossInv
<1>7. deleted \subseteq deleted' /\ unseen \subseteq unseen'
  BY <1>5
<1> QED BY <1>4, <1>6, <1>7 DEF LossInv, AllClear

LEMMA ExpungesLoss ==
    ASSUME LossInv, NEW w \in Worker, Others(w), Expunges(w)
    PROVE  MetBounded' /\ AllClear'
<1>1. /\ \A f \in Folder : DOMAIN mail'[f] = DOMAIN mail[f]
      /\ \A f \in Folder : \A u \in DOMAIN mail[f] :
             mail'[f][u] = mail[f][u] \/ mail[f][u].flagged
  BY ExpungeRemoves DEF LossInv, Expunges
<1>2. \A f, u : ~Threatens(job'[w], f, u)
  BY DEF Threatens, Expunges
<1>3. MetBounded' /\ \A v \in Worker : \A f, u : Threatens(job'[v], f, u) => Threatens(job[v], f, u)
  BY <1>1, <1>2, BoundedStep DEF LossInv
<1>4. ASSUME NEW m, Clear(m) PROVE Clear(m)'
  <2>1. PICK f, u :
            /\ f \in Folder /\ u \in DOMAIN mail[f] /\ u \in Held(f) /\ mail[f][u].msg = m /\ ~mail[f][u].flagged
            /\ \A v \in Worker : ~Threatens(job[v], f, u)
    BY <1>4 DEF Clear, Held
  <2> QED BY <1>1, <1>3, <2>1, Kept DEF LossInv
<1>5. UNCHANGED <<deleted, unseen>>
  BY DEF Expunges, Expunge
<1> QED BY <1>3, <1>4, <1>5 DEF LossInv, AllClear

LEMMA LossNext == LossInv /\ [Next]_vars => LossInv'
<1> SUFFICES ASSUME LossInv, [Next]_vars PROVE LossInv'
  OBVIOUS
<1>1. TypeOK' /\ (Ticks \/ \E w \in Worker : MailStep(w))
  BY Stepped DEF LossInv
<1>2. CASE Ticks
  <2>1. UNCHANGED <<mail, job, deleted, unseen>>
    BY <1>2 DEF Ticks, folderVars
  <2> QED BY <1>1, <2>1 DEF LossInv, MetBounded, AllClear, Clear, Held
<1>3. ASSUME NEW w \in Worker, MailStep(w) PROVE MetBounded' /\ AllClear'
  BY <1>3, QuietLoss, CopiesLoss, MarksLoss, ExpungesLoss DEF MailStep
<1> QED BY <1>1, <1>2, <1>3 DEF LossInv

LEMMA ClearIsSafe ==
    ASSUME TypeOK, NEW m, Clear(m)
    PROVE  Safe(m)
<1>1. PICK f, u :
          f \in Folder /\ u \in DOMAIN mail[f] /\ u \in Held(f) /\ mail[f][u].msg = m /\ ~mail[f][u].flagged
  BY DEF Clear, Held
<1>2. u \in Uid
  BY <1>1, HeldUids DEF TypeOK
<1>3. PICK c \in Folder \X Uid : c = <<f, u>>
  BY <1>1, <1>2
<1>4. c[1] = f /\ c[2] = u
  BY <1>3
<1>5. c \in CopiesOf(m)
  BY <1>1, <1>4 DEF CopiesOf
<1> QED BY <1>1, <1>4, <1>5 DEF Safe

LEMMA LossAlways == Spec => []LossInv
BY LossInit, LossNext, PTL DEF Spec

\* Type correctness of the folders, the programs and the snoozed table.
THEOREM MailroomTyped == Spec => []TypeOK
<1>1. LossInv => TypeOK
  BY DEF LossInv
<1> QED BY <1>1, LossAlways, PTL

\* What a move deletes it has copied: for any messages, folders and programs,
\* and whatever fails, a message nobody asked to delete keeps a copy without
\* \Deleted, unless a move named its UID before the message had it.
THEOREM NothingElseLost == Spec => []NothingElseIsLost
<1>1. LossInv => NothingElseIsLost
  BY ClearIsSafe DEF LossInv, AllClear, NothingElseIsLost
<1> QED BY <1>1, LossAlways, PTL

-----------------------------------------------------------------------------
(* What a bulk call reports as done was done.                              *)

\* One worker runs folder programs, and nobody else runs anything.
Sole(w) == crew[w] \subseteq FolderPrograms /\ \A v \in Worker \ {w} : crew[v] = {}

Own == DOMAIN Initially[Inbox]
Archived(m) == \E u \in Held(Archive) : mail[Archive][u].msg = m
Accounted(u) == Initially[Inbox][u] \in deleted \/ Archived(Initially[Inbox][u])

\* A UID of the start keeps its message, and is marked or gone only when the
\* message was to be deleted or is in the other folder.
Delivered ==
    \A u \in Own :
        /\ u \in DOMAIN mail[Inbox]
        /\ u \notin Held(Inbox) => Accounted(u)
        /\ u \in Held(Inbox) => /\ mail[Inbox][u].msg = Initially[Inbox][u]
                                /\ mail[Inbox][u].flagged => Accounted(u)

\* A move goes on to mark, and a command to expunge, what is accounted for.
Settled(j) ==
    /\ j.at = "expunge" \/ (j.at = "mark" /\ ~j.delete) => \A u \in j.now \cap Own : Accounted(u)
    /\ \A u \in j.done \cap Own : Accounted(u)

\* A UID is still to do, at hand, done or failed, and only one of them.
Books(j) ==
    j.task = "bulk" =>
        /\ j.batch => /\ j.at \in {"copy", "mark", "expunge", "report"}
                      /\ j.failed = {} /\ j.rest = {} /\ (j.at # "report" => j.done = {})
        /\ j.done \cap j.failed = {} /\ j.rest \cap (j.done \cup j.failed) = {}
        /\ j.at \in {"copy", "mark", "expunge"} =>
               j.now \cap (j.rest \cup j.done \cup j.failed) = {}
        /\ j.at = "report" => j.rest = {}

SoleInv(w) ==
    /\ \A v \in Worker \ {w} : job[v] = Idle
    /\ job[w].task \in {"none"} \cup FolderPrograms /\ job[w].at # "forget"
    /\ Delivered /\ Settled(job[w]) /\ Books(job[w])

BulkInv == TypeOK /\ \A w \in Worker : Sole(w) => SoleInv(w)

LEMMA SoleInit ==
    ASSUME Init, NEW w \in Worker
    PROVE  SoleInv(w)
<1>1. \A v \in Worker : job[v] = Idle
  BY DEF Init
<1>2. PICK j : j = job[w] /\ j = Idle
  BY <1>1
<1>3. /\ j.task = "none" /\ j.at = "idle" /\ j.done = {}
  BY <1>2 DEF Idle
<1>4. Settled(j) /\ Books(j)
  BY <1>3 DEF Settled, Books
<1>5. mail[Inbox] = [u \in Own |-> [msg |-> Initially[Inbox][u], flagged |-> FALSE]]
  BY NobodyIsNone, Zenon DEF Init, Own
<1>6. Delivered
  <2> SUFFICES ASSUME NEW u \in Own
               PROVE  /\ u \in DOMAIN mail[Inbox] /\ u \in Held(Inbox)
                      /\ mail[Inbox][u].msg = Initially[Inbox][u] /\ ~mail[Inbox][u].flagged
    BY DEF Delivered
  <2>1. mail[Inbox][u] = [msg |-> Initially[Inbox][u], flagged |-> FALSE]
        /\ u \in DOMAIN mail[Inbox]
    BY <1>5
  <2>2. Initially[Inbox][u] \in Message
    BY InitiallyAssumption, NobodyIsNone DEF Own
  <2>3. mail[Inbox][u] \in Copy
    BY <2>1, <2>2 DEF Copy
  <2> QED BY <2>1, <2>3, NobodyIsNone DEF Held
<1> QED BY <1>1, <1>2, <1>3, <1>4, <1>6 DEF SoleInv

\* Nobody but the worker can do anything, and it nothing but its programs.
LEMMA SoleSteps ==
    ASSUME TypeOK, NEW w \in Worker, Sole(w), SoleInv(w), Next
    PROVE  Ticks \/ BeginBulk(w) \/ BulkStep(w) \/ Crash(w)
<1>1. ASSUME NEW v \in Worker \ {w},
             \/ Begin(v) \/ BeginBulk(v) \/ SnoozeStep(v) \/ BulkStep(v) \/ SnoozeFails(v) \/ Crash(v)
      PROVE  FALSE
  <2>1. job[v] = Idle /\ crew[v] = {}
    BY DEF SoleInv, Sole
  <2>2. job[v].at = "idle" /\ job[v].task = "none" /\ job[v].queue = {}
    BY <2>1 DEF Idle
  <2>3. ~Begin(v)
    BY <2>1 DEF Begin
  <2>4. ~BeginBulk(v)
    BY <2>1 DEF BeginBulk
  <2>5. ~SnoozeStep(v)
    BY <2>2 DEF SnoozeStep, ReturnCopies, RecordSnooze, ForgetRow, ReturnDone
  <2>6. ~BulkStep(v) /\ ~SnoozeFails(v) /\ ~Crash(v)
    BY <2>2 DEF BulkStep, BulkTask, SnoozeFails, Crash, WorkerCrashes, Busy
  <2> QED BY <1>1, <2>3, <2>4, <2>5, <2>6
<1>2. ~Begin(w)
  <2>1. /\ "snooze" \notin crew[w] /\ "dashboardSnooze" \notin crew[w] /\ "sweep" \notin crew[w]
        /\ "check" \notin crew[w] /\ "button" \notin crew[w] /\ "cancel" \notin crew[w]
    BY DEF Sole, FolderPrograms
  <2> QED BY <2>1 DEF Begin
<1>3. ~SnoozeStep(w) /\ ~SnoozeFails(w)
  <2>1. job[w].task \notin {"snooze", "return"} /\ job[w].at \notin {"record", "forget"}
    BY DEF SoleInv, FolderPrograms, TypeOK, JobsOK, AtHand
  <2> QED BY <2>1 DEF SnoozeStep, ReturnNext, ReturnCopies, RecordSnooze, ForgetRow, ReturnDone,
                      SnoozeFails
<1>4. Tick => Ticks
  BY DEF Tick, Ticks
<1> QED BY <1>1, <1>2, <1>3, <1>4, Zenon DEF Next

LEMMA SoleReplaced ==
    ASSUME JobsOK, NEW w \in Worker, SoleInv(w), NEW j, job' = [job EXCEPT ![w] = j],
           j.task \in {"none"} \cup FolderPrograms, j.at # "forget", Books(j),
           Delivered', Settled(j)'
    PROVE  SoleInv(w)'
<1>1. job'[w] = j /\ \A v \in Worker \ {w} : job'[v] = job[v]
  BY JobReplaced
<1> QED BY <1>1 DEF SoleInv, Settled

LEMMA SoleQuiet ==
    ASSUME JobsOK, NEW w \in Worker, SoleInv(w), NEW j, job' = [job EXCEPT ![w] = j],
           j.task \in {"none"} \cup FolderPrograms, j.at # "forget", Books(j),
           UNCHANGED folderVars, Settled(j)
    PROVE  SoleInv(w)'
<1>1. UNCHANGED <<mail, deleted>>
  BY DEF folderVars
<1>2. Delivered' /\ Settled(j)'
  BY <1>1 DEF SoleInv, Delivered, Settled, Accounted, Archived, Held
<1> QED BY <1>2, SoleReplaced

LEMMA SoleIdle ==
    ASSUME JobsOK, NEW w \in Worker, SoleInv(w), job' = [job EXCEPT ![w] = Idle],
           UNCHANGED folderVars
    PROVE  SoleInv(w)'
<1>1. PICK j : j = Idle
  OBVIOUS
<1>2. j.task = "none" /\ j.at = "idle" /\ j.done = {}
  BY <1>1 DEF Idle
<1>3. Settled(j) /\ Books(j)
  BY <1>2 DEF Settled, Books
<1> QED BY <1>1, <1>2, <1>3, SoleQuiet

LEMMA SoleBegins ==
    ASSUME TypeOK, NEW w \in Worker, SoleInv(w), BeginBulk(w)
    PROVE  SoleInv(w)'
<1>1. ASSUME NEW j, job' = [job EXCEPT ![w] = j], j.task \in FolderPrograms,
             j.at \in {"copy", "next"} \/ (j.at = "mark" /\ j.delete),
             j.done = {}, j.failed = {}, j.rest = {} \/ j.task # "bulk",
             j.task = "bulk" => j.at # "next"
      PROVE  SoleInv(w)'
  <2>1. Settled(j) /\ Books(j)
    BY <1>1 DEF Settled, Books
  <2>2. UNCHANGED folderVars
    BY DEF BeginBulk
  <2> QED BY <1>1, <2>1, <2>2, SoleQuiet DEF TypeOK
<1>2. ASSUME NEW delete \in BOOLEAN, NEW uids, StartBulk(w, delete, Inbox, Archive, uids)
      PROVE  SoleInv(w)'
  <2>1. PICK at : at = FirstStep(delete) /\ (at = "copy" \/ (at = "mark" /\ delete))
    BY DEF FirstStep
  <2>2. PICK j : j = [Idle EXCEPT !.at = at, !.task = "bulk", !.delete = delete, !.from = Inbox,
                                  !.to = Archive, !.now = uids, !.batch = TRUE]
    OBVIOUS
  <2>3. job' = [job EXCEPT ![w] = j]
    BY <1>2, <2>1, <2>2, Zenon DEF StartBulk
  <2>4. /\ j.at = at /\ j.task = "bulk" /\ j.delete = delete /\ j.done = {} /\ j.failed = {}
        /\ j.rest = {}
    BY <2>2 DEF Idle
  <2> QED BY <1>1, <2>1, <2>3, <2>4 DEF FolderPrograms
<1>3. ASSUME NEW delete \in BOOLEAN, NEW u, StartSingle(w, delete, Inbox, Archive, u)
      PROVE  SoleInv(w)'
  <2>1. PICK at : at = FirstStep(delete) /\ (at = "copy" \/ (at = "mark" /\ delete))
    BY DEF FirstStep
  <2>2. PICK j : j = [Idle EXCEPT !.at = at, !.task = "single", !.by = "dashboard",
                                  !.delete = delete, !.from = Inbox, !.to = Archive, !.now = {u}]
    OBVIOUS
  <2>3. job' = [job EXCEPT ![w] = j]
    BY <1>3, <2>1, <2>2, Zenon DEF StartSingle
  <2>4. /\ j.at = at /\ j.task = "single" /\ j.delete = delete /\ j.done = {} /\ j.failed = {}
    BY <2>2 DEF Idle
  <2> QED BY <1>1, <2>1, <2>3, <2>4 DEF FolderPrograms
<1>4. ASSUME StartRules(w, Inbox, Archive)
      PROVE  SoleInv(w)'
  <2>1. PICK matched : matched = {u \in Held(Inbox) : RuleAction[mail[Inbox][u].msg] # "keep"}
    OBVIOUS
  <2>2. PICK j : j = [Idle EXCEPT !.at = "next", !.task = "rules", !.from = Inbox,
                                  !.to = Archive, !.rest = matched]
    OBVIOUS
  <2>3. job' = [job EXCEPT ![w] = j]
    BY <1>4, <2>1, <2>2, Zenon DEF StartRules
  <2>4. j.at = "next" /\ j.task = "rules" /\ j.done = {} /\ j.failed = {}
    BY <2>2 DEF Idle
  <2> QED BY <1>1, <2>3, <2>4 DEF FolderPrograms
<1> QED BY <1>2, <1>3, <1>4, Zenon DEF BeginBulk

\* What the three commands do: they account for what they name, and nothing
\* is unaccounted for again.
LEMMA ArchivedStays ==
    ASSUME TypeOK, NEW m, Archived(m), DOMAIN mail[Archive] \subseteq DOMAIN mail'[Archive],
           \A u \in DOMAIN mail[Archive] : mail'[Archive][u] = mail[Archive][u]
    PROVE  Archived(m)'
<1>1. PICK u \in DOMAIN mail[Archive] : u \in Held(Archive) /\ mail[Archive][u].msg = m
  BY DEF Archived, Held
<1>2. u \in Held(Archive)'
  BY <1>1 DEF Held
<1> QED BY <1>1, <1>2 DEF Archived

LEMMA SoleCopies ==
    ASSUME TypeOK, NEW w \in Worker, SoleInv(w), BulkTask(w), CopyMessages(w)
    PROVE  SoleInv(w)'
<1>1. /\ \A f \in Folder : DOMAIN mail[f] \subseteq DOMAIN mail'[f]
      /\ \A f \in Folder : \A u \in DOMAIN mail[f] : mail'[f][u] = mail[f][u]
      /\ \A f \in Folder : f # job[w].to => mail'[f] = mail[f]
      /\ \A u \in job[w].now \cap Held(job[w].from) :
             \E p \in DOMAIN mail'[job[w].to] :
                 p \notin DOMAIN mail[job[w].to] /\ mail'[job[w].to][p] = mail[job[w].from][u]
  BY CopyAppends
<1>2. job[w].from = Inbox /\ job[w].to = Archive /\ job[w] \in Job /\ job[w].at = "copy"
  BY DEF TypeOK, JobsOK, AtHand, CopyMessages, BulkTask, FolderPrograms
<1>3. deleted' = deleted
  BY DEF CopyMessages
<1>4. \A u \in Own : Accounted(u) => Accounted(u)'
  BY <1>1, <1>3, ArchivedStays, NobodyIsNone DEF Accounted
<1>5. mail'[Inbox] = mail[Inbox]
  BY <1>1, <1>2, NobodyIsNone
<1>6. Delivered'
  BY <1>4, <1>5 DEF SoleInv, Delivered, Held
<1>7. ASSUME NEW u \in job[w].now \cap Own PROVE Accounted(u)'
  <2>1. CASE u \in Held(Inbox)
    <3>1. PICK p \in DOMAIN mail'[Archive] : mail'[Archive][p] = mail[Inbox][u]
      BY <1>1, <1>2, <2>1
    <3>2. mail[Inbox][u] # Nobody /\ mail[Inbox][u].msg = Initially[Inbox][u]
      BY <2>1 DEF SoleInv, Delivered, Held
    <3>3. p \in Held(Archive)'
      BY <3>1, <3>2 DEF Held
    <3> QED BY <3>1, <3>2, <3>3 DEF Accounted, Archived
  <2>2. CASE u \notin Held(Inbox)
    BY <1>4, <2>2 DEF SoleInv, Delivered
  <2> QED BY <2>1, <2>2
<1>8. PICK met : met = job[w].now \cap Held(job[w].from)
  OBVIOUS
<1>9. PICK j : j = [job[w] EXCEPT !.at = "mark", !.met = met]
  OBVIOUS
<1>10. job' = [job EXCEPT ![w] = j]
  BY <1>8, <1>9 DEF CopyMessages
<1>11. /\ j.at = "mark" /\ j.task = job[w].task /\ j.now = job[w].now /\ j.rest = job[w].rest
       /\ j.done = job[w].done /\ j.failed = job[w].failed /\ j.batch = job[w].batch
  BY <1>2, <1>9 DEF Job
<1>12. Books(j)
  BY <1>2, <1>11 DEF SoleInv, Books
<1>13. Settled(j)'
  BY <1>4, <1>7, <1>11 DEF SoleInv, Settled
<1> QED BY <1>6, <1>10, <1>11, <1>12, <1>13, SoleReplaced DEF SoleInv, TypeOK

LEMMA SoleMarks ==
    ASSUME TypeOK, NEW w \in Worker, SoleInv(w), BulkTask(w), MarkDeleted(w)
    PROVE  SoleInv(w)'
<1>1. /\ \A f \in Folder : DOMAIN mail'[f] = DOMAIN mail[f]
      /\ \A f \in Folder : \A u \in DOMAIN mail[f] :
             \/ mail'[f][u] = mail[f][u]
             \/ /\ f = job[w].from /\ u \in job[w].now /\ u \in Held(f)
                /\ mail'[f][u] = [mail[f][u] EXCEPT !.flagged = TRUE]
                /\ mail'[f][u] \in Copy
  BY MarkFlags
<1>2. job[w].from = Inbox /\ job[w] \in Job /\ job[w].at = "mark"
  BY DEF TypeOK, JobsOK, AtHand, MarkDeleted, BulkTask, FolderPrograms
<1>3. deleted' = IF job[w].delete THEN deleted \cup Named(w) ELSE deleted
  BY DEF MarkDeleted, Renounce
<1>4. \A u \in Own : Accounted(u) => Accounted(u)'
  BY <1>1, <1>2, <1>3, ArchivedStays, NobodyIsNone DEF Accounted
<1>5. ASSUME NEW u \in job[w].now \cap Own PROVE Accounted(u)'
  <2>1. CASE u \notin Held(Inbox) \/ ~job[w].delete
    BY <1>2, <1>4, <2>1 DEF SoleInv, Delivered, Settled
  <2>2. CASE u \in Held(Inbox) /\ job[w].delete
    <3>1. mail[Inbox][u].msg = Initially[Inbox][u]
      BY <2>2 DEF SoleInv, Delivered
    <3>2. Initially[Inbox][u] \in Named(w)
      BY <1>2, <2>2, <3>1 DEF Named
    <3> QED BY <1>3, <2>2, <3>2 DEF Accounted
  <2> QED BY <2>1, <2>2
<1>6. ASSUME NEW u \in Own
      PROVE  /\ u \in DOMAIN mail'[Inbox]
             /\ u \notin Held(Inbox)' => Accounted(u)'
             /\ u \in Held(Inbox)' => /\ mail'[Inbox][u].msg = Initially[Inbox][u]
                                      /\ mail'[Inbox][u].flagged => Accounted(u)'
  <2>1. u \in DOMAIN mail[Inbox] /\ u \in DOMAIN mail'[Inbox]
    BY <1>1, NobodyIsNone DEF SoleInv, Delivered
  <2>2. CASE mail'[Inbox][u] = mail[Inbox][u]
    <3>1. u \in Held(Inbox)' <=> u \in Held(Inbox)
      BY <2>1, <2>2 DEF Held
    <3> QED BY <1>4, <2>1, <2>2, <3>1 DEF SoleInv, Delivered
  <2>3. CASE mail'[Inbox][u] # mail[Inbox][u]
    <3>1. /\ u \in job[w].now /\ u \in Held(Inbox) /\ mail'[Inbox][u] \in Copy
          /\ mail'[Inbox][u] = [mail[Inbox][u] EXCEPT !.flagged = TRUE]
      BY <1>1, <2>1, <2>3, NobodyIsNone
    <3>2. mail[Inbox][u] \in Copy
      BY <3>1, HeldUids, NobodyIsNone DEF TypeOK
    <3>3. mail'[Inbox][u].msg = mail[Inbox][u].msg /\ mail'[Inbox][u] # Nobody
      BY <3>1, <3>2, NobodyIsNone DEF Copy
    <3>4. mail[Inbox][u].msg = Initially[Inbox][u]
      BY <3>1 DEF SoleInv, Delivered
    <3>5. u \in Held(Inbox)'
      BY <2>1, <3>3 DEF Held
    <3> QED BY <1>5, <2>1, <3>1, <3>3, <3>4, <3>5
  <2> QED BY <2>2, <2>3
<1>7. Delivered'
  BY <1>6 DEF Delivered
<1>8. PICK j : j = [job[w] EXCEPT !.at = "expunge"]
  OBVIOUS
<1>9. job' = [job EXCEPT ![w] = j]
  BY <1>8 DEF MarkDeleted, Goto
<1>10. /\ j.at = "expunge" /\ j.task = job[w].task /\ j.now = job[w].now /\ j.rest = job[w].rest
       /\ j.done = job[w].done /\ j.failed = job[w].failed /\ j.batch = job[w].batch
  BY <1>2, <1>8 DEF Job
<1>11. Books(j)
  BY <1>2, <1>10 DEF SoleInv, Books
<1>12. Settled(j)'
  BY <1>4, <1>5, <1>10 DEF SoleInv, Settled
<1> QED BY <1>7, <1>9, <1>10, <1>11, <1>12, SoleReplaced DEF SoleInv, TypeOK

LEMMA SoleExpunges ==
    ASSUME TypeOK, NEW w \in Worker, SoleInv(w), BulkTask(w), Expunge(w, Succeeded(w))
    PROVE  SoleInv(w)'
<1>1. /\ \A f \in Folder : DOMAIN mail'[f] = DOMAIN mail[f]
      /\ \A f \in Folder : \A u \in DOMAIN mail[f] :
             \/ mail'[f][u] = mail[f][u]
             \/ /\ f = job[w].from /\ u \in Held(f) /\ mail[f][u].flagged
                /\ mail'[f][u] = Nobody
  BY ExpungeRemoves
<1>2. job[w].from = Inbox /\ job[w] \in Job /\ job[w].at = "expunge"
  BY DEF TypeOK, JobsOK, AtHand, Expunge, BulkTask, FolderPrograms
<1>3. deleted' = deleted /\ Succeeded(w)
  BY DEF Expunge
<1>4. \A u \in Own : Accounted(u) => Accounted(u)'
  BY <1>1, <1>2, <1>3, ArchivedStays, NobodyIsNone DEF Accounted
<1>5. ASSUME NEW u \in Own
      PROVE  /\ u \in DOMAIN mail'[Inbox]
             /\ u \notin Held(Inbox)' => Accounted(u)'
             /\ u \in Held(Inbox)' => /\ mail'[Inbox][u].msg = Initially[Inbox][u]
                                      /\ mail'[Inbox][u].flagged => Accounted(u)'
  <2>1. u \in DOMAIN mail[Inbox] /\ u \in DOMAIN mail'[Inbox]
    BY <1>1, NobodyIsNone DEF SoleInv, Delivered
  <2>2. CASE mail'[Inbox][u] = mail[Inbox][u]
    <3>1. u \in Held(Inbox)' <=> u \in Held(Inbox)
      BY <2>1, <2>2 DEF Held
    <3> QED BY <1>4, <2>1, <2>2, <3>1 DEF SoleInv, Delivered
  <2>3. CASE mail'[Inbox][u] # mail[Inbox][u]
    <3>1. u \in Held(Inbox) /\ mail[Inbox][u].flagged /\ mail'[Inbox][u] = Nobody
      BY <1>1, <2>1, <2>3, NobodyIsNone
    <3>2. u \notin Held(Inbox)'
      BY <3>1 DEF Held
    <3> QED BY <1>4, <2>1, <3>1, <3>2 DEF SoleInv, Delivered
  <2> QED BY <2>2, <2>3
<1>6. Delivered'
  BY <1>5 DEF Delivered
<1>7. PICK at \in {"next", "report"} :
          at = IF job[w].batch \/ job[w].task = "single" THEN "report" ELSE "next"
  OBVIOUS
<1>8. PICK done : done = job[w].done \cup job[w].now
  OBVIOUS
<1>9. PICK j : j = [job[w] EXCEPT !.at = at, !.done = done]
  OBVIOUS
<1>10. job' = [job EXCEPT ![w] = j]
  BY <1>3, <1>7, <1>8, <1>9 DEF Succeeded
<1>11. /\ j.at = at /\ j.task = job[w].task /\ j.now = job[w].now /\ j.rest = job[w].rest
       /\ j.done = done /\ j.failed = job[w].failed /\ j.batch = job[w].batch
  BY <1>2, <1>9 DEF Job
<1>12. Books(j)
  BY <1>2, <1>7, <1>8, <1>11 DEF SoleInv, Books
<1>13. \A u \in (job[w].done \cup job[w].now) \cap Own : Accounted(u)'
  BY <1>2, <1>4 DEF SoleInv, Settled
<1>14. Settled(j)'
  BY <1>7, <1>8, <1>11, <1>13 DEF Settled
<1> QED BY <1>6, <1>7, <1>10, <1>11, <1>12, <1>14, SoleReplaced DEF SoleInv, TypeOK

LEMMA SoleFails ==
    ASSUME TypeOK, NEW w \in Worker, SoleInv(w), BulkTask(w), CommandFails(w, Failed(w))
    PROVE  SoleInv(w)'
<1>1. job[w] \in Job /\ UNCHANGED folderVars /\ Failed(w) /\ job[w].at \in {"copy", "mark", "expunge"}
  BY DEF TypeOK, JobsOK, CommandFails
<1>2. \A u \in job[w].done \cap Own : Accounted(u)
  BY DEF SoleInv, Settled
<1>3. CASE job[w].batch
  <2>1. PICK j : j = [job[w] EXCEPT !.at = "next", !.batch = FALSE, !.rest = job[w].now]
    OBVIOUS
  <2>2. job' = [job EXCEPT ![w] = j]
    BY <1>1, <1>3, <2>1 DEF Failed
  <2>3. /\ j.at = "next" /\ j.task = job[w].task /\ j.rest = job[w].now
        /\ j.done = job[w].done /\ j.failed = job[w].failed /\ j.batch = FALSE
    BY <1>1, <2>1 DEF Job
  <2>4. Books(j)
    BY <1>1, <1>3, <2>3 DEF SoleInv, Books
  <2>5. Settled(j)
    BY <1>2, <2>3 DEF Settled
  <2> QED BY <1>1, <2>2, <2>3, <2>4, <2>5, SoleQuiet DEF SoleInv, TypeOK
<1>4. CASE ~job[w].batch
  <2>1. PICK at \in {"next", "report"} : at = IF job[w].task = "single" THEN "report" ELSE "next"
    OBVIOUS
  <2>2. PICK failed : failed = job[w].failed \cup job[w].now
    OBVIOUS
  <2>3. PICK j : j = [job[w] EXCEPT !.at = at, !.failed = failed]
    OBVIOUS
  <2>4. job' = [job EXCEPT ![w] = j]
    BY <1>1, <1>4, <2>1, <2>2, <2>3 DEF Failed
  <2>5. /\ j.at = at /\ j.task = job[w].task /\ j.rest = job[w].rest
        /\ j.done = job[w].done /\ j.failed = failed /\ j.batch = FALSE
    BY <1>1, <1>4, <2>3 DEF Job
  <2>6. Books(j)
    BY <1>1, <1>4, <2>1, <2>2, <2>5 DEF SoleInv, Books
  <2>7. Settled(j)
    BY <1>2, <2>1, <2>5 DEF Settled
  <2> QED BY <1>1, <2>1, <2>4, <2>5, <2>6, <2>7, SoleQuiet DEF SoleInv, TypeOK
<1> QED BY <1>3, <1>4

LEMMA SoleTakesUp ==
    ASSUME TypeOK, NEW w \in Worker, SoleInv(w), NextSingle(w), UNCHANGED folderVars
    PROVE  SoleInv(w)'
<1>1. job[w] \in Job /\ job[w].at = "next"
  BY DEF TypeOK, JobsOK, NextSingle
<1>2. PICK u \in job[w].rest :
          job' = [job EXCEPT ![w].at = FirstStep(DeletesHere(w, u)), ![w].now = {u},
                             ![w].delete = DeletesHere(w, u), ![w].rest = @ \ {u}]
  BY Zenon DEF NextSingle
<1>3. PICK delete : delete = DeletesHere(w, u)
  OBVIOUS
<1>4. PICK at : at = FirstStep(delete) /\ (at = "copy" \/ (at = "mark" /\ delete))
  BY DEF FirstStep
<1>5. PICK rest : rest = job[w].rest \ {u}
  OBVIOUS
<1>6. PICK j : j = [job[w] EXCEPT !.at = at, !.now = {u}, !.delete = delete, !.rest = rest]
  OBVIOUS
<1>7. job' = [job EXCEPT ![w] = j]
  BY <1>2, <1>3, <1>4, <1>5, <1>6
<1>8. /\ j.at = at /\ j.task = job[w].task /\ j.now = {u} /\ j.rest = rest /\ j.delete = delete
      /\ j.done = job[w].done /\ j.failed = job[w].failed /\ j.batch = job[w].batch
  BY <1>1, <1>6 DEF Job
<1>9. Books(j)
  BY <1>1, <1>4, <1>5, <1>8 DEF SoleInv, Books
<1>10. Settled(j)
  BY <1>4, <1>8 DEF SoleInv, Settled
<1> QED BY <1>4, <1>7, <1>8, <1>9, <1>10, SoleQuiet DEF SoleInv, TypeOK

LEMMA SoleEnds ==
    ASSUME TypeOK, NEW w \in Worker, SoleInv(w), LastSingle(w), UNCHANGED folderVars
    PROVE  SoleInv(w)'
<1>1. job[w] \in Job /\ job[w].at = "next" /\ job[w].rest = {}
  BY DEF TypeOK, JobsOK, LastSingle
<1>2. PICK j : j = [job[w] EXCEPT !.at = "report"]
  OBVIOUS
<1>3. job' = [job EXCEPT ![w] = j]
  BY <1>2 DEF LastSingle, Goto
<1>4. /\ j.at = "report" /\ j.task = job[w].task /\ j.rest = {}
      /\ j.done = job[w].done /\ j.failed = job[w].failed /\ j.batch = job[w].batch
  BY <1>1, <1>2 DEF Job
<1>5. Books(j)
  BY <1>1, <1>4 DEF SoleInv, Books
<1>6. Settled(j)
  BY <1>4 DEF SoleInv, Settled
<1> QED BY <1>3, <1>4, <1>5, <1>6, SoleQuiet DEF SoleInv, TypeOK

LEMMA SoleNext ==
    ASSUME TypeOK, NEW w \in Worker, Sole(w), SoleInv(w), [Next]_vars
    PROVE  SoleInv(w)'
<1>1. ASSUME UNCHANGED <<mail, job, deleted>> PROVE SoleInv(w)'
  BY <1>1 DEF SoleInv, Delivered, Settled, Accounted, Archived, Held, Own
<1>2. Ticks \/ UNCHANGED vars => UNCHANGED <<mail, job, deleted>>
  BY DEF Ticks, vars, folderVars
<1>3. BeginBulk(w) => SoleInv(w)'
  BY SoleBegins
<1>4. ASSUME BulkStep(w) PROVE SoleInv(w)'
  <2>1. BulkTask(w)
    BY <1>4 DEF BulkStep
  <2>2. CopyMessages(w) => SoleInv(w)'
    BY <2>1, SoleCopies
  <2>3. MarkDeleted(w) => SoleInv(w)'
    BY <2>1, SoleMarks
  <2>4. Expunge(w, Succeeded(w)) => SoleInv(w)'
    BY <2>1, SoleExpunges
  <2>5. CommandFails(w, Failed(w)) => SoleInv(w)'
    BY <2>1, SoleFails
  <2>6. NextSingle(w) /\ UNCHANGED folderVars => SoleInv(w)'
    BY SoleTakesUp
  <2>7. LastSingle(w) /\ UNCHANGED folderVars => SoleInv(w)'
    BY SoleEnds
  <2>8. Reported(w) /\ UNCHANGED folderVars => SoleInv(w)'
    BY SoleIdle DEF Reported, TypeOK
  <2> QED BY <1>4, <2>2, <2>3, <2>4, <2>5, <2>6, <2>7, <2>8, Zenon DEF BulkStep
<1>5. Crash(w) => SoleInv(w)'
  BY SoleIdle DEF Crash, WorkerCrashes, TypeOK
<1> QED BY <1>1, <1>2, <1>3, <1>4, <1>5, SoleSteps

LEMMA BulkNext == BulkInv /\ [Next]_vars => BulkInv'
<1> SUFFICES ASSUME BulkInv, [Next]_vars PROVE BulkInv'
  OBVIOUS
<1>1. TypeOK'
  BY Stepped DEF BulkInv
<1>2. crew' = crew
  BY DEF Next, vars
<1>3. ASSUME NEW w \in Worker, Sole(w)' PROVE SoleInv(w)'
  <2>1. Sole(w)
    BY <1>2, <1>3 DEF Sole
  <2> QED BY <2>1, SoleNext DEF BulkInv
<1> QED BY <1>1, <1>3 DEF BulkInv

LEMMA BulkTruth ==
    ASSUME BulkInv
    PROVE  BulkReportsTruth
<1> SUFFICES ASSUME NEW w \in Worker, job[w].task = "bulk", job[w].at = "report",
                    crew[w] \subseteq FolderPrograms, \A v \in Worker \ {w} : crew[v] = {}
             PROVE  /\ job[w].done \cap job[w].failed = {}
                    /\ job[w].rest = {}
                    /\ \A u \in job[w].done \cap DOMAIN Initially[Inbox] :
                           LET m == Initially[Inbox][u]
                           IN  m \in deleted \/ \E c \in CopiesOf(m) : c[1] = Archive
  BY Zenon DEF BulkReportsTruth
<1>1. SoleInv(w)
  BY DEF BulkInv, Sole
<1>2. job[w].done \cap job[w].failed = {} /\ job[w].rest = {}
  BY <1>1 DEF SoleInv, Books
<1>3. ASSUME NEW m, Archived(m) PROVE \E c \in CopiesOf(m) : c[1] = Archive
  <2>1. PICK u \in Held(Archive) : mail[Archive][u].msg = m
    BY <1>3 DEF Archived
  <2>2. u \in Uid /\ Archive \in Folder
    BY HeldUids, NobodyIsNone DEF BulkInv, TypeOK
  <2>3. PICK c \in Folder \X Uid : c = <<Archive, u>>
    BY <2>2
  <2>4. c[1] = Archive /\ c[2] = u
    BY <2>3
  <2>5. c \in CopiesOf(m)
    BY <2>1, <2>4 DEF CopiesOf
  <2> QED BY <2>4, <2>5
<1>4. \A u \in job[w].done \cap DOMAIN Initially[Inbox] :
          Initially[Inbox][u] \in deleted \/ Archived(Initially[Inbox][u])
  BY <1>1 DEF SoleInv, Settled, Accounted, Own
<1> QED BY <1>2, <1>3, <1>4

\* What a bulk call reports as done was done, whatever commands of it fail and
\* whether they were batched: its message was to be deleted or is in the
\* folder it was to be moved to, no UID is both done and failed, none is
\* left, as long as nobody else works on the two folders.
THEOREM BulkReportsWhatItDid == Spec => []BulkReportsTruth
<1>1. Init => BulkInv
  BY TypeInit, SoleInit DEF BulkInv
<1>2. BulkInv => BulkReportsTruth
  BY BulkTruth
<1> QED BY <1>1, <1>2, BulkNext, PTL DEF Spec

-----------------------------------------------------------------------------
(* A return moves the message of its own row.                              *)

\* A return has a row in hand, then takes its copy out of Snoozed; a snooze
\* has a row to write from its COPY on.
Moving == {"copy", "mark", "expunge"}
Holding(j) == j.task = "return" /\ j.at \in Moving \cup {"forget"}
Taking(j) == j.task = "return" /\ j.at \in Moving
Writing(j, m) ==
    j.task = "snooze" /\ j.at \in {"mark", "expunge", "record"} /\ j.row.of = m

InHand == {job[w].row : w \in {v \in Worker : Holding(job[v])}}
Queued == UNION {job[w].queue : w \in Worker}
Taken == UNION {job[w].now : w \in {v \in Worker : Taking(job[v])}}

\* The rows of a message that wait to be returned, those about to be written,
\* and its copies in Snoozed that no return is taking out.
Awaiting(m) == {r \in (rows \cup Queued) \ InHand : r.of = m}
Pending(m) == {w \in Worker : Writing(job[w], m)}
Available(m) == {u \in Held(Snoozed) \ Taken : mail[Snoozed][u].msg = m}

\* Every row has a copy of its message in Snoozed to itself.
Enough == \A m \in Message :
              Cardinality(Awaiting(m)) + Cardinality(Pending(m)) <= Cardinality(Available(m))

\* The message a program has at hand is still there under its UID.
HasItsOwn(j) == \E u \in Held(j.from) : j.now = {u} /\ mail[j.from][u].msg = j.row.of

SnoozeFits(w, j) ==
    j.task = "snooze" =>
        /\ w \in Snoozers
        /\ j.at \in Moving \cup {"record"}
        /\ j.from # Snoozed /\ j.to = Snoozed
        /\ j.row.from # Snoozed /\ j.row.mid \in {j.row.of, Nobody}
        /\ j.at = "copy" => HasItsOwn(j)

ReturnFits(w, j) ==
    j.task = "return" =>
        /\ w \in Returners
        /\ j.at \in Moving \cup {"next", "forget"}
        /\ j.queue \subseteq ever
        /\ Taking(j) => j.from = Snoozed /\ j.to # Snoozed /\ HasItsOwn(j)
        /\ Holding(j) => j.row \notin j.queue

JobFits(w, j) ==
    /\ j.task \in {"none", "snooze", "return"}
    /\ j.task = "none" => j.at = "idle"
    /\ j.task # "return" => j.queue = {}
    /\ SnoozeFits(w, j) /\ ReturnFits(w, j)

RowsFit ==
    /\ rows \subseteq ever
    /\ \A r \in ever : r.from # Snoozed /\ r.mid \in {r.of, Nobody}

\* Only what a move is about to expunge is marked.
Marker(j, f, u) == j.at = "expunge" /\ j.from = f /\ u \in j.now
MarkedByMove ==
    \A f \in Folder : \A u \in Held(f) :
        mail[f][u].flagged => \E w \in Worker : Marker(job[w], f, u)

InKeeping ==
    /\ \A w \in Worker : JobFits(w, job[w])
    /\ RowsFit /\ MarkedByMove /\ Enough
    /\ faults = 0 /\ strays = {}

\* One worker returns rows and one snoozes.
Lone ==
    /\ \A v, w \in Returners : v = w
    /\ \A v, w \in Snoozers : v = w

Tidy == TypeOK /\ Lone /\ InKeeping /\ IsFiniteSet(Worker)

Identified == \A r \in ever : r.mid # Nobody

LEMMA AtMostOne ==
    ASSUME NEW S, IsFiniteSet(S), Cardinality(S) <= 1
    PROVE  \A v, w \in S : v = w
<1> SUFFICES ASSUME NEW v \in S, NEW w \in S, v # w PROVE FALSE
  OBVIOUS
<1>1. {v} \subseteq S /\ w \in S \ {v}
  OBVIOUS
<1>2. Cardinality(S) \in Nat /\ IsFiniteSet(S \ {v}) /\ Cardinality(S \ {v}) = Cardinality(S) - 1
  BY FS_RemoveElement, FS_CardinalityType
<1>3. Cardinality(S \ {v}) # 0 /\ Cardinality(S \ {v}) \in Nat
  BY <1>1, <1>2, FS_EmptySet, FS_CardinalityType
<1> QED BY <1>2, <1>3

-----------------------------------------------------------------------------
(* Counting.                                                               *)

LEMMA NoMore ==
    ASSUME NEW S, NEW T, IsFiniteSet(S), T \subseteq S
    PROVE  /\ Cardinality(S) \in Nat /\ Cardinality(T) \in Nat
           /\ Cardinality(T) <= Cardinality(S)
BY FS_Subset, FS_CardinalityType

LEMMA OneMore ==
    ASSUME NEW S, NEW T, NEW x, IsFiniteSet(S), T \subseteq S \cup {x}
    PROVE  /\ Cardinality(S) \in Nat /\ Cardinality(T) \in Nat
           /\ Cardinality(T) <= Cardinality(S) + 1
<1>1. /\ IsFiniteSet(S \cup {x})
      /\ Cardinality(S \cup {x}) = IF x \in S THEN Cardinality(S) ELSE Cardinality(S) + 1
  BY FS_AddElement
<1>2. /\ Cardinality(S) \in Nat /\ Cardinality(T) \in Nat
      /\ Cardinality(T) <= Cardinality(S \cup {x})
  BY <1>1, NoMore, FS_CardinalityType
<1>3. Cardinality(S \cup {x}) \in {Cardinality(S), Cardinality(S) + 1}
  BY <1>1, Zenon
<1> QED BY <1>2, <1>3

LEMMA OneLess ==
    ASSUME NEW S, NEW T, NEW x \in S, IsFiniteSet(S), T \subseteq S \ {x}
    PROVE  /\ Cardinality(S) \in Nat /\ Cardinality(T) \in Nat
           /\ Cardinality(T) + 1 <= Cardinality(S)
<1>1. IsFiniteSet(S \ {x}) /\ Cardinality(S \ {x}) = Cardinality(S) - 1
  BY FS_RemoveElement
<1>2. /\ Cardinality(T) \in Nat /\ Cardinality(S \ {x}) \in Nat
      /\ Cardinality(T) <= Cardinality(S \ {x})
  BY <1>1, NoMore
<1>3. Cardinality(S) \in Nat
  BY FS_CardinalityType
<1> QED BY <1>1, <1>2, <1>3

-----------------------------------------------------------------------------
(* What a step of one program changes in these sets.                       *)

LEMMA Finite ==
    ASSUME Tidy, NEW m
    PROVE  IsFiniteSet(Awaiting(m)) /\ IsFiniteSet(Pending(m)) /\ IsFiniteSet(Available(m))
<1>1. Queued \subseteq ever
  <2> SUFFICES ASSUME NEW w \in Worker PROVE job[w].queue \subseteq ever
    BY DEF Queued
  <2>1. JobFits(w, job[w])
    BY DEF Tidy, InKeeping
  <2> QED BY <2>1 DEF JobFits, ReturnFits
<1>2. Awaiting(m) \subseteq ever
  BY <1>1 DEF Awaiting, Tidy, InKeeping, RowsFit
<1>3. IsFiniteSet(Held(Snoozed))
  BY HeldUids, NobodyIsNone DEF Tidy, TypeOK
<1>4. Available(m) \subseteq Held(Snoozed) /\ Pending(m) \subseteq Worker
  BY DEF Available, Pending
<1> QED BY <1>2, <1>3, <1>4, FS_Subset DEF Tidy, TypeOK, RowsOK

LEMMA FiniteNext ==
    ASSUME MailOK', NEW m
    PROVE  IsFiniteSet(Available(m)')
<1>1. PICK box \in Seq(Copy \cup {Nobody}) : box = mail'[Snoozed]
  BY NobodyIsNone DEF MailOK
<1>2. DOMAIN box = 1 .. Len(box) /\ Len(box) \in Nat
  BY <1>1
<1>3. IsFiniteSet(DOMAIN box)
  BY <1>2, FS_Interval
<1>4. Available(m)' \subseteq DOMAIN box
  BY <1>1 DEF Available, Held
<1> QED BY <1>3, <1>4, FS_Subset

LEMMA EnoughOf ==
    ASSUME Tidy, MailOK', NEW m \in Message, Awaiting(m)' \subseteq Awaiting(m),
           Pending(m)' \subseteq Pending(m), Available(m) \subseteq Available(m)'
    PROVE  Cardinality(Awaiting(m)') + Cardinality(Pending(m)') <= Cardinality(Available(m)')
<1>1. IsFiniteSet(Awaiting(m)) /\ IsFiniteSet(Pending(m)) /\ IsFiniteSet(Available(m)')
  BY Finite, FiniteNext
<1>2. Cardinality(Awaiting(m)) + Cardinality(Pending(m)) <= Cardinality(Available(m))
  BY DEF Tidy, InKeeping, Enough
<1>3. /\ Cardinality(Awaiting(m)) \in Nat /\ Cardinality(Awaiting(m)') \in Nat
      /\ Cardinality(Awaiting(m)') <= Cardinality(Awaiting(m))
  BY <1>1, NoMore
<1>4. /\ Cardinality(Pending(m)) \in Nat /\ Cardinality(Pending(m)') \in Nat
      /\ Cardinality(Pending(m)') <= Cardinality(Pending(m))
  BY <1>1, NoMore
<1>5. /\ Cardinality(Available(m)) \in Nat /\ Cardinality(Available(m)') \in Nat
      /\ Cardinality(Available(m)) <= Cardinality(Available(m)')
  BY <1>1, NoMore
<1> QED BY <1>2, <1>3, <1>4, <1>5

LEMMA EnoughKept ==
    ASSUME Tidy, MailOK', \A m \in Message : Awaiting(m)' \subseteq Awaiting(m),
           \A m \in Message : Pending(m)' \subseteq Pending(m),
           \A m \in Message : Available(m) \subseteq Available(m)'
    PROVE  Enough'
BY EnoughOf DEF Enough

LEMMA AwaitingKept ==
    ASSUME NEW w \in Worker, Others(w), rows' \subseteq rows,
           job'[w].queue \subseteq job[w].queue \cup rows,
           Holding(job[w]) => Holding(job'[w]) /\ job'[w].row = job[w].row
    PROVE  \A m \in Message : Awaiting(m)' \subseteq Awaiting(m)
<1>1. rows' \cup Queued' \subseteq rows \cup Queued
  BY DEF Others, Queued
<1>2. InHand \subseteq InHand'
  <2> SUFFICES ASSUME NEW v \in Worker, Holding(job[v]) PROVE job[v].row \in InHand'
    BY DEF InHand
  <2>1. Holding(job'[v]) /\ job'[v].row = job[v].row
    BY DEF Others
  <2> QED BY <2>1 DEF InHand
<1> QED BY <1>1, <1>2 DEF Awaiting

LEMMA PendingKept ==
    ASSUME NEW w \in Worker, Others(w), \A m : Writing(job'[w], m) => Writing(job[w], m)
    PROVE  \A m \in Message : Pending(m)' \subseteq Pending(m)
BY DEF Others, Pending

\* What stays in Snoozed when `w` takes no more copies out of it than before.
LEMMA AvailableKept ==
    ASSUME NEW w \in Worker, Others(w), Taking(job'[w]) => Taking(job[w]) /\ job'[w].now = job[w].now,
           \A u \in Held(Snoozed) \ Taken :
               u \in Held(Snoozed)' /\ mail'[Snoozed][u].msg = mail[Snoozed][u].msg
    PROVE  \A m \in Message : Available(m) \subseteq Available(m)'
<1>1. Taken' \subseteq Taken
  <2> SUFFICES ASSUME NEW v \in Worker, Taking(job'[v]) PROVE job'[v].now \subseteq Taken
    BY DEF Taken
  <2>1. Taking(job[v]) /\ job'[v].now = job[v].now
    BY DEF Others
  <2> QED BY <2>1 DEF Taken
<1> QED BY <1>1 DEF Available

\* A step takes no message out of a folder, except an expunge from its own.
Stays(w) ==
    \A f \in Folder : ~(job[w].at = "expunge" /\ f = job[w].from) =>
        \A u \in Held(f) : u \in Held(f)' /\ mail'[f][u].msg = mail[f][u].msg

LEMMA OthersFit ==
    ASSUME Tidy, NEW w \in Worker, Others(w), Stays(w), crew' = crew, ever \subseteq ever',
           NEW v \in Worker, v # w
    PROVE  JobFits(v, job[v])'
<1>1. PICK j : j = job[v]
  OBVIOUS
<1>2. job'[v] = j
  BY <1>1 DEF Others
<1>3. JobFits(v, j) /\ JobFits(w, job[w])
  BY <1>1 DEF Tidy, InKeeping
<1>4. AtHand(j) /\ AtHand(job[w])
  BY <1>1 DEF Tidy, TypeOK, JobsOK
<1>5. job[w].at = "expunge" => job[w].task \in {"snooze", "return"}
  BY <1>3, <1>4 DEF JobFits, AtHand
<1>6. ASSUME j.at \in Moving, HasItsOwn(j), j.task = "snooze" => j.from # Snoozed,
             j.task = "return" => j.from = Snoozed, j.task \in {"snooze", "return"}
      PROVE  HasItsOwn(j)'
  <2>1. j.from \in Folder
    BY <1>4, <1>6 DEF AtHand, Moving
  <2>2. ~(job[w].at = "expunge" /\ j.from = job[w].from)
    <3>1. CASE job[w].task = "snooze" /\ job[w].at = "expunge"
      <4>1. w \in Snoozers /\ job[w].from # Snoozed
        BY <1>3, <3>1 DEF JobFits, SnoozeFits
      <4>2. j.task # "snooze"
        BY <1>3, <4>1 DEF JobFits, SnoozeFits, Tidy, Lone
      <4> QED BY <1>6, <4>1, <4>2
    <3>2. CASE job[w].task = "return" /\ job[w].at = "expunge"
      <4>1. w \in Returners /\ job[w].from = Snoozed
        BY <1>3, <3>2 DEF JobFits, ReturnFits, Taking, Moving
      <4>2. j.task # "return"
        BY <1>3, <4>1 DEF JobFits, ReturnFits, Tidy, Lone
      <4> QED BY <1>6, <4>1, <4>2
    <3> QED BY <1>5, <3>1, <3>2
  <2>3. PICK u \in Held(j.from) : j.now = {u} /\ mail[j.from][u].msg = j.row.of
    BY <1>6 DEF HasItsOwn
  <2>4. u \in Held(j.from)' /\ mail'[j.from][u].msg = mail[j.from][u].msg
    BY <2>1, <2>2, <2>3 DEF Stays
  <2> QED BY <2>3, <2>4 DEF HasItsOwn
<1>7. SnoozeFits(v, j)'
  <2>1. SnoozeFits(v, j)
    BY <1>3 DEF JobFits
  <2>2. j.task = "snooze" /\ j.at = "copy" => HasItsOwn(j)'
    BY <1>6, <2>1 DEF SnoozeFits, Moving
  <2>3. Snoozers' = Snoozers
    BY DEF Snoozers
  <2> QED BY <2>1, <2>2, <2>3 DEF SnoozeFits
<1>8. ReturnFits(v, j)'
  <2>1. ReturnFits(v, j)
    BY <1>3 DEF JobFits
  <2>2. Taking(j) => HasItsOwn(j)'
    BY <1>6, <2>1 DEF ReturnFits, Taking
  <2>3. Returners' = Returners
    BY DEF Returners
  <2> QED BY <2>1, <2>2, <2>3 DEF ReturnFits, Taking, Holding
<1>9. JobFits(v, j)'
  BY <1>3, <1>7, <1>8 DEF JobFits
<1> QED BY <1>2, <1>9 DEF JobFits, SnoozeFits, ReturnFits, HasItsOwn, Taking, Holding, Held

LEMMA OwnStep ==
    ASSUME Tidy, NEW w \in Worker, Others(w), Stays(w), UNCHANGED <<crew, faults, strays>>,
           ever \subseteq ever', NEW j, job'[w] = j, JobFits(w, j)', RowsFit', MarkedByMove', Enough'
    PROVE  InKeeping'
<1>1. JobFits(w, job[w])'
  BY DEF JobFits, SnoozeFits, ReturnFits, HasItsOwn, Taking, Holding, Held
<1>2. \A v \in Worker : JobFits(v, job[v])'
  BY <1>1, OthersFit
<1> QED BY <1>2 DEF InKeeping, Tidy

-----------------------------------------------------------------------------
(* The steps that leave the folders and the table alone.                   *)

Undisturbed == UNCHANGED <<mail, rows, ever, crew, faults, strays>>

LEMMA UndisturbedKeeps ==
    ASSUME Tidy, NEW w \in Worker, Others(w), job[w].at # "expunge", UNCHANGED mail
    PROVE  Stays(w) /\ MarkedByMove'
<1>1. Stays(w)
  BY DEF Stays, Held
<1>2. ASSUME NEW f \in Folder, NEW u \in Held(f), mail[f][u].flagged
      PROVE  \E v \in Worker : Marker(job'[v], f, u)
  <2>1. PICK v \in Worker : Marker(job[v], f, u)
    BY <1>2 DEF Tidy, InKeeping, MarkedByMove
  <2>2. v # w
    BY <2>1 DEF Marker
  <2> QED BY <2>1, <2>2 DEF Others
<1>3. MarkedByMove'
  BY <1>2 DEF MarkedByMove, Held, Marker
<1> QED BY <1>1, <1>3

LEMMA OwnQuiet ==
    ASSUME Tidy, MailOK', NEW w \in Worker, job[w].at # "expunge", Undisturbed,
           NEW j, job' = [job EXCEPT ![w] = j], JobFits(w, j), j.queue \subseteq job[w].queue \cup rows,
           Holding(job[w]) => Holding(j) /\ j.row = job[w].row,
           Taking(j) => Taking(job[w]) /\ j.now = job[w].now,
           \A m : Writing(j, m) => Writing(job[w], m)
    PROVE  InKeeping'
<1>1. job'[w] = j /\ Others(w)
  BY JobReplaced DEF Tidy, TypeOK, Others
<1>2. UNCHANGED <<mail, rows, ever, crew, faults, strays>>
  BY DEF Undisturbed
<1>3. Stays(w) /\ RowsFit' /\ MarkedByMove'
  BY <1>1, <1>2, UndisturbedKeeps DEF Tidy, InKeeping, RowsFit
<1>4. JobFits(w, j)'
  BY <1>2 DEF JobFits, SnoozeFits, ReturnFits, HasItsOwn, Taking, Holding, Held, Snoozers, Returners
<1>5. \A m \in Message : Awaiting(m)' \subseteq Awaiting(m)
  BY <1>1, <1>2, AwaitingKept
<1>6. \A m \in Message : Pending(m)' \subseteq Pending(m)
  BY <1>1, PendingKept
<1>7. \A u \in Held(Snoozed) \ Taken :
          u \in Held(Snoozed)' /\ mail'[Snoozed][u].msg = mail[Snoozed][u].msg
  BY <1>2 DEF Held
<1>8. \A m \in Message : Available(m) \subseteq Available(m)'
  BY <1>1, <1>7, AvailableKept
<1>9. Enough'
  BY <1>5, <1>6, <1>8, EnoughKept
<1> QED BY <1>1, <1>2, <1>3, <1>4, <1>9, OwnStep

\* A program that is not running holds nothing.
LEMMA IdleHolds ==
    ASSUME Tidy, NEW w \in Worker, ~Busy(w)
    PROVE  job[w].at = "idle" /\ ~Holding(job[w]) /\ ~Taking(job[w])
BY DEF Busy, Holding, Taking, Moving

LEMMA OwnSnoozes ==
    ASSUME Tidy, MailOK', NEW w \in Worker, NEW by \in {"cli", "dashboard"}, NEW f \in Folder,
           NEW u \in Held(f), NEW at \in 0 .. MaxTime, w \in Snoozers,
           StartSnooze(w, by, f, u, at), UNCHANGED crew
    PROVE  InKeeping'
<1>1. PICK row : row = SnoozeRow(by, f, u, at)
  OBVIOUS
<1>2. PICK j : j = [Idle EXCEPT !.at = "copy", !.task = "snooze", !.by = by, !.from = f,
                                !.to = Snoozed, !.now = {u}, !.row = row]
  OBVIOUS
<1>3. job' = [job EXCEPT ![w] = j] /\ f # Snoozed /\ ~Busy(w)
  BY <1>1, <1>2, Zenon DEF StartSnooze
<1>4. Undisturbed
  BY DEF StartSnooze, Undisturbed, folderVars, snoozeVars
<1>5. /\ j.at = "copy" /\ j.task = "snooze" /\ j.from = f /\ j.to = Snoozed /\ j.now = {u}
      /\ j.row = row /\ j.queue = {}
  BY <1>2 DEF Idle
<1>6. row.from = f /\ row.of = mail[f][u].msg /\ row.mid \in {row.of, Nobody}
  BY <1>1 DEF SnoozeRow
<1>7. HasItsOwn(j)
  BY <1>5, <1>6 DEF HasItsOwn
<1>8. JobFits(w, j)
  BY <1>3, <1>5, <1>6, <1>7 DEF JobFits, SnoozeFits, ReturnFits, Moving
<1>9. ~Holding(job[w]) /\ ~Taking(j) /\ job[w].at # "expunge" /\ \A m : ~Writing(j, m)
  BY <1>3, <1>5, IdleHolds DEF Taking, Writing
<1> QED BY <1>3, <1>4, <1>5, <1>8, <1>9, OwnQuiet

LEMMA OwnReturns ==
    ASSUME Tidy, MailOK', NEW w \in Worker, NEW by, NEW queue \in SUBSET rows, w \in Returners,
           ~Busy(w), Undisturbed,
           job' = [job EXCEPT ![w] =
               [Idle EXCEPT !.at = "next", !.task = "return", !.by = by, !.queue = queue]]
    PROVE  InKeeping'
<1>1. PICK j : j = [Idle EXCEPT !.at = "next", !.task = "return", !.by = by, !.queue = queue]
  OBVIOUS
<1>2. j.at = "next" /\ j.task = "return" /\ j.queue = queue
  BY <1>1 DEF Idle
<1>3. ~Holding(job[w]) /\ ~Taking(j) /\ ~Holding(j) /\ job[w].at # "expunge" /\ \A m : ~Writing(j, m)
  BY <1>2, IdleHolds DEF Taking, Holding, Writing, Moving
<1>4. queue \subseteq ever
  BY DEF Tidy, InKeeping, RowsFit
<1>5. JobFits(w, j)
  BY <1>2, <1>3, <1>4 DEF JobFits, SnoozeFits, ReturnFits, Moving
<1> QED BY <1>1, <1>2, <1>3, <1>5, OwnQuiet

LEMMA OwnBegins ==
    ASSUME Tidy, MailOK', NEW w \in Worker, Begin(w), UNCHANGED crew
    PROVE  InKeeping'
<1>1. ASSUME NEW by \in {"cli", "dashboard"}, NEW f \in {Inbox, Archive}, NEW at \in 0 .. MaxTime,
             NEW u \in Held(f), crew[w] \cap {"snooze", "dashboardSnooze"} # {},
             StartSnooze(w, by, f, u, at)
      PROVE  InKeeping'
  <2>1. f \in Folder
    BY NobodyIsNone
  <2>2. w \in Snoozers
    BY <1>1 DEF Snoozers
  <2> QED BY <1>1, <2>1, <2>2, OwnSnoozes
<1>2. ASSUME NEW by \in {"cli", "dashboard"}, StartSweep(w, by), w \in Returners
      PROVE  InKeeping'
  <2>1. PICK now : now = IF by = "cli" THEN time + Skew ELSE time
    OBVIOUS
  <2>2. PICK queue : queue = SnoozedDue(now, by)
    OBVIOUS
  <2>3. /\ ~Busy(w) /\ UNCHANGED <<folderVars, faults, snoozeVars>>
        /\ job' = [job EXCEPT ![w] =
               [Idle EXCEPT !.at = "next", !.task = "return", !.by = by, !.queue = queue]]
    BY <1>2, <2>1, <2>2, Zenon DEF StartSweep
  <2>4. queue \in SUBSET rows
    BY <2>2 DEF SnoozedDue
  <2>5. Undisturbed
    BY <2>3 DEF Undisturbed, folderVars, snoozeVars
  <2> QED BY <1>2, <2>3, <2>4, <2>5, OwnReturns
<1>3. ASSUME NEW by \in {"cli", "dashboard"}, NEW row \in rows, StartCancel(w, by, row),
             w \in Returners
      PROVE  InKeeping'
  <2>1. PICK queue : queue = {row}
    OBVIOUS
  <2>2. /\ ~Busy(w) /\ UNCHANGED <<folderVars, faults, snoozeVars>>
        /\ job' = [job EXCEPT ![w] =
               [Idle EXCEPT !.at = "next", !.task = "return", !.by = by, !.queue = queue]]
    BY <1>3, <2>1, Zenon DEF StartCancel
  <2>3. queue \in SUBSET rows
    BY <2>1
  <2>4. Undisturbed
    BY <2>2 DEF Undisturbed, folderVars, snoozeVars
  <2> QED BY <1>3, <2>2, <2>3, <2>4, OwnReturns
<1>4. "sweep" \in crew[w] \/ "check" \in crew[w] \/ "button" \in crew[w] \/ "cancel" \in crew[w]
          => w \in Returners
  BY DEF Returners
<1>5. \A by \in {"cli", "dashboard"} :
          (IF by = "cli" THEN "snooze" ELSE "dashboardSnooze") \in crew[w]
              => crew[w] \cap {"snooze", "dashboardSnooze"} # {}
  OBVIOUS
<1>6. \/ \E by \in {"cli", "dashboard"}, f \in {Inbox, Archive}, at \in 0 .. MaxTime :
             /\ (IF by = "cli" THEN "snooze" ELSE "dashboardSnooze") \in crew[w]
             /\ \E u \in Held(f) : StartSnooze(w, by, f, u, at)
      \/ w \in Returners /\ \E by \in {"cli", "dashboard"} : StartSweep(w, by)
      \/ w \in Returners /\ \E by \in {"cli", "dashboard"} : \E row \in rows : StartCancel(w, by, row)
  BY <1>4, Zenon DEF Begin
<1> QED BY <1>1, <1>2, <1>3, <1>5, <1>6, Zenon

LEMMA OwnDone ==
    ASSUME Tidy, MailOK', NEW w \in Worker, ReturnDone(w), UNCHANGED crew
    PROVE  InKeeping'
<1>1. /\ job' = [job EXCEPT ![w] = Idle] /\ job[w].at = "next" /\ Undisturbed
  BY DEF ReturnDone, Undisturbed, folderVars, snoozeVars
<1>2. PICK j : j = Idle
  OBVIOUS
<1>3. j.at = "idle" /\ j.task = "none" /\ j.queue = {}
  BY <1>2 DEF Idle
<1>4. JobFits(w, j) /\ ~Taking(j) /\ \A m : ~Writing(j, m)
  BY <1>3 DEF JobFits, SnoozeFits, ReturnFits, Taking, Writing
<1>5. ~Holding(job[w]) /\ job[w].at # "expunge"
  BY <1>1 DEF Holding, Moving
<1> QED BY <1>1, <1>2, <1>3, <1>4, <1>5, OwnQuiet

-----------------------------------------------------------------------------
(* A return takes up a row, whose message it finds.                        *)

\* When one return is between two rows, no row is in hand.
LEMMA NoneInHand ==
    ASSUME Tidy, NEW w \in Worker, job[w].task = "return", ~Holding(job[w])
    PROVE  InHand = {} /\ Taken = {}
<1>1. \A v \in Worker : job[v].task = "return" => v = w
  BY DEF Tidy, InKeeping, JobFits, ReturnFits, Lone
<1>2. \A v \in Worker : ~Holding(job[v]) /\ ~Taking(job[v])
  BY <1>1 DEF Holding, Taking
<1> QED BY <1>2 DEF InHand, Taken

LEMMA RowIsFound ==
    ASSUME Tidy, Identified, NEW w \in Worker, NEW row \in job[w].queue, ReturnNext(w, row)
    PROVE  /\ row \in Row /\ row \in Awaiting(row.of) /\ row.from # Snoozed
           /\ FoundUids(row) # {} /\ FoundUids(row) \subseteq Available(row.of)
<1>1. job[w].task = "return" /\ job[w].at = "next" /\ job[w] \in Job
  BY DEF ReturnNext, Tidy, TypeOK, JobsOK
<1>2. JobFits(w, job[w]) /\ row \in Row
  BY <1>1 DEF Tidy, InKeeping, Job
<1>3. row \in ever
  BY <1>1, <1>2 DEF JobFits, ReturnFits
<1>4. row.mid = row.of /\ row.from # Snoozed /\ row.of \in Message
  BY <1>2, <1>3 DEF Tidy, InKeeping, RowsFit, Identified, Row
<1>5. InHand = {} /\ Taken = {}
  BY <1>1, NoneInHand DEF Holding, Moving
<1>6. row \in Awaiting(row.of)
  BY <1>5 DEF Awaiting, Queued
<1>7. Available(row.of) = FoundUids(row)
  BY <1>4, <1>5 DEF Available, FoundUids
<1>8. Available(row.of) # {}
  <2>1. IsFiniteSet(Awaiting(row.of)) /\ IsFiniteSet(Pending(row.of)) /\ IsFiniteSet(Available(row.of))
    BY Finite
  <2>2. Cardinality(Awaiting(row.of)) + Cardinality(Pending(row.of)) <= Cardinality(Available(row.of))
    BY <1>4 DEF Tidy, InKeeping, Enough
  <2>3. Cardinality(Awaiting(row.of)) # 0
    BY <1>6, <2>1, FS_EmptySet
  <2>4. /\ Cardinality(Awaiting(row.of)) \in Nat /\ Cardinality(Pending(row.of)) \in Nat
        /\ Cardinality(Available(row.of)) \in Nat
    BY <2>1, FS_CardinalityType
  <2>5. Cardinality(Available(row.of)) # 0
    BY <2>2, <2>3, <2>4
  <2> QED BY <2>1, <2>5, FS_EmptySet
<1> QED BY <1>2, <1>4, <1>6, <1>7, <1>8

LEMMA OwnTakesUp ==
    ASSUME Tidy, MailOK', Identified, NEW w \in Worker, NEW row \in job[w].queue,
           ReturnNext(w, row), UNCHANGED crew
    PROVE  InKeeping'
<1>1. /\ job[w].task = "return" /\ job[w].at = "next" /\ job[w] \in Job
      /\ UNCHANGED <<mail, rows, ever, strays>>
  BY DEF ReturnNext, Tidy, TypeOK, JobsOK, folderVars, snoozeVars
<1>2. /\ row \in Row /\ row \in Awaiting(row.of) /\ row.from # Snoozed
      /\ FoundUids(row) # {} /\ FoundUids(row) \subseteq Available(row.of)
  BY RowIsFound
<1>3. PICK u \in FoundUids(row) :
          /\ UNCHANGED faults
          /\ job' = [job EXCEPT ![w].at = "copy", ![w].row = row, ![w].from = Snoozed,
                                ![w].to = row.from, ![w].now = {u}, ![w].queue = @ \ {row}]
  <2>1. PICK u \in FoundUids(row) \cup {row.uid} :
            /\ CASE u \in FoundUids(row) -> UNCHANGED faults
                 [] FoundUids(row) = {} -> UNCHANGED faults
                 [] OTHER -> Fault
            /\ job' = [job EXCEPT ![w].at = "copy", ![w].row = row, ![w].from = Snoozed,
                                  ![w].to = row.from, ![w].now = {u}, ![w].queue = @ \ {row}]
    BY Zenon DEF ReturnNext
  <2>2. ~Fault
    BY DEF Fault, Tidy, InKeeping
  <2>3. u \in FoundUids(row) /\ UNCHANGED faults
    BY <1>2, <2>1, <2>2
  <2> QED BY <2>1, <2>3
<1>4. PICK queue : queue = job[w].queue \ {row}
  OBVIOUS
<1>5. PICK j : j = [job[w] EXCEPT !.at = "copy", !.row = row, !.from = Snoozed, !.to = row.from,
                                  !.now = {u}, !.queue = queue]
  OBVIOUS
<1>6. job' = [job EXCEPT ![w] = j]
  BY <1>3, <1>4, <1>5
<1>7. /\ j.at = "copy" /\ j.task = "return" /\ j.from = Snoozed /\ j.to = row.from /\ j.now = {u}
      /\ j.queue = queue /\ j.row = row
  BY <1>1, <1>5 DEF Job
<1>8. u \in Available(row.of) /\ u \in Held(Snoozed) /\ mail[Snoozed][u].msg = row.of
  BY <1>2, <1>3 DEF Available
<1>9. HasItsOwn(j)
  BY <1>7, <1>8 DEF HasItsOwn
<1>10. JobFits(w, j)
  <2>1. w \in Returners /\ queue \subseteq ever /\ row \notin queue
    BY <1>1, <1>4 DEF Tidy, InKeeping, JobFits, ReturnFits
  <2> QED BY <1>2, <1>7, <1>9, <2>1 DEF JobFits, SnoozeFits, ReturnFits, Moving
<1>11. job'[w] = j /\ Others(w)
  BY <1>6, JobReplaced DEF Tidy, TypeOK, Others
<1>12. Stays(w) /\ RowsFit' /\ MarkedByMove'
  BY <1>1, <1>11, UndisturbedKeeps DEF Tidy, InKeeping, RowsFit
<1>13. JobFits(w, j)'
  BY <1>1, <1>10 DEF JobFits, SnoozeFits, ReturnFits, HasItsOwn, Taking, Holding, Held, Snoozers, Returners
<1>14. ~Holding(job[w]) /\ Holding(j) /\ ~Writing(j, row.of)
  BY <1>1, <1>7 DEF Holding, Writing, Moving
<1>15. \A m \in Message : Awaiting(m)' \subseteq Awaiting(m)
  BY <1>1, <1>4, <1>7, <1>11, <1>14, AwaitingKept
<1>16. \A m \in Message : Pending(m)' \subseteq Pending(m)
  BY <1>7, <1>11, PendingKept DEF Writing
<1>17. row \notin Awaiting(row.of)'
  <2>1. row \in InHand'
    BY <1>7, <1>11, <1>14 DEF InHand
  <2> QED BY <2>1 DEF Awaiting
<1>18. \A m \in Message : Available(m) \subseteq Available(m)' \cup {u}
  <2>1. Taken' \subseteq Taken \cup {u}
    <3> SUFFICES ASSUME NEW v \in Worker, Taking(job'[v]) PROVE job'[v].now \subseteq Taken \cup {u}
      BY DEF Taken
    <3>1. CASE v = w
      BY <1>7, <1>11, <3>1
    <3>2. CASE v # w
      BY <1>11, <3>2 DEF Others, Taken
    <3> QED BY <3>1, <3>2
  <2> QED BY <1>1, <2>1 DEF Available, Held
<1>19. ASSUME NEW m \in Message
       PROVE  Cardinality(Awaiting(m)') + Cardinality(Pending(m)') <= Cardinality(Available(m)')
  <2>1. /\ IsFiniteSet(Awaiting(m)) /\ IsFiniteSet(Pending(m)) /\ IsFiniteSet(Available(m))
        /\ IsFiniteSet(Available(m)')
    BY Finite, FiniteNext
  <2>2. Cardinality(Awaiting(m)) + Cardinality(Pending(m)) <= Cardinality(Available(m))
    BY DEF Tidy, InKeeping, Enough
  <2>3. CASE m = row.of
    <3>1. row \in Awaiting(m) /\ Awaiting(m)' \subseteq Awaiting(m) \ {row}
      BY <1>2, <1>15, <1>17, <2>3
    <3>2. Pending(m)' \subseteq Pending(m) /\ Available(m) \subseteq Available(m)' \cup {u}
      BY <1>16, <1>18
    <3>3. /\ Cardinality(Awaiting(m)) \in Nat /\ Cardinality(Awaiting(m)') \in Nat
          /\ Cardinality(Awaiting(m)') + 1 <= Cardinality(Awaiting(m))
      BY <2>1, <3>1, OneLess
    <3>4. /\ Cardinality(Pending(m)) \in Nat /\ Cardinality(Pending(m)') \in Nat
          /\ Cardinality(Pending(m)') <= Cardinality(Pending(m))
      BY <2>1, <3>2, NoMore
    <3>5. /\ Cardinality(Available(m)) \in Nat /\ Cardinality(Available(m)') \in Nat
          /\ Cardinality(Available(m)) <= Cardinality(Available(m)') + 1
      BY <2>1, <3>2, OneMore
    <3> QED BY <2>2, <3>3, <3>4, <3>5
  <2>4. CASE m # row.of
    <3>1. u \notin Available(m)
      BY <1>8, <2>4 DEF Available
    <3>2. /\ Available(m) \subseteq Available(m)' /\ Awaiting(m)' \subseteq Awaiting(m)
          /\ Pending(m)' \subseteq Pending(m)
      BY <1>15, <1>16, <1>18, <3>1
    <3> QED BY <3>2, EnoughOf
  <2> QED BY <2>3, <2>4
<1>20. Enough'
  BY <1>19 DEF Enough
<1> QED BY <1>1, <1>3, <1>11, <1>12, <1>13, <1>20, OwnStep

-----------------------------------------------------------------------------
(* The commands of a snooze or a return.                                   *)

\* What a worker about to copy names is not marked.
LEMMA OwnUnmarked ==
    ASSUME Tidy, NEW w \in Worker, job[w].task \in {"snooze", "return"}, job[w].at = "copy"
    PROVE  /\ job[w].from \in Folder /\ job[w].to \in Folder
           /\ \A u \in Held(job[w].from) : ~mail[job[w].from][u].flagged
           /\ HasItsOwn(job[w])
<1>1. JobFits(w, job[w]) /\ job[w].from \in Folder /\ job[w].to \in Folder
  BY DEF Tidy, InKeeping, TypeOK, JobsOK, AtHand
<1>2. HasItsOwn(job[w])
  BY <1>1 DEF JobFits, SnoozeFits, ReturnFits, Taking, Moving
<1>3. ASSUME NEW u \in Held(job[w].from), mail[job[w].from][u].flagged PROVE FALSE
  <2>1. PICK v \in Worker : Marker(job[v], job[w].from, u)
    BY <1>1, <1>3 DEF Tidy, InKeeping, MarkedByMove
  <2>2. JobFits(v, job[v]) /\ job[v].at = "expunge" /\ job[v].from = job[w].from /\ v # w
    BY <2>1 DEF Tidy, InKeeping, Marker
  <2>3. CASE job[v].task = "snooze"
    <3>1. v \in Snoozers /\ job[w].from # Snoozed
      BY <2>2, <2>3 DEF JobFits, SnoozeFits
    <3>2. job[w].task # "snooze"
      BY <1>1, <2>2, <3>1 DEF JobFits, SnoozeFits, Tidy, Lone
    <3> QED BY <1>1, <3>1, <3>2 DEF JobFits, ReturnFits, Taking, Moving
  <2>4. CASE job[v].task = "return"
    <3>1. v \in Returners /\ job[w].from = Snoozed
      BY <2>2, <2>4 DEF JobFits, ReturnFits, Taking, Moving
    <3>2. job[w].task # "return"
      BY <1>1, <2>2, <3>1 DEF JobFits, ReturnFits, Tidy, Lone
    <3> QED BY <1>1, <3>1, <3>2 DEF JobFits, SnoozeFits
  <2> QED BY <2>2, <2>3, <2>4 DEF JobFits
<1> QED BY <1>1, <1>2, <1>3

LEMMA OwnCopied ==
    ASSUME Tidy, NEW w \in Worker, job[w].task \in {"snooze", "return"}, CopyMessages(w)
    PROVE  /\ Stays(w) /\ MarkedByMove' /\ Others(w)
           /\ job'[w].at = "mark" /\ job'[w].task = job[w].task /\ job'[w].from = job[w].from
           /\ job'[w].to = job[w].to /\ job'[w].now = job[w].now /\ job'[w].row = job[w].row
           /\ job'[w].queue = job[w].queue
<1>1. job[w] \in Job /\ job[w].at = "copy"
  BY DEF CopyMessages, Tidy, TypeOK, JobsOK
<1>2. Others(w) /\ job'[w] = [job[w] EXCEPT !.at = "mark", !.met = job[w].now \cap Held(job[w].from)]
  BY CopyStep DEF Tidy, TypeOK, MailStep, Copies
<1>3. /\ \A f \in Folder : DOMAIN mail[f] \subseteq DOMAIN mail'[f]
      /\ \A f \in Folder : \A u \in DOMAIN mail[f] : mail'[f][u] = mail[f][u]
      /\ \A f \in Folder : f # job[w].to => mail'[f] = mail[f]
      /\ \A p \in DOMAIN mail'[job[w].to] \ DOMAIN mail[job[w].to] :
             \E u \in job[w].now \cap Held(job[w].from) :
                 mail'[job[w].to][p] = mail[job[w].from][u]
  BY CopyAppends DEF Tidy
<1>4. Stays(w)
  BY <1>3 DEF Stays, Held
<1>5. ASSUME NEW f \in Folder, NEW u \in Held(f)', mail'[f][u].flagged
      PROVE  \E v \in Worker : Marker(job'[v], f, u)
  <2>1. CASE u \in DOMAIN mail[f]
    <3>1. u \in Held(f) /\ mail[f][u].flagged
      BY <1>3, <1>5, <2>1 DEF Held
    <3>2. PICK v \in Worker : Marker(job[v], f, u)
      BY <3>1 DEF Tidy, InKeeping, MarkedByMove
    <3>3. v # w
      BY <1>1, <3>2 DEF Marker
    <3> QED BY <1>2, <3>2, <3>3 DEF Others
  <2>2. CASE u \notin DOMAIN mail[f]
    <3>1. u \in DOMAIN mail'[f]
      BY DEF Held
    <3>2. f = job[w].to
      BY <1>3, <2>2, <3>1
    <3>3. PICK x \in Held(job[w].from) : mail'[f][u] = mail[job[w].from][x]
      BY <1>3, <2>2, <3>1, <3>2
    <3> QED BY <1>1, <1>5, <3>3, OwnUnmarked
  <2> QED BY <2>1, <2>2
<1>6. MarkedByMove'
  BY <1>5 DEF MarkedByMove, Marker
<1> QED BY <1>1, <1>2, <1>4, <1>6 DEF Job

\* A return copies its own message, out of Snoozed.
LEMMA OwnReturnCopies ==
    ASSUME Tidy, MailOK', NEW w \in Worker, ReturnCopies(w), UNCHANGED crew
    PROVE  InKeeping'
<1>1. /\ job[w].task = "return" /\ job[w].at = "copy" /\ CopyMessages(w)
      /\ UNCHANGED <<rows, ever, faults>>
      /\ strays' = strays \cup (Named(w) \ {job[w].row.of})
  BY DEF ReturnCopies, CopyMessages
<1>2. PICK j : j = job'[w]
  OBVIOUS
<1>3. /\ Stays(w) /\ MarkedByMove' /\ Others(w)
      /\ j.at = "mark" /\ j.task = "return" /\ j.from = job[w].from
      /\ j.to = job[w].to /\ j.now = job[w].now /\ j.row = job[w].row /\ j.queue = job[w].queue
  BY <1>1, <1>2, OwnCopied
<1>4. JobFits(w, job[w]) /\ HasItsOwn(job[w])
  BY <1>1, OwnUnmarked DEF Tidy, InKeeping
<1>5. /\ job[w].from = Snoozed /\ job[w].to # Snoozed /\ w \in Returners
      /\ job[w].queue \subseteq ever /\ job[w].row \notin job[w].queue
  BY <1>1, <1>4 DEF JobFits, ReturnFits, Taking, Holding, Moving
<1>6. PICK u \in Held(Snoozed) : job[w].now = {u} /\ mail[Snoozed][u].msg = job[w].row.of
  BY <1>4, <1>5 DEF HasItsOwn
<1>7. strays' = strays
  <2>1. Named(w) = {job[w].row.of}
    BY <1>5, <1>6 DEF Named
  <2> QED BY <1>1, <2>1
<1>8. mail'[Snoozed] = mail[Snoozed]
  BY <1>1, <1>5, CopyAppends, NobodyIsNone DEF Tidy
<1>9. HasItsOwn(j)'
  BY <1>3, <1>5, <1>6, <1>8 DEF HasItsOwn, Held
<1>10. JobFits(w, j)'
  BY <1>1, <1>3, <1>5, <1>9 DEF JobFits, SnoozeFits, ReturnFits, Taking, Holding, Moving, Returners
<1>11. RowsFit'
  BY <1>1 DEF Tidy, InKeeping, RowsFit
<1>12. Enough'
  <2>1. Holding(job[w]) /\ Holding(j) /\ Taking(job[w]) /\ \A m : ~Writing(j, m)
    BY <1>1, <1>3 DEF Holding, Taking, Writing, Moving
  <2>2. \A m \in Message : Awaiting(m)' \subseteq Awaiting(m)
    BY <1>1, <1>2, <1>3, <2>1, AwaitingKept
  <2>3. \A m \in Message : Pending(m)' \subseteq Pending(m)
    BY <1>2, <1>3, <2>1, PendingKept
  <2>4. \A u1 \in Held(Snoozed) : u1 \in Held(Snoozed)' /\ mail'[Snoozed][u1].msg = mail[Snoozed][u1].msg
    BY <1>8 DEF Held
  <2>5. \A m \in Message : Available(m) \subseteq Available(m)'
    BY <1>2, <1>3, <2>1, <2>4, AvailableKept
  <2> QED BY <2>2, <2>3, <2>5, EnoughKept
<1> QED BY <1>1, <1>2, <1>3, <1>7, <1>10, <1>11, <1>12, OwnStep

\* The copy a snooze makes is the one its row will have to itself.
LEMMA OwnSnoozeCopies ==
    ASSUME Tidy, MailOK', NEW w \in Worker, job[w].task = "snooze", CopyMessages(w),
           UNCHANGED snoozeVars, UNCHANGED crew
    PROVE  InKeeping'
<1>1. job[w].at = "copy" /\ UNCHANGED <<rows, ever, faults, strays>>
  BY DEF CopyMessages, snoozeVars
<1>2. PICK j : j = job'[w]
  OBVIOUS
<1>3. /\ Stays(w) /\ MarkedByMove' /\ Others(w)
      /\ j.at = "mark" /\ j.task = "snooze" /\ j.from = job[w].from
      /\ j.to = job[w].to /\ j.now = job[w].now /\ j.row = job[w].row /\ j.queue = job[w].queue
  BY <1>2, OwnCopied
<1>4. JobFits(w, job[w]) /\ HasItsOwn(job[w])
  BY <1>1, OwnUnmarked DEF Tidy, InKeeping
<1>5. PICK u \in job[w].now \cap Held(job[w].from) :
          mail[job[w].from][u].msg = job[w].row.of /\ mail[job[w].from][u] \in Copy
  <2>1. job[w].from \in Folder
    BY <1>1, OwnUnmarked
  <2> QED BY <1>4, <2>1, HeldUids DEF HasItsOwn, Tidy, TypeOK
<1>6. job[w].to = Snoozed
  BY <1>4 DEF JobFits, SnoozeFits
<1>7. PICK p \in DOMAIN mail'[Snoozed] :
          p \notin DOMAIN mail[Snoozed] /\ mail'[Snoozed][p] = mail[job[w].from][u]
  BY <1>5, <1>6, CopyAppends DEF Tidy
<1>8. p \in Held(Snoozed)' /\ mail'[Snoozed][p].msg = job[w].row.of
  BY <1>5, <1>7, NobodyIsNone DEF Held
<1>9. JobFits(w, j)'
  BY <1>1, <1>3, <1>4 DEF JobFits, SnoozeFits, ReturnFits, Taking, Holding, Moving, Snoozers
<1>10. RowsFit'
  BY <1>1 DEF Tidy, InKeeping, RowsFit
<1>11. ~Holding(job[w]) /\ ~Taking(j) /\ \A m : Writing(j, m) <=> m = job[w].row.of
  BY <1>3 DEF Holding, Taking, Writing
<1>12. \A m \in Message : Awaiting(m)' \subseteq Awaiting(m)
  BY <1>1, <1>2, <1>3, <1>11, AwaitingKept
<1>13. \A m \in Message : Pending(m)' \subseteq Pending(m) \cup {w}
  BY <1>3 DEF Others, Pending
<1>14. \A m \in Message : m # job[w].row.of => Pending(m)' \subseteq Pending(m)
  BY <1>2, <1>3, <1>11 DEF Others, Pending
<1>15. \A u1 \in Held(Snoozed) : u1 \in Held(Snoozed)' /\ mail'[Snoozed][u1].msg = mail[Snoozed][u1].msg
  BY <1>1, <1>3, NobodyIsNone DEF Stays
<1>16. \A m \in Message : Available(m) \subseteq Available(m)'
  BY <1>2, <1>3, <1>11, <1>15, AvailableKept
<1>17. p \notin Taken'
  <2> SUFFICES ASSUME NEW v \in Worker, Taking(job'[v]) PROVE p \notin job'[v].now
    BY DEF Taken
  <2>1. v # w /\ job'[v] = job[v] /\ Taking(job[v])
    BY <1>2, <1>3, <1>11 DEF Others
  <2>2. job[v].from = Snoozed /\ HasItsOwn(job[v])
    BY <2>1 DEF Tidy, InKeeping, JobFits, ReturnFits, Taking
  <2>3. job[v].now \subseteq DOMAIN mail[Snoozed]
    BY <2>2 DEF HasItsOwn, Held
  <2> QED BY <1>7, <2>1, <2>3
<1>18. ASSUME NEW m \in Message
       PROVE  Cardinality(Awaiting(m)') + Cardinality(Pending(m)') <= Cardinality(Available(m)')
  <2>1. IsFiniteSet(Awaiting(m)) /\ IsFiniteSet(Pending(m)) /\ IsFiniteSet(Available(m)')
    BY Finite, FiniteNext
  <2>2. Cardinality(Awaiting(m)) + Cardinality(Pending(m)) <= Cardinality(Available(m))
    BY DEF Tidy, InKeeping, Enough
  <2>3. CASE m = job[w].row.of
    <3>1. p \in Available(m)'
      BY <1>8, <1>17, <2>3 DEF Available
    <3>2. p \notin Available(m)
      BY <1>7 DEF Available, Held
    <3>3. Available(m) \subseteq Available(m)' \ {p}
      BY <1>16, <3>2
    <3>4. Awaiting(m)' \subseteq Awaiting(m) /\ Pending(m)' \subseteq Pending(m) \cup {w}
      BY <1>12, <1>13
    <3>5. /\ Cardinality(Awaiting(m)) \in Nat /\ Cardinality(Awaiting(m)') \in Nat
          /\ Cardinality(Awaiting(m)') <= Cardinality(Awaiting(m))
      BY <2>1, <3>4, NoMore
    <3>6. /\ Cardinality(Pending(m)) \in Nat /\ Cardinality(Pending(m)') \in Nat
          /\ Cardinality(Pending(m)') <= Cardinality(Pending(m)) + 1
      BY <2>1, <3>4, OneMore
    <3>7. /\ Cardinality(Available(m)) \in Nat /\ Cardinality(Available(m)') \in Nat
          /\ Cardinality(Available(m)) + 1 <= Cardinality(Available(m)')
      BY <2>1, <3>1, <3>3, OneLess
    <3> QED BY <2>2, <3>5, <3>6, <3>7
  <2>4. CASE m # job[w].row.of
    <3>1. /\ Awaiting(m)' \subseteq Awaiting(m) /\ Pending(m)' \subseteq Pending(m)
          /\ Available(m) \subseteq Available(m)'
      BY <1>12, <1>14, <1>16, <2>4
    <3> QED BY <3>1, EnoughOf
  <2> QED BY <2>3, <2>4
<1>19. Enough'
  BY <1>18 DEF Enough
<1> QED BY <1>1, <1>2, <1>3, <1>9, <1>10, <1>19, OwnStep

\* What is marked is what the move is about to expunge.
LEMMA OwnMarks ==
    ASSUME Tidy, MailOK', NEW w \in Worker, job[w].task \in {"snooze", "return"}, MarkDeleted(w),
           UNCHANGED snoozeVars, UNCHANGED crew
    PROVE  InKeeping'
<1>1. job[w].at = "mark" /\ job[w] \in Job /\ UNCHANGED <<rows, ever, faults, strays>>
  BY DEF MarkDeleted, Fault, snoozeVars, Tidy, TypeOK, JobsOK, InKeeping
<1>2. PICK j : j = job'[w]
  OBVIOUS
<1>3. Others(w) /\ j = [job[w] EXCEPT !.at = "expunge"]
  BY <1>2, MarkStep DEF Tidy, TypeOK, MailStep, Marks
<1>4. /\ j.at = "expunge" /\ j.task = job[w].task /\ j.from = job[w].from /\ j.to = job[w].to
      /\ j.now = job[w].now /\ j.row = job[w].row /\ j.queue = job[w].queue
  BY <1>1, <1>3 DEF Job
<1>5. /\ \A f \in Folder : DOMAIN mail'[f] = DOMAIN mail[f]
      /\ \A f \in Folder : \A u \in DOMAIN mail[f] :
             \/ mail'[f][u] = mail[f][u]
             \/ /\ f = job[w].from /\ u \in job[w].now /\ u \in Held(f)
                /\ mail'[f][u] = [mail[f][u] EXCEPT !.flagged = TRUE]
                /\ mail'[f][u] \in Copy
  BY MarkFlags DEF Tidy
<1>6. Stays(w)
  <2> SUFFICES ASSUME NEW f \in Folder, NEW u \in Held(f)
               PROVE  u \in Held(f)' /\ mail'[f][u].msg = mail[f][u].msg
    BY DEF Stays
  <2>1. mail[f][u] \in Copy /\ u \in DOMAIN mail[f] /\ u \in DOMAIN mail'[f]
    BY <1>5, HeldUids DEF Tidy, TypeOK, Held
  <2>2. CASE mail'[f][u] = mail[f][u]
    BY <2>1, <2>2 DEF Held
  <2>3. CASE mail'[f][u] = [mail[f][u] EXCEPT !.flagged = TRUE] /\ mail'[f][u] \in Copy
    BY <2>1, <2>3, NobodyIsNone DEF Held, Copy
  <2> QED BY <1>5, <2>1, <2>2, <2>3
<1>7. ASSUME NEW f \in Folder, NEW u \in Held(f)', mail'[f][u].flagged
      PROVE  \E v \in Worker : Marker(job'[v], f, u)
  <2>1. u \in DOMAIN mail[f]
    BY <1>5 DEF Held
  <2>2. CASE mail'[f][u] = mail[f][u]
    <3>1. u \in Held(f) /\ mail[f][u].flagged
      BY <1>7, <2>1, <2>2 DEF Held
    <3>2. PICK v \in Worker : Marker(job[v], f, u)
      BY <3>1 DEF Tidy, InKeeping, MarkedByMove
    <3>3. v # w
      BY <1>1, <3>2 DEF Marker
    <3> QED BY <1>3, <3>2, <3>3 DEF Others
  <2>3. CASE f = job[w].from /\ u \in job[w].now
    BY <1>2, <1>4, <2>3 DEF Marker
  <2> QED BY <1>5, <2>1, <2>2, <2>3
<1>8. MarkedByMove' /\ RowsFit'
  BY <1>1, <1>7 DEF MarkedByMove, Marker, Tidy, InKeeping, RowsFit
<1>9. JobFits(w, job[w]) /\ Snoozed \in Folder
  BY NobodyIsNone DEF Tidy, InKeeping
<1>10. \A u \in Held(Snoozed) : u \in Held(Snoozed)' /\ mail'[Snoozed][u].msg = mail[Snoozed][u].msg
  BY <1>1, <1>6, <1>9 DEF Stays
<1>11. ASSUME job[w].task = "return" PROVE HasItsOwn(j)'
  <2>1. HasItsOwn(job[w]) /\ job[w].from = Snoozed
    BY <1>1, <1>9, <1>11 DEF JobFits, ReturnFits, Taking, Moving
  <2>2. PICK u \in Held(Snoozed) : job[w].now = {u} /\ mail[Snoozed][u].msg = job[w].row.of
    BY <2>1 DEF HasItsOwn
  <2> QED BY <1>4, <1>10, <2>1, <2>2 DEF HasItsOwn
<1>12. JobFits(w, j)'
  <2>1. Snoozers' = Snoozers /\ Returners' = Returners /\ ever' = ever
    BY <1>1 DEF Snoozers, Returners
  <2>2. SnoozeFits(w, j)'
    BY <1>4, <1>9, <2>1 DEF JobFits, SnoozeFits, Moving
  <2>3. ReturnFits(w, j)'
    BY <1>1, <1>4, <1>9, <1>11, <2>1 DEF JobFits, ReturnFits, Taking, Holding, Moving
  <2> QED BY <1>4, <1>9, <2>2, <2>3 DEF JobFits
<1>13. Enough'
  <2>1. /\ Holding(job[w]) => Holding(j)
        /\ Taking(j) => Taking(job[w])
        /\ \A m : Writing(j, m) => Writing(job[w], m)
    BY <1>1, <1>4 DEF Holding, Taking, Writing, Moving
  <2>2. \A m \in Message : Awaiting(m)' \subseteq Awaiting(m)
    BY <1>1, <1>2, <1>3, <1>4, <2>1, AwaitingKept
  <2>3. \A m \in Message : Pending(m)' \subseteq Pending(m)
    BY <1>2, <1>3, <2>1, PendingKept
  <2>4. \A m \in Message : Available(m) \subseteq Available(m)'
    BY <1>2, <1>3, <1>4, <1>10, <2>1, AvailableKept
  <2> QED BY <2>2, <2>3, <2>4, EnoughKept
<1> QED BY <1>1, <1>2, <1>3, <1>6, <1>8, <1>12, <1>13, OwnStep

\* An expunge of a folder leaves nothing marked that the move has marked.
LEMMA ExpungeClears ==
    ASSUME TypeOK, NEW w \in Worker, NEW after, Expunge(w, after), faults = 0,
           NEW f \in Folder, f = job[w].from
    PROVE  \A u \in Held(f) : u \in job[w].now /\ mail[f][u].flagged => u \notin Held(f)'
<1>1. mail' = [mail EXCEPT ![f] =
          [u \in DOMAIN @ |-> IF u \in Expunged(w) /\ @[u] # Nobody /\ @[u].flagged
                              THEN Nobody ELSE @[u]]]
  BY DEF Expunge, Fault
<1>2. mail'[f] = [u \in DOMAIN mail[f] |->
                     IF u \in Expunged(w) /\ mail[f][u] # Nobody /\ mail[f][u].flagged
                     THEN Nobody ELSE mail[f][u]]
  BY <1>1 DEF TypeOK, MailOK
<1>3. ASSUME NEW u \in Held(f), u \in job[w].now, mail[f][u].flagged PROVE u \notin Held(f)'
  <2>1. u \in Expunged(w) /\ u \in DOMAIN mail[f] /\ mail[f][u] # Nobody
    BY <1>3, HeldUids DEF Expunged, Held, TypeOK
  <2>2. mail'[f][u] = Nobody
    BY <1>2, <1>3, <2>1
  <2> QED BY <2>2 DEF Held
<1> QED BY <1>3

LEMMA OwnExpunges ==
    ASSUME Tidy, MailOK', NEW w \in Worker, job[w].task \in {"snooze", "return"},
           Expunge(w, SnoozeExpunged(w)), UNCHANGED snoozeVars, UNCHANGED crew
    PROVE  InKeeping'
<1>1. /\ job[w].at = "expunge" /\ job[w] \in Job /\ UNCHANGED <<rows, ever, faults, strays>>
      /\ SnoozeExpunged(w) /\ JobsOK /\ job[w].from \in Folder
  BY DEF Expunge, Fault, snoozeVars, Tidy, TypeOK, JobsOK, AtHand, InKeeping
<1>2. PICK at \in {"record", "forget"} :
          Goto(w, at) /\ at = IF job[w].task = "snooze" THEN "record" ELSE "forget"
  BY <1>1 DEF SnoozeExpunged
<1>3. PICK j : j = job'[w]
  OBVIOUS
<1>4. Others(w) /\ j = [job[w] EXCEPT !.at = at]
  BY <1>1, <1>2, <1>3, GoneOn
<1>5. /\ j.at = at /\ j.task = job[w].task /\ j.from = job[w].from /\ j.to = job[w].to
      /\ j.now = job[w].now /\ j.row = job[w].row /\ j.queue = job[w].queue
  BY <1>1, <1>4 DEF Job
<1>6. /\ \A f \in Folder : DOMAIN mail'[f] = DOMAIN mail[f]
      /\ \A f \in Folder : \A u \in DOMAIN mail[f] :
             \/ mail'[f][u] = mail[f][u]
             \/ f = job[w].from /\ u \in Held(f) /\ mail[f][u].flagged /\ mail'[f][u] = Nobody
  BY ExpungeRemoves DEF Tidy
<1>7. Stays(w)
  <2> SUFFICES ASSUME NEW f \in Folder, f # job[w].from, NEW u \in Held(f)
               PROVE  u \in Held(f)' /\ mail'[f][u].msg = mail[f][u].msg
    BY <1>1 DEF Stays
  <2>1. u \in DOMAIN mail[f] /\ mail'[f][u] = mail[f][u]
    BY <1>6 DEF Held
  <2> QED BY <1>6, <2>1 DEF Held
<1>8. ASSUME NEW f \in Folder, NEW u \in Held(f)', mail'[f][u].flagged
      PROVE  \E v \in Worker : Marker(job'[v], f, u)
  <2>1. u \in DOMAIN mail[f] /\ mail'[f][u] = mail[f][u]
    BY <1>6 DEF Held
  <2>2. u \in Held(f) /\ mail[f][u].flagged
    BY <1>8, <2>1 DEF Held
  <2>3. PICK v \in Worker : Marker(job[v], f, u)
    BY <2>2 DEF Tidy, InKeeping, MarkedByMove
  <2>4. v # w
    <3> SUFFICES ASSUME v = w PROVE FALSE
      OBVIOUS
    <3>1. f = job[w].from /\ u \in job[w].now
      BY <2>3 DEF Marker
    <3> QED BY <1>8, <2>2, <3>1, ExpungeClears DEF Tidy, InKeeping
  <2> QED BY <1>4, <2>3, <2>4 DEF Others
<1>9. MarkedByMove' /\ RowsFit'
  BY <1>1, <1>8 DEF MarkedByMove, Marker, Tidy, InKeeping, RowsFit
<1>10. JobFits(w, job[w]) /\ Snoozed \in Folder
  BY NobodyIsNone DEF Tidy, InKeeping
<1>11. JobFits(w, j)'
  <2>1. Snoozers' = Snoozers /\ Returners' = Returners /\ ever' = ever
    BY <1>1 DEF Snoozers, Returners
  <2>2. SnoozeFits(w, j)'
    BY <1>2, <1>5, <1>10, <2>1 DEF JobFits, SnoozeFits, Moving
  <2>3. ReturnFits(w, j)'
    BY <1>1, <1>2, <1>5, <1>10, <2>1 DEF JobFits, ReturnFits, Taking, Holding, Moving
  <2> QED BY <1>5, <1>10, <2>2, <2>3 DEF JobFits
\* What leaves Snoozed is what the one return has taken.
<1>12. ASSUME NEW u \in Held(Snoozed) \ Taken
       PROVE  u \in Held(Snoozed)' /\ mail'[Snoozed][u].msg = mail[Snoozed][u].msg
  <2>1. u \in DOMAIN mail[Snoozed] /\ u \in DOMAIN mail'[Snoozed]
    BY <1>6, <1>10 DEF Held
  <2>2. ~mail[Snoozed][u].flagged
    <3> SUFFICES ASSUME mail[Snoozed][u].flagged PROVE FALSE
      OBVIOUS
    <3>1. PICK v \in Worker : Marker(job[v], Snoozed, u)
      BY <1>10 DEF Tidy, InKeeping, MarkedByMove
    <3>2. JobFits(v, job[v]) /\ job[v].at = "expunge" /\ job[v].from = Snoozed /\ u \in job[v].now
      BY <3>1 DEF Marker, Tidy, InKeeping
    <3>3. Taking(job[v])
      BY <3>2 DEF JobFits, SnoozeFits, Taking, Moving
    <3> QED BY <3>2, <3>3 DEF Taken
  <2>3. mail'[Snoozed][u] = mail[Snoozed][u]
    BY <1>6, <1>10, <2>1, <2>2
  <2> QED BY <2>1, <2>3 DEF Held
<1>13. Enough'
  <2>1. /\ Holding(job[w]) => Holding(j)
        /\ ~Taking(j)
        /\ \A m : Writing(j, m) => Writing(job[w], m)
    BY <1>1, <1>2, <1>5 DEF Holding, Taking, Writing, Moving
  <2>2. \A m \in Message : Awaiting(m)' \subseteq Awaiting(m)
    BY <1>1, <1>3, <1>4, <1>5, <2>1, AwaitingKept
  <2>3. \A m \in Message : Pending(m)' \subseteq Pending(m)
    BY <1>3, <1>4, <2>1, PendingKept
  <2>4. \A m \in Message : Available(m) \subseteq Available(m)'
    BY <1>3, <1>4, <1>12, <2>1, AvailableKept
  <2> QED BY <2>2, <2>3, <2>4, EnoughKept
<1> QED BY <1>1, <1>3, <1>4, <1>7, <1>9, <1>11, <1>13, OwnStep

-----------------------------------------------------------------------------
(* Writing and forgetting a row.                                           *)

LEMMA OwnRecords ==
    ASSUME Tidy, MailOK', NEW w \in Worker, RecordSnooze(w), UNCHANGED crew
    PROVE  InKeeping'
<1>1. /\ job[w].at = "record" /\ job' = [job EXCEPT ![w] = Idle] /\ UNCHANGED <<mail, strays, faults>>
      /\ CreateSnoozed([job[w].row EXCEPT !.id = Cardinality(ever) + 1])
  BY DEF RecordSnooze, Fault, folderVars, Tidy, InKeeping
<1>2. JobFits(w, job[w]) /\ job[w].task = "snooze" /\ job[w].row \in Row
  BY <1>1 DEF Tidy, InKeeping, TypeOK, JobsOK, AtHand
<1>3. PICK row : row = [job[w].row EXCEPT !.id = Cardinality(ever) + 1]
  OBVIOUS
<1>4. row.of = job[w].row.of /\ row.from = job[w].row.from /\ row.mid = job[w].row.mid
  BY <1>2, <1>3 DEF Row
<1>5. rows' = rows \cup {row} /\ ever' = ever \cup {row}
  BY <1>1, <1>3 DEF CreateSnoozed
<1>6. RowsFit'
  BY <1>2, <1>4, <1>5 DEF RowsFit, Tidy, InKeeping, JobFits, SnoozeFits
<1>7. PICK j : j = Idle
  OBVIOUS
<1>8. j.at = "idle" /\ j.task = "none" /\ j.queue = {}
  BY <1>7 DEF Idle
<1>9. job'[w] = j /\ Others(w)
  BY <1>1, <1>7, JobReplaced DEF Tidy, TypeOK, Others
<1>10. Stays(w) /\ MarkedByMove'
  BY <1>1, <1>9, UndisturbedKeeps
<1>11. JobFits(w, j)'
  BY <1>8 DEF JobFits, SnoozeFits, ReturnFits
<1>12. ~Holding(job[w]) /\ ~Taking(j) /\ \A m : ~Writing(j, m)
  BY <1>2, <1>8 DEF Holding, Taking, Writing
<1>13. \A m \in Message : Awaiting(m)' \subseteq Awaiting(m) \cup {row}
  <2>1. rows' \cup Queued' \subseteq (rows \cup Queued) \cup {row}
    BY <1>5, <1>8, <1>9 DEF Others, Queued
  <2>2. InHand \subseteq InHand'
    <3> SUFFICES ASSUME NEW v \in Worker, Holding(job[v]) PROVE job[v].row \in InHand'
      BY DEF InHand
    <3>1. Holding(job'[v]) /\ job'[v].row = job[v].row
      BY <1>9, <1>12 DEF Others
    <3> QED BY <3>1 DEF InHand
  <2> QED BY <2>1, <2>2 DEF Awaiting
<1>14. \A m \in Message : m # row.of => row \notin Awaiting(m)'
  BY DEF Awaiting
<1>15. \A m \in Message : Pending(m)' \subseteq Pending(m) \ {w}
  BY <1>9, <1>12 DEF Others, Pending
<1>16. w \in Pending(row.of)
  BY <1>1, <1>2, <1>4 DEF Pending, Writing
<1>17. \A m \in Message : Available(m) \subseteq Available(m)'
  <2>1. \A u \in Held(Snoozed) : u \in Held(Snoozed)' /\ mail'[Snoozed][u].msg = mail[Snoozed][u].msg
    BY <1>1 DEF Held
  <2> QED BY <1>9, <1>12, <2>1, AvailableKept
<1>18. ASSUME NEW m \in Message
       PROVE  Cardinality(Awaiting(m)') + Cardinality(Pending(m)') <= Cardinality(Available(m)')
  <2>1. CASE m = row.of
    <3>1. IsFiniteSet(Awaiting(m)) /\ IsFiniteSet(Pending(m)) /\ IsFiniteSet(Available(m)')
      BY Finite, FiniteNext
    <3>2. Cardinality(Awaiting(m)) + Cardinality(Pending(m)) <= Cardinality(Available(m))
      BY DEF Tidy, InKeeping, Enough
    <3>3. w \in Pending(m) /\ Pending(m)' \subseteq Pending(m) \ {w}
      BY <1>15, <1>16, <2>1
    <3>4. Awaiting(m)' \subseteq Awaiting(m) \cup {row} /\ Available(m) \subseteq Available(m)'
      BY <1>13, <1>17
    <3>5. /\ Cardinality(Awaiting(m)) \in Nat /\ Cardinality(Awaiting(m)') \in Nat
          /\ Cardinality(Awaiting(m)') <= Cardinality(Awaiting(m)) + 1
      BY <3>1, <3>4, OneMore
    <3>6. /\ Cardinality(Pending(m)) \in Nat /\ Cardinality(Pending(m)') \in Nat
          /\ Cardinality(Pending(m)') + 1 <= Cardinality(Pending(m))
      BY <3>1, <3>3, OneLess
    <3>7. /\ Cardinality(Available(m)) \in Nat /\ Cardinality(Available(m)') \in Nat
          /\ Cardinality(Available(m)) <= Cardinality(Available(m)')
      BY <3>1, <3>4, NoMore
    <3> QED BY <3>2, <3>5, <3>6, <3>7
  <2>2. CASE m # row.of
    <3>1. /\ Awaiting(m)' \subseteq Awaiting(m) /\ Pending(m)' \subseteq Pending(m)
          /\ Available(m) \subseteq Available(m)'
      BY <1>13, <1>14, <1>15, <1>17, <2>2
    <3> QED BY <3>1, EnoughOf
  <2> QED BY <2>1, <2>2
<1>19. Enough'
  BY <1>18 DEF Enough
<1>20. ever \subseteq ever' /\ UNCHANGED <<crew, faults, strays>>
  BY <1>1, <1>5
<1> QED BY <1>6, <1>9, <1>10, <1>11, <1>19, <1>20, OwnStep

LEMMA OwnForgets ==
    ASSUME Tidy, MailOK', NEW w \in Worker, ForgetRow(w), UNCHANGED crew
    PROVE  InKeeping'
<1>1. /\ job[w].at = "forget" /\ job[w] \in Job /\ UNCHANGED <<mail, strays, faults, ever>>
      /\ rows' = {r \in rows : r.id # job[w].row.id} /\ Goto(w, "next")
  BY DEF ForgetRow, DeleteSnoozed, Fault, folderVars, Tidy, InKeeping, TypeOK, JobsOK
<1>2. JobFits(w, job[w]) /\ job[w].task = "return"
  BY <1>1 DEF Tidy, InKeeping, JobFits, SnoozeFits, Moving
<1>3. PICK j : j = job'[w]
  OBVIOUS
<1>4. Others(w) /\ j = [job[w] EXCEPT !.at = "next"]
  BY <1>1, <1>3, GoneOn DEF Tidy, TypeOK
<1>5. /\ j.at = "next" /\ j.task = "return" /\ j.row = job[w].row /\ j.queue = job[w].queue
  BY <1>1, <1>2, <1>4 DEF Job
<1>6. Stays(w) /\ MarkedByMove' /\ RowsFit'
  BY <1>1, <1>4, UndisturbedKeeps DEF RowsFit, Tidy, InKeeping
<1>7. Holding(job[w]) /\ ~Holding(j) /\ ~Taking(j) /\ \A m : ~Writing(j, m)
  BY <1>1, <1>2, <1>5 DEF Holding, Taking, Writing, Moving
<1>8. w \in Returners /\ job[w].queue \subseteq ever /\ job[w].row \notin job[w].queue
  BY <1>2, <1>7 DEF JobFits, ReturnFits
<1>9. JobFits(w, j)'
  BY <1>1, <1>5, <1>7, <1>8 DEF JobFits, SnoozeFits, ReturnFits, Returners
\* The one row in hand is gone from the table and waits nowhere.
<1>10. \A m \in Message : Awaiting(m)' \subseteq Awaiting(m)
  <2>1. \A v \in Worker \ {w} : job[v].task # "return"
    BY <1>8 DEF Tidy, InKeeping, JobFits, ReturnFits, Lone
  <2>2. \A v \in Worker \ {w} : job[v].queue = {}
    BY <2>1 DEF Tidy, InKeeping, JobFits
  <2>3. Queued \subseteq job[w].queue
    BY <2>2 DEF Queued
  <2>4. InHand \subseteq {job[w].row}
    BY <2>1 DEF InHand, Holding
  <2>5. Queued' \subseteq Queued
    <3>1. job'[w].queue = job[w].queue
      BY <1>3, <1>5
    <3>2. \A v \in Worker : job'[v].queue = job[v].queue
      BY <1>4, <3>1 DEF Others
    <3> QED BY <3>2 DEF Queued
  <2>6. job[w].row \notin rows' \cup Queued'
    BY <1>1, <1>8, <2>3, <2>5
  <2>7. rows' \subseteq rows
    BY <1>1
  <2> QED BY <2>4, <2>5, <2>6, <2>7 DEF Awaiting
<1>11. Enough'
  <2>1. \A m \in Message : Pending(m)' \subseteq Pending(m)
    BY <1>3, <1>4, <1>7, PendingKept
  <2>2. \A u \in Held(Snoozed) : u \in Held(Snoozed)' /\ mail'[Snoozed][u].msg = mail[Snoozed][u].msg
    BY <1>1 DEF Held
  <2>3. \A m \in Message : Available(m) \subseteq Available(m)'
    BY <1>3, <1>4, <1>7, <2>2, AvailableKept
  <2> QED BY <1>10, <2>1, <2>3, EnoughKept
<1> QED BY <1>1, <1>3, <1>4, <1>6, <1>9, <1>11, OwnStep

-----------------------------------------------------------------------------
(* Together.                                                               *)

\* No row is taken out of the record of all there ever were.
LEMMA EverGrows ==
    ASSUME [Next]_vars
    PROVE  ever \subseteq ever' /\ UNCHANGED <<crew, reliable>>
<1>1. ASSUME NEW w \in Worker, Begin(w) PROVE ever' = ever
  <2>1. \A by, f, u, at : StartSnooze(w, by, f, u, at) => UNCHANGED snoozeVars
    BY DEF StartSnooze
  <2>2. \A by : StartSweep(w, by) => UNCHANGED snoozeVars
    BY DEF StartSweep
  <2>3. \A by, row : StartCancel(w, by, row) => UNCHANGED snoozeVars
    BY DEF StartCancel
  <2>4. UNCHANGED snoozeVars
    BY <1>1, <2>1, <2>2, <2>3, Zenon DEF Begin
  <2> QED BY <2>4 DEF snoozeVars
<1>2. ASSUME NEW w \in Worker, SnoozeStep(w) PROVE ever \subseteq ever'
  <2>1. \A row : ReturnNext(w, row) => UNCHANGED snoozeVars
    BY DEF ReturnNext
  <2>2. ReturnCopies(w) => ever' = ever
    BY DEF ReturnCopies
  <2>3. RecordSnooze(w) => ever \subseteq ever'
    BY DEF RecordSnooze, CreateSnoozed
  <2>4. ForgetRow(w) => ever' = ever
    BY DEF ForgetRow, DeleteSnoozed
  <2>5. ReturnDone(w) => UNCHANGED snoozeVars
    BY DEF ReturnDone
  <2>6. UNCHANGED snoozeVars => ever' = ever
    BY DEF snoozeVars
  <2>7. ever' = ever => ever \subseteq ever'
    OBVIOUS
  <2> QED BY <1>2, <2>1, <2>2, <2>3, <2>4, <2>5, <2>6, <2>7, Zenon DEF SnoozeStep
<1>3. ASSUME NEW w \in Worker, BeginBulk(w) \/ BulkStep(w) \/ SnoozeFails(w) \/ Crash(w)
      PROVE  ever' = ever
  <2>1. UNCHANGED snoozeVars
    BY <1>3, Zenon DEF BeginBulk, BulkStep, SnoozeFails, Crash
  <2> QED BY <2>1 DEF snoozeVars
<1>4. Tick => ever' = ever
  BY DEF Tick
<1>5. UNCHANGED vars => UNCHANGED <<ever, crew, reliable>>
  BY DEF vars
<1> QED BY <1>1, <1>2, <1>3, <1>4, <1>5 DEF Next

LEMMA OwnSnoozeStep ==
    ASSUME Tidy, MailOK', Identified, NEW w \in Worker, SnoozeStep(w), UNCHANGED crew
    PROVE  InKeeping'
<1>1. \A row \in job[w].queue : ReturnNext(w, row) => InKeeping'
  BY OwnTakesUp
<1>2. ReturnCopies(w) => InKeeping'
  BY OwnReturnCopies
<1>3. job[w].task = "snooze" /\ CopyMessages(w) /\ UNCHANGED snoozeVars => InKeeping'
  BY OwnSnoozeCopies
<1>4. job[w].task \in {"snooze", "return"} /\ MarkDeleted(w) /\ UNCHANGED snoozeVars => InKeeping'
  BY OwnMarks
<1>5. job[w].task \in {"snooze", "return"} /\ Expunge(w, SnoozeExpunged(w)) /\ UNCHANGED snoozeVars
          => InKeeping'
  BY OwnExpunges
<1>6. RecordSnooze(w) => InKeeping'
  BY OwnRecords
<1>7. ForgetRow(w) => InKeeping'
  BY OwnForgets
<1>8. ReturnDone(w) => InKeeping'
  BY OwnDone
<1> QED BY <1>1, <1>2, <1>3, <1>4, <1>5, <1>6, <1>7, <1>8, Zenon DEF SnoozeStep

\* Without faults and folder programs, these are all the steps there are.
LEMMA OwnNext ==
    ASSUME Tidy, TypeOK', Identified, Orderly, [Next]_vars
    PROVE  InKeeping'
<1>1. UNCHANGED crew /\ MailOK'
  BY EverGrows DEF TypeOK
<1>2. ASSUME UNCHANGED <<mail, job, rows, ever, crew, faults, strays>> PROVE InKeeping'
  <2>1. \A w \in Worker : JobFits(w, job[w])'
    BY <1>2 DEF Tidy, InKeeping, JobFits, SnoozeFits, ReturnFits, HasItsOwn, Taking, Holding, Held,
                Snoozers, Returners
  <2>2. RowsFit' /\ MarkedByMove'
    BY <1>2 DEF Tidy, InKeeping, RowsFit, MarkedByMove, Marker, Held
  <2>3. Enough'
    BY <1>2 DEF Tidy, InKeeping, Enough, Awaiting, Pending, Available, Queued, InHand, Taken, Held
  <2> QED BY <1>2, <2>1, <2>2, <2>3 DEF Tidy, InKeeping
<1>3. Tick \/ UNCHANGED vars => UNCHANGED <<mail, job, rows, ever, crew, faults, strays>>
  BY <1>1 DEF Tick, vars, folderVars
<1>4. ASSUME NEW w \in Worker
      PROVE  ~BeginBulk(w) /\ ~BulkStep(w) /\ ~SnoozeFails(w) /\ ~Crash(w)
  <2>1. ~Fault
    BY DEF Fault, Tidy, InKeeping
  <2>2. ~BeginBulk(w)
    <3>1. "bulk" \notin crew[w] /\ "single" \notin crew[w] /\ "rules" \notin crew[w]
      BY DEF Orderly, FolderPrograms
    <3> QED BY <3>1, Zenon DEF BeginBulk
  <2>3. ~BulkStep(w)
    <3>1. job[w].task \in {"none", "snooze", "return"}
      BY DEF Tidy, InKeeping, JobFits
    <3>2. ~BulkTask(w)
      BY <3>1 DEF BulkTask
    <3> QED BY <3>2 DEF BulkStep
  <2>4. ~SnoozeFails(w) /\ ~Crash(w)
    BY <2>1 DEF SnoozeFails, CommandFails, Crash, WorkerCrashes
  <2> QED BY <2>2, <2>3, <2>4
<1>5. ASSUME NEW w \in Worker, Begin(w) PROVE InKeeping'
  BY <1>1, <1>5, OwnBegins
<1>6. ASSUME NEW w \in Worker, SnoozeStep(w) PROVE InKeeping'
  BY <1>1, <1>6, OwnSnoozeStep
<1> QED BY <1>2, <1>3, <1>4, <1>5, <1>6, Zenon DEF Next

\* Where nothing may fail, nothing fails later.
LEMMA FaultsStay ==
    ASSUME [Next]_vars, reliable, faults = 0
    PROVE  faults' = 0
<1>1. ~Fault
  BY DEF Fault
<1>2. ASSUME NEW w \in Worker, Begin(w) PROVE faults' = faults
  <2>1. \A by, f, u, at : StartSnooze(w, by, f, u, at) => faults' = faults
    BY DEF StartSnooze
  <2>2. \A by : StartSweep(w, by) => faults' = faults
    BY DEF StartSweep
  <2>3. \A by, row : StartCancel(w, by, row) => faults' = faults
    BY DEF StartCancel
  <2> QED BY <1>2, <2>1, <2>2, <2>3, Zenon DEF Begin
<1>3. ASSUME NEW w \in Worker, SnoozeStep(w) PROVE faults' = faults
  <2>1. \A row : ReturnNext(w, row) => faults' = faults
    BY <1>1 DEF ReturnNext
  <2>2. CopyMessages(w) \/ ReturnCopies(w) => faults' = faults
    BY DEF CopyMessages, ReturnCopies
  <2>3. MarkDeleted(w) \/ Expunge(w, SnoozeExpunged(w)) => faults' = faults
    BY <1>1 DEF MarkDeleted, Expunge
  <2>4. RecordSnooze(w) \/ ForgetRow(w) \/ ReturnDone(w) => faults' = faults
    BY <1>1 DEF RecordSnooze, ForgetRow, ReturnDone
  <2> QED BY <1>3, <2>1, <2>2, <2>3, <2>4, Zenon DEF SnoozeStep
<1>4. ASSUME NEW w \in Worker, BeginBulk(w) \/ BulkStep(w) PROVE faults' = faults
  <2>1. CopyMessages(w) => faults' = faults
    BY DEF CopyMessages
  <2>2. MarkDeleted(w) \/ Expunge(w, Succeeded(w)) => faults' = faults
    BY <1>1 DEF MarkDeleted, Expunge
  <2>3. ~CommandFails(w, Failed(w))
    BY <1>1 DEF CommandFails
  <2>4. BeginBulk(w) => faults' = faults
    BY DEF BeginBulk
  <2> QED BY <1>4, <2>1, <2>2, <2>3, <2>4 DEF BulkStep
<1>5. ASSUME NEW w \in Worker PROVE ~SnoozeFails(w) /\ ~Crash(w)
  BY <1>1 DEF SnoozeFails, CommandFails, Crash, WorkerCrashes
<1>6. Tick \/ UNCHANGED vars => faults' = faults
  BY DEF Tick, vars
<1>7. faults' = faults
  BY <1>2, <1>3, <1>4, <1>5, <1>6, Zenon DEF Next
<1> QED BY <1>7

OwnInv == TypeOK /\ (reliable => faults = 0) /\ (Orderly /\ Identified => InKeeping)

LEMMA OrderlyIsLone == Orderly => Lone
<1> SUFFICES ASSUME Orderly PROVE Lone
  OBVIOUS
<1>1. IsFiniteSet(Returners) /\ IsFiniteSet(Snoozers)
  BY WorkerAssumption, FS_Subset DEF Returners, Snoozers
<1> QED BY <1>1, AtMostOne DEF Orderly, Lone

LEMMA OwnInit == Init => OwnInv
<1> SUFFICES ASSUME Init PROVE OwnInv
  OBVIOUS
<1>1. TypeOK
  BY TypeInit
<1>2. reliable => faults = 0
  BY DEF Init
<1>3. \A w \in Worker : job[w] = Idle
  BY DEF Init
<1>4. \A w \in Worker : JobFits(w, job[w])
  BY <1>3 DEF JobFits, SnoozeFits, ReturnFits, Idle
<1>5. RowsFit /\ strays = {}
  BY DEF Init, RowsFit
<1>6. ASSUME NEW f \in Folder, NEW u \in Held(f) PROVE ~mail[f][u].flagged
  <2>1. mail[f] = [v \in DOMAIN Initially[f] |-> [msg |-> Initially[f][v], flagged |-> FALSE]]
    BY Zenon DEF Init
  <2>2. u \in DOMAIN Initially[f]
    BY <2>1 DEF Held
  <2> QED BY <2>1, <2>2
<1>7. MarkedByMove
  BY <1>6 DEF MarkedByMove
<1>8. ASSUME NEW m \in Message
      PROVE  Cardinality(Awaiting(m)) + Cardinality(Pending(m)) <= Cardinality(Available(m))
  <2>1. Awaiting(m) = {} /\ Pending(m) = {}
    BY <1>3 DEF Init, Awaiting, Pending, Queued, Writing, Idle
  <2>2. Cardinality(Awaiting(m)) = 0 /\ Cardinality(Pending(m)) = 0
    BY <2>1, FS_EmptySet
  <2>3. IsFiniteSet(Available(m))
    <3>1. IsFiniteSet(Held(Snoozed)) /\ Available(m) \subseteq Held(Snoozed)
      BY <1>1, HeldUids, NobodyIsNone DEF TypeOK, Available
    <3> QED BY <3>1, FS_Subset
  <2>4. Cardinality(Available(m)) \in Nat
    BY <2>3, FS_CardinalityType
  <2> QED BY <2>2, <2>4
<1> QED BY <1>1, <1>2, <1>4, <1>5, <1>7, <1>8 DEF OwnInv, InKeeping, Enough, Orderly

LEMMA OwnKept == OwnInv /\ [Next]_vars => OwnInv'
<1> SUFFICES ASSUME OwnInv, [Next]_vars PROVE OwnInv'
  OBVIOUS
<1>1. TypeOK' /\ ever \subseteq ever' /\ UNCHANGED <<crew, reliable>>
  BY Stepped, EverGrows DEF OwnInv
<1>2. reliable' => faults' = 0
  BY <1>1, FaultsStay DEF OwnInv
<1>3. ASSUME Orderly', Identified' PROVE InKeeping'
  <2>1. Orderly /\ Identified
    BY <1>1, <1>3 DEF Orderly, Identified, Returners, Snoozers
  <2>2. Tidy
    BY <2>1, OrderlyIsLone, WorkerAssumption DEF OwnInv, Tidy
  <2> QED BY <1>1, <2>1, <2>2, OwnNext
<1> QED BY <1>1, <1>2, <1>3 DEF OwnInv

\* A return never moves another message than its row's: for any number of
\* messages, rows and programs, when nothing fails, one program returns rows, one
\* snoozes, no other works on the folders and every message snoozed has a
\* Message-ID.
THEOREM ReturnsOwn == Spec => []ReturnsItsOwn
<1>1. OwnInv => ReturnsItsOwn
  BY DEF OwnInv, InKeeping, ReturnsItsOwn, Identified
<1> QED BY <1>1, OwnInit, OwnKept, PTL DEF Spec
=============================================================================
