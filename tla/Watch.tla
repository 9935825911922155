------------------------------- MODULE Watch --------------------------------
(***************************************************************************)
(* `envelope watch` (crates/cli/src/commands/watch.rs): an IMAP IDLE loop  *)
(* that turns the messages above its UID watermark into events and, with   *)
(* --deliver, queues one delivery for each matching route and then drains  *)
(* the due deliveries.  Several watches may run on one folder.             *)
(*                                                                         *)
(* The mailbox is external: `validity` is its UIDVALIDITY, and its         *)
(* messages have the UIDs 1 .. top.                                        *)
(***************************************************************************)
EXTENDS EventStore

CONSTANTS
    Watcher,       \* watch processes that may run at the same time
    Delivering,    \* those started with --deliver
    Coded          \* UIDs of messages with a one-time code

ASSUME DeliveringAssumption == Delivering \subseteq Watcher
ASSUME CodedAssumption == Coded \subseteq Uid

VARIABLES
    mailbox,       \* [validity, top]
    watcher,       \* [Watcher -> the watch's control point and locals]
    began          \* [Watcher -> the mailbox when the watch began]; not in the code

watchVars == <<mailbox, watcher, began>>

Mailbox == [validity : Validity, top : 0 .. MaxUid]

WatcherPc ==
    {"off", "idle", "batch", "queueMessage", "scan", "queueCode", "drain", "draining"}

\* `uid` is the message at hand, `known` the UIDVALIDITY the watermark `last`
\* belongs to.
WatcherState ==
    [pc : WatcherPc, known : Validity, last : 0 .. MaxUid, todo : SUBSET Uid, uid : 0 .. MaxUid]

Nowhere == [validity |-> 0, top |-> 0]

Off == [pc |-> "off", known |-> 0, last |-> 0, todo |-> {}, uid |-> 0]

WatchInit ==
    /\ mailbox \in [validity : {0}, top : 0 .. MaxUid]
    /\ watcher = [w \in Watcher |-> Off]
    /\ began = [w \in Watcher |-> Nowhere]

WatcherAt(w, pc) == watcher' = [watcher EXCEPT ![w].pc = pc]
MessageEvent(w) == <<watcher[w].known, watcher[w].uid, "new_message">>
CodeEvent(w) == <<watcher[w].known, watcher[w].uid, "otp_detected">>

-----------------------------------------------------------------------------
(* The mailbox.                                                            *)

MailArrives ==
    /\ mailbox.top < MaxUid
    /\ mailbox' = [mailbox EXCEPT !.top = @ + 1]
    /\ UNCHANGED <<watcher, began, eventVars>>

\* The server renumbers the folder.
ValidityChanges ==
    /\ mailbox.validity < MaxValidity
    /\ \E n \in 0 .. mailbox.top :
          mailbox' = [validity |-> mailbox.validity + 1, top |-> n]
    /\ UNCHANGED <<watcher, began, eventVars>>

-----------------------------------------------------------------------------
(* The loop.                                                               *)

\* Mutant: the watermark starts at zero.
ConnectAtZero(w) ==
    /\ watcher[w].pc = "off"
    /\ watcher' = [watcher EXCEPT ![w] = [Off EXCEPT !.pc = "idle", !.known = mailbox.validity]]
    /\ began' = [began EXCEPT ![w] = mailbox]
    /\ UNCHANGED <<mailbox, eventVars>>

\* The watermark starts at the highest UID; a search that fails counts as an
\* empty folder.
Connect(w) ==
    /\ watcher[w].pc = "off"
    /\ \E last \in {mailbox.top} \cup IF Faults THEN {0} ELSE {} :
          watcher' = [watcher EXCEPT ![w] = [Off EXCEPT !.pc = "idle", !.last = last,
                                                        !.known = mailbox.validity]]
    /\ began' = [began EXCEPT ![w] = mailbox]
    /\ UNCHANGED <<mailbox, eventVars>>

\* The watermark that goes with the UIDVALIDITY just selected.
Watermark(w) == IF watcher[w].known = mailbox.validity THEN watcher[w].last ELSE 0

\* NewData: select again, fetch what is above the watermark.
Fetch(w) ==
    /\ watcher[w].pc = "idle"
    /\ watcher' = [watcher EXCEPT ![w].pc = "batch", ![w].known = mailbox.validity,
                                  ![w].last = Watermark(w),
                                  ![w].todo = Watermark(w) + 1 .. mailbox.top]
    /\ UNCHANGED <<mailbox, began, eventVars>>

\* The IDLE times out: select again, and fetch nothing.
IdleTimeout(w) ==
    /\ watcher[w].pc = "idle"
    /\ watcher' = [watcher EXCEPT ![w].known = mailbox.validity, ![w].last = Watermark(w)]
    /\ UNCHANGED <<mailbox, began, eventVars>>

\* Mutant: the watermark jumps to the end of the folder.
TakeToEnd(w, uid, pc) ==
    /\ watcher[w].pc = "batch"
    /\ uid \in watcher[w].todo
    /\ watcher' = [watcher EXCEPT ![w].todo = @ \ {uid}, ![w].uid = uid,
                                  ![w].last = mailbox.top, ![w].pc = pc]

\* The next message of the batch: the watermark moves before the event is
\* inserted.
Take(w, uid, pc) ==
    /\ watcher[w].pc = "batch"
    /\ uid \in watcher[w].todo
    /\ watcher' = [watcher EXCEPT ![w].todo = @ \ {uid}, ![w].uid = uid,
           ![w].last = IF uid > @ THEN uid ELSE @, ![w].pc = pc]

NewMessage(w, uid) ==
    /\ Take(w, uid, IF w \in Delivering THEN "queueMessage" ELSE "scan")
    /\ InsertEvent(<<watcher[w].known, uid, "new_message">>)
    /\ UNCHANGED <<mailbox, began>>

\* A key that is already there ends the work on this message; an insert that
\* fails does not.
KnownMessage(w, uid) ==
    /\ \/ /\ <<watcher[w].known, uid, "new_message">> \in events
          /\ Take(w, uid, "batch")
       \/ Faults /\ Take(w, uid, "scan")
    /\ UNCHANGED <<mailbox, began, eventVars>>

\* One statement for each matching route, none of which stops the others.
QueueAll(w, e) ==
    \/ EnqueueDeliveries(e, MatchingRoutes(e[3]))
    \/ Faults /\ \E some \in SUBSET MatchingRoutes(e[3]) : EnqueueDeliveries(e, some)

\* Mutant: a queued message is not scanned for a code.
QueueMessageUnscanned(w) ==
    /\ watcher[w].pc = "queueMessage"
    /\ QueueAll(w, MessageEvent(w))
    /\ WatcherAt(w, "batch")
    /\ UNCHANGED <<mailbox, began>>

\* Mutant: the deliveries of a message are left to the next pass.
QueueMessageLater(w) ==
    /\ watcher[w].pc = "queueMessage"
    /\ WatcherAt(w, "scan")
    /\ UNCHANGED <<mailbox, began, eventVars>>

QueueMessage(w) ==
    /\ watcher[w].pc = "queueMessage"
    /\ QueueAll(w, MessageEvent(w))
    /\ WatcherAt(w, "scan")
    /\ UNCHANGED <<mailbox, began>>

ScanCode(w) ==
    /\ watcher[w].pc = "scan"
    /\ watcher[w].uid \in Coded
    /\ InsertEvent(CodeEvent(w))
    /\ WatcherAt(w, IF w \in Delivering THEN "queueCode" ELSE "batch")
    /\ UNCHANGED <<mailbox, began>>

NoCode(w) ==
    /\ watcher[w].pc = "scan"
    /\ Faults \/ watcher[w].uid \notin Coded \/ CodeEvent(w) \in events
    /\ WatcherAt(w, "batch")
    /\ UNCHANGED <<mailbox, began, eventVars>>

QueueCode(w) ==
    /\ watcher[w].pc = "queueCode"
    /\ QueueAll(w, CodeEvent(w))
    /\ WatcherAt(w, "batch")
    /\ UNCHANGED <<mailbox, began>>

EndBatch(w) ==
    /\ watcher[w].pc = "batch"
    /\ watcher[w].todo = {}
    /\ watcher' = [watcher EXCEPT ![w].pc = IF w \in Delivering THEN "drain" ELSE "idle",
                                  ![w].uid = 0]
    /\ UNCHANGED <<mailbox, began, eventVars>>

\* Ctrl-C is seen at the end of a turn of the loop; an error ends it anywhere.
Stop(w) ==
    /\ watcher[w].pc = "idle" \/ (Faults /\ watcher[w].pc # "off")
    /\ watcher' = [watcher EXCEPT ![w] = Off]
    /\ began' = [began EXCEPT ![w] = Nowhere]
    /\ UNCHANGED <<mailbox, eventVars>>

WatcherStep(w) ==
    \/ Connect(w)
    \/ Fetch(w)
    \/ IdleTimeout(w)
    \/ \E uid \in Uid : NewMessage(w, uid) \/ KnownMessage(w, uid)
    \/ QueueMessage(w)
    \/ ScanCode(w)
    \/ NoCode(w)
    \/ QueueCode(w)
    \/ EndBatch(w)

WatchTypeOK ==
    /\ mailbox \in Mailbox
    /\ watcher \in [Watcher -> WatcherState]
    /\ began \in [Watcher -> Mailbox]
=============================================================================
