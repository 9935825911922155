----------------------------- MODULE MailServer -----------------------------
(***************************************************************************)
(* The mail provider as the send paths see it: SMTP acceptance of a draft  *)
(* and the copies of a draft in the IMAP Drafts folder.                    *)
(*                                                                         *)
(* A provider copy carries the Message-ID of its draft (a replacement      *)
(* APPEND reuses it) and one version of the content.  No content is ever   *)
(* appended twice, so a copy, its content and its UID are one number.      *)
(***************************************************************************)
EXTENDS DraftStore, Sequences

CONSTANTS
    MaxDeliveries   \* bound on the messages accepted for one draft

ASSUME MaxDeliveriesAssumption == MaxDeliveries \in Nat \ {0}

VARIABLES
    deliveries,     \* [Draft -> Seq(Delivery)]: what recipients received
    copies          \* [Draft -> SUBSET Rev]: copies in the Drafts folder

mailVars == <<deliveries, copies>>

\* What was delivered, under which gate, on which path, and whether the client
\* saw the server's final acknowledgement.
Delivery == [content : Rev, gate : {"human", "governor"},
             by : {"sweep", "immediate"}, acknowledged : BOOLEAN]

\* Whether the bound leaves room for one more transmission.
MayDeliver(d) == Len(deliveries[d]) < MaxDeliveries

\* The server took the message.  Whether the client learns of it is `acked`.
Accept(d, content, gate, by, acked) ==
    /\ MayDeliver(d)
    /\ deliveries' = [deliveries EXCEPT
           ![d] = Append(@, [content |-> content, gate |-> gate, by |-> by,
                             acknowledged |-> acked])]
    /\ UNCHANGED copies

UniqueCopy(d) == Cardinality(copies[d]) = 1

RemoveCopies(d, gone) ==
    /\ copies' = [copies EXCEPT ![d] = @ \ gone]
    /\ UNCHANGED deliveries

AppendCopy(d, content) ==
    /\ copies' = [copies EXCEPT ![d] = @ \cup {content}]
    /\ UNCHANGED deliveries

MailServerTypeOK ==
    /\ deliveries \in [Draft -> Seq(Delivery)]
    /\ copies \in [Draft -> SUBSET Rev]
=============================================================================
