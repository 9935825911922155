-------------------------- MODULE DeliveryPromise ---------------------------
(***************************************************************************)
(* What the send paths promise about a draft, without leases, processes,   *)
(* gates or the mailbox: a draft is open, claimed by one sender, or        *)
(* closed; messages leave it only while it is claimed; and after a message *)
(* that settles the draft there is no other and no way back to open.       *)
(*                                                                         *)
(* A message that does not settle the draft is the code's own exception:   *)
(* an immediate send whose SMTP error came after acceptance.               *)
(***************************************************************************)
EXTENDS Naturals, Sequences

CONSTANT Draft

VARIABLES
    phase,      \* [Draft -> {"open", "claimed", "closed"}]
    received    \* [Draft -> Seq(BOOLEAN)]: the messages, TRUE for a settling one

vars == <<phase, received>>

Settled(d) == \E i \in DOMAIN received[d] : received[d][i]

Init ==
    /\ phase = [d \in Draft |-> "open"]
    /\ received = [d \in Draft |-> <<>>]

Claim(d) ==
    /\ phase[d] = "open"
    /\ phase' = [phase EXCEPT ![d] = "claimed"]
    /\ UNCHANGED received

Deliver(d, settles) ==
    /\ phase[d] = "claimed"
    /\ ~Settled(d)
    /\ received' = [received EXCEPT ![d] = Append(@, settles)]
    /\ UNCHANGED phase

Release(d) ==
    /\ phase[d] = "claimed"
    /\ ~Settled(d)
    /\ phase' = [phase EXCEPT ![d] = "open"]
    /\ UNCHANGED received

Close(d) ==
    /\ phase' = [phase EXCEPT ![d] = "closed"]
    /\ UNCHANGED received

Next ==
    \E d \in Draft :
        \/ Claim(d)
        \/ \E settles \in BOOLEAN : Deliver(d, settles)
        \/ Release(d)
        \/ Close(d)

Spec == Init /\ [][Next]_vars
=============================================================================
