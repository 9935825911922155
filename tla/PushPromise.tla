---------------------------- MODULE PushPromise -----------------------------
(***************************************************************************)
(* What the webhook push promises of a delivery ("at-least-once",          *)
(* docs/webhooks.md), without routes, executors, counts or backoff: a      *)
(* queued delivery stays pending until the receiver has taken it or it is  *)
(* given up; it may be taken more than once; only a delivery the receiver  *)
(* took is called delivered, and delivered is final.                       *)
(***************************************************************************)
EXTENDS Naturals

CONSTANT Delivery

VARIABLES
    outcome,      \* [Delivery -> {"none", "pending", "delivered", "dead"}]
    received      \* [Delivery -> Nat]

vars == <<outcome, received>>

Init ==
    /\ outcome = [d \in Delivery |-> "none"]
    /\ received = [d \in Delivery |-> 0]

Enqueue(ds) ==
    /\ \A d \in ds : outcome[d] = "none"
    /\ outcome' = [d \in Delivery |-> IF d \in ds THEN "pending" ELSE outcome[d]]
    /\ UNCHANGED received

Receive(d) ==
    /\ outcome[d] # "none"
    /\ received' = [received EXCEPT ![d] = @ + 1]
    /\ UNCHANGED outcome

Move(d, from, to) ==
    /\ outcome[d] = from
    /\ outcome' = [outcome EXCEPT ![d] = to]
    /\ UNCHANGED received

Deliver(d) ==
    /\ received[d] > 0
    /\ Move(d, "pending", "delivered") \/ Move(d, "dead", "delivered")

GiveUp(d) == Move(d, "pending", "dead")
Reopen(d) == Move(d, "dead", "pending")

Next ==
    \/ \E ds \in SUBSET Delivery : Enqueue(ds)
    \/ \E d \in Delivery : Receive(d) \/ Deliver(d) \/ GiveUp(d) \/ Reopen(d)

Spec == Init /\ [][Next]_vars
=============================================================================
