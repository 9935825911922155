------------------------------ MODULE MCOutbox ------------------------------
(***************************************************************************)
(* Outbox for TLC.  Every process of a kind, and every token, is like any  *)
(* other, so the safety runs take their permutations as symmetries.        *)
(***************************************************************************)
EXTENDS Outbox, TLC

Symmetry ==
    Permutations(Token) \cup Permutations(Sweeper)
        \cup Permutations(Sender) \cup Permutations(Syncer)
=============================================================================
