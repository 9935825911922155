---------------------------- MODULE MCRelocation ----------------------------
(***************************************************************************)
(* Relocation for TLC: three messages in two folders, one of them without  *)
(* Message-ID and two with the same; a restore maps both folders to one.   *)
(***************************************************************************)
EXTENDS Relocation, TLC

CONSTANTS m1, m2, m3, w1, w2

MCFolder == {"INBOX", "Old"}
MCMessageId == (m1 :> "a") @@ (m2 :> Nobody) @@ (m3 :> "a")
MCFolderMapping == [f \in MCFolder |-> "INBOX"]
MCInitially == [f \in MCFolder |-> IF f = "INBOX" THEN <<m1, m2>> ELSE <<m3>>]

Pair(a, b) == (w1 :> a) @@ (w2 :> b)

MCSettings ==
    {[crew |-> Pair({"migrate"}, {}), faults |-> 2, edits |-> 2],
     [crew |-> Pair({"migrate"}, {"migrate"}), faults |-> 2, edits |-> 0],
     [crew |-> Pair({"export", "restore"}, {}), faults |-> 3, edits |-> 0],
     [crew |-> Pair({"export"}, {}), faults |-> 1, edits |-> 1],
     [crew |-> Pair({"export", "restore", "migrate"}, {}), faults |-> 1, edits |-> 0],
     [crew |-> Pair({"export", "restore"}, {"restore"}), faults |-> 1, edits |-> 0]}
=============================================================================
