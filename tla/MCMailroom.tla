----------------------------- MODULE MCMailroom -----------------------------
(***************************************************************************)
(* Mailroom for TLC: two messages in the inbox and one without Message-ID  *)
(* in the archive; who works with whom is the run's choice of settings.    *)
(***************************************************************************)
EXTENDS Mailroom, TLC

CONSTANTS m1, m2, m3, w1, w2

MCFolder == {"INBOX", "Archive", "Snoozed"}
MCInitially == [f \in MCFolder |-> CASE f = "INBOX" -> <<m1, m2>> [] f = "Archive" -> <<m3>>
                                     [] OTHER -> <<>>]
MCRuleAction == (m1 :> "move") @@ (m2 :> "delete") @@ (m3 :> "keep")

Pair(a, b) == (w1 :> a) @@ (w2 :> b)

\* Programs that meet on the folders, first with faults and then without.
MCSettings ==
    {[crew |-> Pair({"bulk"}, {}), faults |-> 2],
     [crew |-> Pair({"rules"}, {"dashboardSnooze"}), faults |-> 0],
     [crew |-> Pair({"snooze"}, {"button"}), faults |-> 1],
     [crew |-> Pair({"snooze"}, {"sweep"}), faults |-> 1],
     [crew |-> Pair({"snooze", "cancel"}, {}), faults |-> 1],
     [crew |-> Pair({"single", "rules"}, {}), faults |-> 1],
     [crew |-> Pair({"snooze", "check"}, {"sweep"}), faults |-> 0],
     [crew |-> Pair({"dashboardSnooze", "snooze"}, {"sweep", "button"}), faults |-> 0]}
=============================================================================
