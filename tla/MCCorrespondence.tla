-------------------------- MODULE MCCorrespondence --------------------------
(***************************************************************************)
(* Correspondence for TLC: two messages in the inbox at the start and one  *)
(* that arrives in the Sent folder; the casts are the run's choice.        *)
(***************************************************************************)
EXTENDS Correspondence, TLC

CONSTANTS m1, m2, m3, a1, a2, w1, w2

MCFolder == {"INBOX", "Sent"}
MCFolders == <<"INBOX", "Sent">>
MCInitially == ("INBOX" :> <<m1, m2>>) @@ ("Sent" :> <<>>)
MCArriving == (m1 :> "INBOX") @@ (m2 :> "INBOX") @@ (m3 :> "Sent")
MCParsed == [old |-> (m1 :> {a1}) @@ (m2 :> {a1}) @@ (m3 :> {a2}),
             new |-> (m1 :> {a1}) @@ (m2 :> {a2}) @@ (m3 :> {a1, a2})]

MCSettings ==
    {[cast |-> {"scan", "rebuild", "catchUp", "upgrade", "renumber"}, faults |-> 1],
     [cast |-> {"scan", "arrive", "renumber"}, faults |-> 1],
     [cast |-> {"scan", "secondScan", "catchUp", "upgrade"}, faults |-> 0],
     [cast |-> {"scan", "secondScan", "renumber"}, faults |-> 0],
     [cast |-> {"scan", "arrive", "expunge"}, faults |-> 0],
     [cast |-> {"scan", "catchUp", "send", "arrive", "upgrade"}, faults |-> 0],
     [cast |-> {"scan", "catchUp", "refresh", "arrive", "upgrade"}, faults |-> 0],
     [cast |-> {"scan", "catchUp", "person", "tag", "upgrade"}, faults |-> 0]}
=============================================================================
