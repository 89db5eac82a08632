----------------------------- MODULE MCTairClient -----------------------------
(* TLC instance of TairClient: two nodes, two slots.                          *)
EXTENDS TairClient

SlotRange(lo, hi) == [kind |-> "range", lo |-> lo, hi |-> hi]
Bad == [kind |-> "bad", lo |-> 0, hi |-> 0]
Migrating == [kind |-> "migrating", lo |-> 0, hi |-> 0]
Line(fields, master, addr, items) == [fields |-> fields, master |-> master, addr |-> addr, items |-> items]

\* The whole cluster on two nodes, a migration mark, one node only, a replica
\* and an empty master beside it, a damaged address, a damaged range.
MCNodesReplies == {
    <<Line(9, TRUE, "A", <<SlotRange(0, 0)>>), Line(9, TRUE, "B", <<SlotRange(1, 1)>>)>>,
    <<Line(10, TRUE, "A", <<SlotRange(0, 1), Migrating, Bad>>)>>,
    <<Line(9, TRUE, "B", <<SlotRange(1, 1)>>)>>,
    <<Line(8, TRUE, "A", <<>>), Line(9, FALSE, "A", <<Bad>>), Line(9, TRUE, "B", <<SlotRange(0, 1)>>)>>,
    <<Line(9, TRUE, "A", <<SlotRange(0, 0)>>), Line(9, TRUE, "", <<SlotRange(1, 1)>>)>>,
    <<Line(9, TRUE, "A", <<SlotRange(0, 0), Bad>>), Line(9, TRUE, "B", <<SlotRange(1, 1)>>)>>}

MCRawArgvs == {<<"ping">>, <<"get", "k0">>, <<"get", "k1">>, <<"ars", "flag", "get", "k1">>,
               <<"bitop", "and", "k1", "k1">>, <<"xread", "count", "1">>, <<"xread", "streams", "k1", "0">>}

MCKeySlot(word) == IF word \in {"k1", "streams"} THEN 1 ELSE 0
=============================================================================
