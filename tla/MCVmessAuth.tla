---------------------------- MODULE MCVmessAuth -----------------------------
(* Two users, tables of different length and order, three authIDs.         *)
EXTENDS VmessAuth

MCTables == {<<"u", "v">>, <<"v">>}
Id(u, ts) == [user |-> u, ts |-> ts]
MCAuthIds == {Id("u", 0), Id("v", 0), Id("v", 1)}
=============================================================================
