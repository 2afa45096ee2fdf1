-------------------------------- MODULE MCFs --------------------------------
EXTENDS FsInv

E(p, n, t, z) == [parent |-> p, name |-> n, type |-> t, size |-> z]

(* A file of three blocks and an indirect one beside one of one block;   *)
(* or a directory with a file in it.                                       *)
MCHosts == {<<E(0, "a", 0, 5), E(0, "b", 0, 1)>>, <<E(0, "d", 1, 0), E(1, "b", 0, 1)>>}

A == <<"/", "a">>
B == <<"b">>
DB == <<"d", "/", "b">>
MCOpen == {A, B, DB}
MCRemove == {A, DB}
MCDebug == {A, <<"/", "d">>}
MCTwin == {<<>>, A, DB, <<"c">>, <<"a", "/", "b">>, <<"d", "/", "c">>, <<"long">>}
=============================================================================
