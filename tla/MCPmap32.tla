------------------------------ MODULE MCPmap32 ------------------------------
(* As in MCPmap, the view names a page by the places it is reached from.   *)
EXTENDS Pmap32

CONSTANT NPages

MCPage   == 1..NPages
MCVpn    == 0..2
MCUserVa == {<<0, 0>>, <<0, 1>>, <<1, 0>>, <<1, 1>>}

View ==
    LET d1 == [e \in Env, i \in Vpn |-> Entry(mem, pgdir[e], i)]
        d2 == [e \in Env, i, j \in Vpn |-> Entry(mem, d1[e, i], j)]
        places(p) == <<{e \in Env : pgdir[e] = p}, {x \in DOMAIN d1 : d1[x] = p},
                       {x \in DOMAIN d2 : d2[x] = p}>>
    IN  IF loose THEN <<loose>> ELSE
        <<{<<places(p), mem.ref[p], p \in mem.free>> : p \in Page}, Cardinality(mem.free), halted, gap>>
=============================================================================
