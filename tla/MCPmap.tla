------------------------------- MODULE MCPmap -------------------------------
(* Pages are interchangeable, and TLC has no use for the n! orders in      *)
(* which they can be handed out: the view names a page by the places from  *)
(* which it can be reached.  Pages that no directory leads to are told     *)
(* apart by their reference counts only.  Nothing is promised once an      *)
(* entry is loose, and no state after that is told from another.           *)
EXTENDS Pmap

CONSTANT NPages

MCPage   == 1..NPages
MCVpn    == {0, 1}
MCUserVa == {<<0, 0, 0>>, <<0, 1, 0>>}
MCThreeVa == MCUserVa \cup {<<0, 0, 1>>}
MCWindow == {<<1, 0, 0>>, <<1, 1, 0>>}
MCStack  == <<0, 1, 0>>

(* The pages at the four levels of every tree: directory, tables, pages. *)
View ==
    LET d0 == pgdir
        d1 == [e \in Env, i \in Vpn |-> Entry(mem, d0[e], i)]
        d2 == [e \in Env, i, j \in Vpn |-> Entry(mem, d1[e, i], j)]
        d3 == [e \in Env, i, j, k \in Vpn |-> Entry(mem, d2[e, i, j], k)]
        places(p) == <<{e \in Env : d0[e] = p}, {x \in DOMAIN d1 : d1[x] = p},
                       {x \in DOMAIN d2 : d2[x] = p}, {x \in DOMAIN d3 : d3[x] = p}>>
        reach == {d0[e] : e \in Env} \cup {d1[x] : x \in DOMAIN d1}
                 \cup {d2[x] : x \in DOMAIN d2} \cup {d3[x] : x \in DOMAIN d3}
        here == {p \in MCPage : mem.ref[p] > 0 \/ p \in reach}
    IN  IF loose THEN <<loose>> ELSE
        <<{<<places(p), mem.ref[p], p \in mem.free>> : p \in here},
          Cardinality(mem.free \ here), Cardinality(here), halted, gap>>
=============================================================================
