------------------------------- MODULE MCCow -------------------------------
(* Pages of two bytes, a program of two pages and two disjoint segments:   *)
(* every way they can lie.  Byte i of segment s has the value 3 * s + i.   *)
EXTENDS Cow

Segments(s) ==
    {[va |-> va, bin |-> [i \in 1..n |-> 3 * s + i], sg |-> sg, w |-> w] :
        va \in 0..3, n \in 0..3, sg \in 1..4, w \in BOOLEAN}

Fits(x) == Len(x.bin) <= x.sg /\ x.va + x.sg <= 4

MCPrograms ==
    {<<x>> : x \in {x \in Segments(0) : Fits(x)}}
    \cup {<<x, y>> : x \in {x \in Segments(0) : Fits(x) /\ ~x.w},
                     y \in {y \in Segments(1) : Fits(y) /\ y.w}} 

Disjoint(p) == Len(p) = 2 => p[1].va + p[1].sg <= p[2].va

MCAll == {p \in MCPrograms : Disjoint(p)}
MCRun == {p \in MCAll : p = <<[va |-> 0, bin |-> <<1>>, sg |-> 2, w |-> FALSE],
                              [va |-> 2, bin |-> <<4>>, sg |-> 2, w |-> TRUE]>>}

\* On these programs the loaders load what the file describes.
ASSUME LoadersCorrect == LoadsRight
=============================================================================
