------------------------------ MODULE MCFsServ ------------------------------
EXTENDS FsServ

Sizes == [f \in File |-> IF f = "long" THEN 1 ELSE 0]
=============================================================================
