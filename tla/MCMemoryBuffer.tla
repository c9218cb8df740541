--------------------------- MODULE MCMemoryBuffer ---------------------------
(* Entry sizes for the runs of MemoryBuffer: one large entry, small ones.  *)
EXTENDS MemoryBuffer

CONSTANT large

Sizes == [e \in Entries |-> IF e = large THEN 3 ELSE 1]
=============================================================================
