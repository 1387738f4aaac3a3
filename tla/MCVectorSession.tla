--------------------------- MODULE MCVectorSession --------------------------
(* Two files: two elements of one unit or one of two, and a single unit; a   *)
(* sequence that goes below zero; an empty vector of NAs.                    *)
EXTENDS VectorSession

MCElementSize == [t \in {"INT", "REAL", "RAW", "CPLX"} |-> IF t = "CPLX" THEN 2 ELSE 1]
MCDisk0 == [p \in Paths |-> IF p = "p" THEN <<11, 12>> ELSE <<21>>]
Order(source, type, extent) == [source |-> source, type |-> type, extent |-> extent]
Below == SeqSource(1, -1, -2)

MCOrders ==
    {Order(FileSource("p"), "INT", 2), Order(FileSource("p"), "CPLX", 1),
     Order(FileSource("p"), "RAW", 1), Order(FileSource("p"), "INT", 1),
     Order(FileSource("q"), "INT", 1),
     Order(Below, "INT", 2), Order(Below, "REAL", 2), Order(EmptySource("na"), "CPLX", 1)}

MCAltSeqs == {[source |-> Below, type |-> "REAL"]}
=============================================================================
