----------------------------- MODULE MCOnceAwait -----------------------------
(* Instances of OnceAwait.                                                  *)
EXTENDS OnceAwait, TLC

CONSTANTS f1, f2, r1, r2, r3

MCFulfillers == {f1, f2}
MCReaders == {r1, r2, r3}
==============================================================================
