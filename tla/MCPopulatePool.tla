--------------------------- MODULE MCPopulatePool ---------------------------
(* Instances of PopulatePool.  Each token is taken at most once more than   *)
(* there are faults, so that MaxFaults + Tokens + 1 threads are enough for  *)
(* the bound on threads never to be met.                                    *)
EXTENDS PopulatePool

ASSUME BoundNeverMet == MaxThreads >= MaxFaults + Tokens + 1
=============================================================================
