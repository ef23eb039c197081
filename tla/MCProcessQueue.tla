--------------------------- MODULE MCProcessQueue ---------------------------
(***************************************************************************)
(* An instance of ProcessQueue for TLC.                                    *)
(***************************************************************************)
EXTENDS ProcessQueue

CONSTANTS procA, procB, procC   \* processes, the first two of equal priority

MCProcs == {procA, procB, procC}

MCPriority == [p \in MCProcs |-> IF p = procC THEN -1 ELSE 2]
=============================================================================
