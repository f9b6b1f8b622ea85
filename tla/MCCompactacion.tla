--------------------------- MODULE MCCompactacion ---------------------------
(***************************************************************************)
(* A small instance of Compactacion for TLC.                               *)
(***************************************************************************)
EXTENDS Compactacion

MCPrioridadOriginal == [p \in Pids |-> 0]

\* One process runs two instructions, one runs one, the third ends when it is its turn.
MCCiclosUsados == [p \in Pids |-> IF p = 2 THEN 2 ELSE p]
=============================================================================
