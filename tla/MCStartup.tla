----------------------------- MODULE MCStartup ------------------------------
(***************************************************************************)
(* Startup for TLC: a and b share a prefix, c has one of its own and no    *)
(* shared configuration.                                                   *)
(***************************************************************************)
EXTENDS Startup
CONSTANTS a, b, c
MCPrefixOf == [p \in Procs |-> IF p = c THEN "y" ELSE "x"]
=============================================================================
