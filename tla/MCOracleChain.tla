--------------------------- MODULE MCOracleChain ---------------------------
(***************************************************************************)
(* Instances of OracleChain for TLC.                                       *)
(***************************************************************************)
EXTENDS OracleChain, TLC

CONSTANTS c1, c2, p, a
=============================================================================
