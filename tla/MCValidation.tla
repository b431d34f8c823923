---------------------------- MODULE MCValidation ----------------------------
(* Instances of the validators for TLC.                                   *)
EXTENDS Validation

\* Two register values and two program counters: enough for agreement and
\* for a mismatch of each compared pair.
MCVals == {0, 1}
MCPCs == {"pc", "otherPC"}
MCThePC == "pc"
=============================================================================
