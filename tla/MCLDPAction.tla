---------------------------- MODULE MCLDPAction ----------------------------
(* Instances of the load-pair action for TLC.                              *)
EXTENDS LDPAction

\* 2-bit halves: 16 load values, enough to tell the halves apart.
MCHalf == 4

\* theBypass0 names kResult1's register, theBypass1 kResult's: the wiring
\* under which each bypass carries the half written to its operand.
MCBypassMatching == [b \in {0, 1} |-> IF b = 0 THEN "kResult1" ELSE "kResult"]

\* theBypass0 names kResult's register and theBypass1 kResult1's, in the
\* order of ldpAction's parameters and of the result operands.
MCBypassInOrder == [b \in {0, 1} |-> IF b = 0 THEN "kResult" ELSE "kResult1"]
=============================================================================
