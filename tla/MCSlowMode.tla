------------------------------ MODULE MCSlowMode ------------------------------
(* Finite instances of SlowMode for TLC.                                   *)
EXTENDS SlowModeProperties

CONSTANTS p1, p2, p3     \* the callers

MCForeground == [p \in Callers |-> 0]
MCMixed == [p \in Callers |-> IF p = p3 THEN 2 ELSE 0]

MCLimits(rpm, tpm, rpd, concurrent) ==
  [RPM |-> rpm, TPM |-> tpm, RPD |-> rpd, MaxConcurrent |-> concurrent]
MCMinute == MCLimits(3, 4, 0, 2)     \* 2 requests and 3 tokens at 80 percent
MCDay    == MCLimits(0, 0, 3, 2)
MCQueue  == MCLimits(1, 0, 0, 1)
=============================================================================
