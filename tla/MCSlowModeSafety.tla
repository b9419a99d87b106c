--------------------------- MODULE MCSlowModeSafety ---------------------------
(***************************************************************************)
(* Two instances of SlowMode that one run explores side by side: a day     *)
(* with an automatic reserve, and minutes with rejections.                 *)
(***************************************************************************)
EXTENDS MCSlowMode

CONSTANTS MinuteSizes, MinuteFeedbacks

VARIABLE cast     \* what a behaviour is about

Minute == INSTANCE SlowModeProperties WITH
            Priority <- MCForeground, Sizes <- MinuteSizes, Limits <- MCMinute,
            SafetyPercent <- 80, ReservePercent <- 0, Feedbacks <- MinuteFeedbacks,
            Window <- 2, DayLength <- 2, LedgerFaults <- FALSE

CastInit ==
  \/ cast = "day" /\ Init
  \/ cast = "minute" /\ Minute!Init

CastNext ==
  /\ cast' = cast
  /\ \/ cast = "day" /\ Next
     \/ cast = "minute" /\ Minute!Next

CastSpec == CastInit /\ [][CastNext]_<<vars, cast>>

(* Nobody sleeps through its turn, in either instance.                     *)
NobodyOversleeps == IF cast = "day" THEN NoLostWakeup ELSE Minute!NoLostWakeup

(* No send and no admission exceeds the provider's minute, and waiters of  *)
(* one class are admitted in the order of their arrival.                   *)
AdmissionsHold ==
  [][IF cast = "day" THEN FirstInFirstOut ELSE Minute!ProviderMinute /\ Minute!FirstInFirstOut]_<<vars, cast>>
=============================================================================
