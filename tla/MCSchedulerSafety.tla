-------------------------- MODULE MCSchedulerSafety --------------------------
(***************************************************************************)
(* Two instances of Scheduler that one run explores side by side.          *)
(***************************************************************************)
EXTENDS MCScheduler

CONSTANTS
  r1, r2,
  EditRuns, EditKinds, EditPolicies, \* of the behaviours about the user's edits
  MCTime, MCVersion

(* The third row the edits may use is not interchangeable with the others. *)
Symmetry == Permutations({r1, r2}) \cup Permutations(Tokens)

VARIABLE cast     \* what a behaviour is about

(* Two cycles contend for the runs of one schedule; or the user edits any  *)
(* kind of schedule under one cycle whose repository calls may fail.       *)
Edited == INSTANCE SchedulerProperties WITH
            RunIds <- EditRuns, Kinds <- EditKinds, Policies <- EditPolicies,
            RunAtTimes <- {2}, StorageFaults <- TRUE,
            MaxTime <- MCTime, MaxVersion <- MCVersion, MaxHalts <- 0

CastInit ==
  \/ cast = "leases" /\ Init
  \/ cast = "edits" /\ Edited!Init

(* In the first, time passes when the schedule is there: one created later *)
(* only has less time.                                                     *)
CastNext ==
  /\ cast' = cast
  /\ \/ /\ cast = "leases" /\ Next
        /\ clock' # clock => \A s \in Schedules : schedules[s].status # "absent"
     \/ /\ cast = "edits" /\ Edited!Next
        /\ \A c \in Cycles \ {Poller} : cycle'[c] = cycle[c]

CastSpec == CastInit /\ [][CastNext]_<<vars, cast>>
=============================================================================
