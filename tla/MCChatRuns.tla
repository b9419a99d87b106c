------------------------------ MODULE MCChatRuns ------------------------------
(***************************************************************************)
(* Two instances of ChatRuns that one run explores side by side: one run   *)
(* with everything that may happen to it, and two runs and the reviews of  *)
(* finished turns that share the slot of the model.                        *)
(***************************************************************************)
EXTENDS ChatRunsProperties

CONSTANTS r1, r2, write, ask

VARIABLE cast     \* what a behaviour is about

AllCalls == [r \in Runs |-> IF r = r1 THEN Calls ELSE {}]
OneAsks == [r \in Runs |-> IF r = r1 THEN {ask} ELSE {}]

\* The second run has to call a tool and has none.
Two == INSTANCE ChatRunsProperties WITH
         CallsOf <- OneAsks, Writes <- {}, Streams <- {"interactive"}, RunKinds <- {"interactive"},
         Fallback <- FALSE, Required <- {r2}, MaxSteps <- 1, MaxToolCalls <- 1,
         MaxCrashes <- 1, MaxPanics <- 0

CastInit == cast \in {"one", "two"} /\ Init

\* Bounds of the exploration: the process dies while the first of two runs has
\* the slot and the second waits for it; only the first of two is stopped or
\* runs out of time.
CastNext ==
  /\ cast' = cast
  /\ \/ /\ cast = "one" /\ Next
        /\ task'[r2] = task[r2]
        /\ crashes' = crashes
     \/ /\ cast = "two" /\ Two!Next
        /\ crashes' # crashes => slot = r1 /\ At(r2, "start")
        /\ ~timeUp'[r2] /\ context'[r2] = "live"

CastSpec ==
  /\ CastInit /\ [][CastNext]_<<vars, cast>>
  /\ WF_vars(cast = "one" /\ Step(r1)) /\ WF_vars(cast = "one" /\ TimeUp(r1))
  /\ WF_vars(cast = "one" /\ ReviewEnds)

\* A run on its own ends.
OneRunEnds == cast = "one" /\ task[r1].pc \notin Outside ~> task[r1].pc \in Outside \/ panics > 0
=============================================================================
