-------------------------------- MODULE RunLife --------------------------------
(* The life of agent_runs rows as the domain promises it (domain/run.go): a    *)
(* run goes forward only, one version at a time, changes its route at most     *)
(* once, and a terminal state is final.                                        *)
EXTENDS Integers

CONSTANT Runs
VARIABLE rows

Init == rows = [r \in Runs |-> [state |-> "absent", version |-> 0, switched |-> FALSE]]

Ways ==
  {<<"absent", "created">>, <<"created", "queued">>, <<"queued", "running">>,
   <<"running", "waiting_approval">>, <<"waiting_approval", "running">>,
   <<"running", "cancelling">>, <<"waiting_approval", "cancelling">>,
   <<"cancelling", "cancelled">>, <<"running", "completed">>,
   <<"running", "failed">>, <<"waiting_approval", "failed">>}

Move(r, way) ==
  /\ rows[r].state = way[1]
  /\ rows' = [rows EXCEPT ![r].state = way[2], ![r].version = @ + 1]

\* While it runs: another budget, or the other route.
Adjust(r) ==
  /\ rows[r].state = "running"
  /\ \E switched \in {rows[r].switched, TRUE} :
       rows' = [rows EXCEPT ![r].version = @ + 1, ![r].switched = switched]

Next == \E r \in Runs : Adjust(r) \/ \E way \in Ways : Move(r, way)

Spec == Init /\ [][Next]_rows
=============================================================================
