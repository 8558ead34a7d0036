------------------------------ MODULE MCLiveEvents ------------------------------
(* Two executions of one workflow: two log rows of the first, an event row of the *)
(* second whose appender was not told the run. One listener follows the first run *)
(* and has a timeout; the other follows the workflow and has none.                *)
EXTENDS LiveEvents

CONSTANTS e1, e2, e3, x1, x2, r1, r2, w1, byRun, byWorkflow

KindOfEvent == [e \in {e1, e2, e3} |-> IF e = e2 THEN "event" ELSE "log"]
ExecutionOfEvent == [e \in {e1, e2, e3} |-> IF e = e2 THEN x2 ELSE x1]
Runs == [x \in {x1, x2} |-> IF x = x1 THEN r1 ELSE r2]
OneWorkflow == [x \in {x1, x2} |-> w1]
References ==
  [l \in Listeners |->
     [execution |-> NoId,
      run |-> IF l = byRun THEN r1 ELSE NoId,
      workflow |-> w1]]
==================================================================================
