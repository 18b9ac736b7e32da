---------------------------- MODULE MCExecution ----------------------------
(***************************************************************************)
(* The execution of a recipe, and the requests to a Pod it consists of,    *)
(* checked by one run.  They share no variable, so their product would add *)
(* nothing: part names the one that takes the steps of a behaviour while   *)
(* the other rests as it started.                                          *)
(***************************************************************************)
EXTENDS MCRecipeProcess, PodSession

VARIABLE part

ExecutionInit == part \in {"recipe", "session"} /\ Init /\ SessionInit

ExecutionNext ==
  /\ UNCHANGED part
  /\ \/ part = "recipe" /\ Next /\ UNCHANGED sessionVars
     \/ part = "session" /\ SessionNext /\ UNCHANGED recipeVars

executionVars == <<part, recipeVars, sessionVars>>

(* The fairness of PodSession, conjunct by conjunct, for a session that    *)
(* does not rest: it could start.                                          *)
ActiveSessionFairness ==
  /\ WF_sessionVars(part = "session" /\ RunSession)
  /\ WF_sessionVars(part = "session" /\ \E n \in Request, lost \in BOOLEAN : WriteFrame(n, lost))
  /\ \A n \in Request : /\ WF_sessionVars(part = "session" /\ Timeout(n))
                        /\ WF_sessionVars(part = "session" /\ FailClosed(n))

(* A recipe that rests has nothing to do.                                  *)
ExecutionSpec ==
  /\ ExecutionInit /\ [][ExecutionNext]_executionVars
  /\ Fairness /\ ActiveSessionFairness
=============================================================================
