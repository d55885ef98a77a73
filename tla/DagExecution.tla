---------------------------- MODULE DagExecution ----------------------------
(***************************************************************************)
(* What the Mission kernel promises to a client who only looks at the work *)
(* graph: tasks are added with their prerequisites, a task begins once all *)
(* its prerequisites are done, a task that is done or dead never changes   *)
(* again, and the whole is declared complete only when every task is done, *)
(* after which nothing happens.  Runs, approvals, effects, versions and    *)
(* the reasons for giving up are not visible here.  Module Mission is      *)
(* shown to implement this specification.                                  *)
(***************************************************************************)
CONSTANT Task

VARIABLES
  stage,     \* stage[n]: how far task n has come
  need,      \* need[n]: the prerequisites of task n
  complete   \* has the whole been declared complete?

dagVars == <<stage, need, complete>>

Stage == {"none", "todo", "doing", "done", "dead"}

Added == {n \in Task : stage[n] # "none"}

Init ==
  /\ stage = [n \in Task |-> "none"]
  /\ need = [n \in Task |-> {}]
  /\ complete = FALSE

(* New tasks join with prerequisites that are in the graph as well, and no *)
(* group of tasks waits on itself.                                         *)
Grow ==
  \E New \in SUBSET (Task \ Added) :
  \E deps \in [New -> SUBSET (Added \cup New)] :
    /\ stage' = [n \in Task |-> IF n \in New THEN "todo" ELSE stage[n]]
    /\ need' = [n \in Task |-> IF n \in New THEN deps[n] ELSE need[n]]
    /\ \A S \in SUBSET (Added \cup New) :
         S # {} => \E n \in S : need'[n] \cap S = {}
    /\ UNCHANGED complete

Begin(n) ==
  /\ stage[n] = "todo"
  /\ \A d \in need[n] : stage[d] = "done"
  /\ stage' = [stage EXCEPT ![n] = "doing"]
  /\ UNCHANGED <<need, complete>>

Finish(n) ==
  /\ stage[n] = "doing"
  /\ stage' = [stage EXCEPT ![n] = "done"]
  /\ UNCHANGED <<need, complete>>

(* Some unfinished tasks are given up in one step: a failure gives up one, *)
(* a cancellation a task and those behind it, or everything.               *)
Abandon ==
  \E S \in SUBSET {n \in Task : stage[n] \in {"todo", "doing"}} :
    /\ stage' = [n \in Task |-> IF n \in S THEN "dead" ELSE stage[n]]
    /\ UNCHANGED <<need, complete>>

Complete ==
  /\ Added # {}
  /\ \A n \in Added : stage[n] = "done"
  /\ complete' = TRUE
  /\ UNCHANGED <<stage, need>>

Next ==
  /\ ~complete
  /\ \/ Grow
     \/ Abandon
     \/ Complete
     \/ \E n \in Task : Begin(n) \/ Finish(n)

DagSpec == Init /\ [][Next]_dagVars
=============================================================================
