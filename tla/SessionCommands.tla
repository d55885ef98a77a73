-------------------------- MODULE SessionCommands ---------------------------
(***************************************************************************)
(* The commands of a session (harness-kernel, session.rs): which ones are  *)
(* accepted in a state, and what their events make of it.                  *)
(*                                                                         *)
(* An accepted command yields one event with the same content, so commands *)
(* and events are one type.  The selections of a session (model, reasoning,*)
(* settings, title) behave alike and are one field, `chosen'.              *)
(***************************************************************************)
EXTENDS Naturals

CONSTANTS
  Goal,     \* goal revisions
  NoGoal,
  Message,  \* messages of the transcript
  Choice    \* values of a selection

ASSUME SessionAssumption == NoGoal \notin Goal

Empty == [version |-> 0, status |-> "new", forked |-> FALSE, goal |-> NoGoal,
          revisions |-> {}, locked |-> FALSE, chosen |-> "none", transcript |-> {}]

Command ==
  [type : {"create", "fork", "clear"}]
    \cup [type : {"revise"}, goal : Goal, parent : Goal \cup {NoGoal}]
    \cup [type : {"lock"}, locked : BOOLEAN]
    \cup [type : {"select"}, choice : Choice]
    \cup [type : {"append"}, message : Message]

(* decide_session                                                          *)
Accepts(s, c) ==
  CASE c.type \in {"create", "fork"} -> s.version = 0
    [] c.type = "revise" ->
         /\ s.status # "new"
         /\ ~s.locked
         /\ c.goal \notin s.revisions
         /\ c.parent = s.goal
    [] c.type = "clear" -> ~s.locked /\ s.goal # NoGoal
    [] c.type = "lock" -> s.locked # c.locked /\ (c.locked => s.goal # NoGoal)
    [] c.type = "select" -> s.status # "new" /\ s.chosen # c.choice
    [] c.type = "append" -> s.status # "new" /\ c.message \notin s.transcript

(* reduce_session                                                          *)
Apply(s, e) ==
  LET n == [s EXCEPT !.version = @ + 1] IN
  CASE e.type = "create" -> [n EXCEPT !.status = "active"]
    [] e.type = "fork" -> [n EXCEPT !.status = "active", !.forked = TRUE]
    [] e.type = "revise" ->
         [n EXCEPT !.goal = e.goal, !.revisions = @ \cup {e.goal}]
    [] e.type = "clear" -> [n EXCEPT !.goal = NoGoal]
    [] e.type = "lock" -> [n EXCEPT !.locked = e.locked]
    [] e.type = "select" -> [n EXCEPT !.chosen = e.choice]
    [] e.type = "append" -> [n EXCEPT !.transcript = @ \cup {e.message}]
=============================================================================
