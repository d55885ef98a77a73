--------------------------- MODULE ContextSeries ----------------------------
(***************************************************************************)
(* The context of a session: a chain of immutable series with one active   *)
(* head, checkpoints to return to, and sessions forked from a checkpoint   *)
(* (harness-context, store.rs; sqlite_store.rs; the operations of the      *)
(* application).  Most operations make two transactions, one of the        *)
(* session and one of the context, or a checkpoint and a transition; the   *)
(* process may die in between, and the next start repairs what it finds.   *)
(*                                                                         *)
(* One application works on the store at a time (the project lock), so the *)
(* expected head of a transition is the head.  `op' is the transaction the *)
(* operation under way still owes.  The items of a series are the active   *)
(* goal it shows and a set of notes that stand for everything else; the    *)
(* pinned ones are hard-required.                                          *)
(***************************************************************************)
EXTENDS Naturals, Sequences

CONSTANTS
  Session, Home,  \* sessions, and the one of them that is opened at the start
  Goal, NoGoal,
  Note, Pinned,
  MaxSeries, MaxCheckpoint, MaxCrash  \* bounds

VARIABLES
  made,        \* sessions that have been created
  lineage,     \* lineage[s]: the checkpoint s was forked from, or 0
  goal,        \* goal[s]: the goal of the session aggregate
  series,      \* all series ever committed
  head,        \* head[s]: the active series of s, or 0
  checkpoints, \* all checkpoints
  at,          \* the session the application works on
  op,          \* the transaction under way
  returned,    \* history: the last change of the context was a rollback
  crashes

vars == <<made, lineage, goal, series, head, checkpoints, at, op, returned, crashes>>
durable == <<made, lineage, goal, series, head, checkpoints>>

Idle == [todo |-> "nothing", from |-> 0]
Owes(t, c) == [todo |-> t, from |-> c]

Init ==
  /\ made = {}
  /\ lineage = [s \in Session |-> 0]
  /\ goal = [s \in Session |-> NoGoal]
  /\ series = <<>>
  /\ head = [s \in Session |-> 0]
  /\ checkpoints = <<>>
  /\ at = Home
  /\ op = Owes("open", 0)
  /\ returned = FALSE
  /\ crashes = 0

Active == series[head[at]]

-----------------------------------------------------------------------------
(* commit_context_transition: the new series and the head in one step.     *)
(* The first series of a fork has its parent in the other session.         *)
Transition(s, from, shown, notes) ==
  LET parent == IF head[s] = 0 /\ from # 0 THEN checkpoints[from].series
                                           ELSE head[s]
  IN
  /\ Len(series) < MaxSeries
  /\ series' = Append(series, [session |-> s, parent |-> parent, from |-> from,
                               goal |-> shown, notes |-> notes])
  /\ head' = [head EXCEPT ![s] = Len(series) + 1]

(* save_context_checkpoint                                                 *)
SaveCheckpoint ==
  /\ Len(checkpoints) < MaxCheckpoint
  /\ checkpoints' = Append(checkpoints,
                      [session |-> at, series |-> head[at], goal |-> goal[at]])

-----------------------------------------------------------------------------
(* boot and switch_session: the session is created if need be, gets a      *)
(* context, and the context is brought in line with its goal.              *)
OpenSession ==
  /\ op.todo = "open"
  /\ made' = made \cup {at}
  /\ op' = Owes("ensure", 0)
  /\ UNCHANGED <<lineage, goal, series, head, checkpoints, at, returned, crashes>>

(* Faulty: a session without a context gets an empty one. *)
EnsureSeriesEmpty ==
  /\ op.todo = "ensure"
  /\ IF head[at] # 0
     THEN UNCHANGED <<series, head>>
     ELSE Transition(at, 0, NoGoal, {})
  /\ op' = Owes("reconcile", 0)
  /\ UNCHANGED <<made, lineage, goal, checkpoints, at, returned, crashes>>

(* ensure_context_series: a fork that died before it had a context gets    *)
(* the one of its checkpoint.                                              *)
EnsureSeries ==
  LET c == lineage[at]
      source == series[checkpoints[c].series]
  IN
  /\ op.todo = "ensure"
  /\ IF head[at] # 0 THEN UNCHANGED <<series, head>>
     ELSE IF c # 0 THEN Transition(at, c, source.goal, source.notes)
     ELSE Transition(at, 0, NoGoal, {})
  /\ op' = Owes("reconcile", 0)
  /\ UNCHANGED <<made, lineage, goal, checkpoints, at, returned, crashes>>

(* Faulty: a context that shows a goal is left alone. *)
ReconcileAbsent ==
  /\ op.todo = "reconcile"
  /\ IF goal[at] = NoGoal \/ Active.goal # NoGoal
     THEN UNCHANGED <<series, head>>
     ELSE Transition(at, 0, goal[at], Active.notes)
  /\ op' = Idle
  /\ returned' = FALSE
  /\ UNCHANGED <<made, lineage, goal, checkpoints, at, crashes>>

(* reconcile_goal_context: nothing is done for a session without a goal.   *)
Reconcile ==
  /\ op.todo = "reconcile"
  /\ IF goal[at] \in {NoGoal, Active.goal}
     THEN UNCHANGED <<series, head>>
     ELSE Transition(at, 0, goal[at], Active.notes)
  /\ op' = Idle
  /\ returned' = FALSE
  /\ UNCHANGED <<made, lineage, goal, checkpoints, at, crashes>>

-----------------------------------------------------------------------------
(* The commands                                                            *)
Command == op = Idle

SetGoal(g) ==
  /\ Command
  /\ goal' = [goal EXCEPT ![at] = g]
  /\ op' = Owes("show", 0)
  /\ UNCHANGED <<made, lineage, series, head, checkpoints, at, returned, crashes>>

ClearGoal ==
  /\ Command
  /\ goal[at] # NoGoal
  /\ goal' = [goal EXCEPT ![at] = NoGoal]
  /\ op' = Owes("show", 0)
  /\ UNCHANGED <<made, lineage, series, head, checkpoints, at, returned, crashes>>

(* replace_context_source: an unchanged list of items is not committed.    *)
ShowGoal ==
  /\ op.todo = "show"
  /\ IF Active.goal = goal[at] /\ goal[at] = NoGoal
     THEN UNCHANGED <<series, head>>
     ELSE Transition(at, 0, goal[at], Active.notes)
  /\ op' = Idle
  /\ returned' = FALSE
  /\ UNCHANGED <<made, lineage, goal, checkpoints, at, crashes>>

AppendItem(n) ==
  /\ Command
  /\ n \notin Active.notes
  /\ Transition(at, 0, Active.goal, Active.notes \cup {n})
  /\ UNCHANGED <<made, lineage, goal, checkpoints, at, op, returned, crashes>>

CreateCheckpoint ==
  /\ Command
  /\ SaveCheckpoint
  /\ UNCHANGED <<made, lineage, goal, series, head, at, op, returned, crashes>>

(* reset_context and compact begin with a checkpoint.                      *)
BeginReduction(kind) ==
  /\ Command
  /\ SaveCheckpoint
  /\ op' = Owes(kind, 0)
  /\ UNCHANGED <<made, lineage, goal, series, head, at, returned, crashes>>

(* reset_context keeps the goal and what is hard-required.                 *)
Reset ==
  /\ op.todo = "reset"
  /\ Transition(at, 0, Active.goal, Active.notes \cap Pinned)
  /\ op' = Idle
  /\ UNCHANGED <<made, lineage, goal, checkpoints, at, returned, crashes>>

(* compact keeps the goal, the pinned items and some of the others.        *)
Compact(N) ==
  /\ op.todo = "compact"
  /\ N \subseteq Active.notes \ Pinned
  /\ Transition(at, 0, Active.goal, Active.notes \ N)
  /\ op' = Idle
  /\ UNCHANGED <<made, lineage, goal, checkpoints, at, returned, crashes>>

(* Nothing to summarise, no valid summary, no gain: the checkpoint stays.  *)
CompactNot ==
  /\ op.todo = "compact"
  /\ op' = Idle
  /\ UNCHANGED <<durable, at, returned, crashes>>

(* rollback: a new series with the items of the checkpoint's.  The goal of *)
(* the session does not follow.                                            *)
Rollback(c) ==
  LET source == series[checkpoints[c].series] IN
  /\ Command
  /\ checkpoints[c].session = at
  /\ Transition(at, c, source.goal, source.notes)
  /\ returned' = TRUE
  /\ UNCHANGED <<made, lineage, goal, checkpoints, at, op, crashes>>

(* Faulty: the child remembers the series for the checkpoint. *)
ForkOfSeries(c, child) ==
  /\ Command
  /\ checkpoints[c].session = at
  /\ child \notin made
  /\ head[child] = 0
  /\ made' = made \cup {child}
  /\ lineage' = [lineage EXCEPT ![child] = checkpoints[c].series]
  /\ goal' = [goal EXCEPT ![child] = checkpoints[c].goal]
  /\ op' = Idle
  /\ UNCHANGED <<series, head, checkpoints, at, returned, crashes>>

(* fork_session: the child is committed with its lineage and the goal of   *)
(* the checkpoint, then its context.                                       *)
Fork(c, child) ==
  /\ Command
  /\ checkpoints[c].session = at
  /\ child \notin made
  /\ head[child] = 0
  /\ made' = made \cup {child}
  /\ lineage' = [lineage EXCEPT ![child] = c]
  /\ goal' = [goal EXCEPT ![child] = checkpoints[c].goal]
  /\ op' = [todo |-> "fork", from |-> c]
  /\ UNCHANGED <<series, head, checkpoints, at, returned, crashes>>

ForkContext(child) ==
  LET source == series[checkpoints[op.from].series] IN
  /\ op.todo = "fork"
  /\ lineage[child] = op.from
  /\ head[child] = 0
  /\ Transition(child, op.from, source.goal, source.notes)
  /\ op' = Idle
  /\ UNCHANGED <<made, lineage, goal, checkpoints, at, returned, crashes>>

(* switch_session to a session of the project, or to a new one.            *)
SwitchSession(s) ==
  /\ Command
  /\ s # at
  /\ at' = s
  /\ op' = Owes("open", 0)
  /\ UNCHANGED <<durable, returned, crashes>>

(* The process is killed and started on some session.                      *)
Crash(s) ==
  /\ crashes < MaxCrash
  /\ crashes' = crashes + 1
  /\ s \in made \cup {Home}
  /\ at' = s
  /\ op' = Owes("open", 0)
  /\ UNCHANGED <<durable, returned>>

Next ==
  \/ OpenSession \/ EnsureSeries \/ Reconcile
  \/ \E g \in Goal : SetGoal(g)
  \/ ClearGoal \/ ShowGoal
  \/ \E n \in Note : AppendItem(n)
  \/ CreateCheckpoint
  \/ \E kind \in {"reset", "compact"} : BeginReduction(kind)
  \/ Reset \/ CompactNot
  \/ \E N \in SUBSET Note : Compact(N)
  \/ \E c \in DOMAIN checkpoints :
       Rollback(c) \/ \E s \in Session : Fork(c, s)
  \/ \E s \in Session : ForkContext(s) \/ SwitchSession(s) \/ Crash(s)

Spec == Init /\ [][Next]_vars

-----------------------------------------------------------------------------
TypeOK ==
  /\ made \subseteq Session
  /\ lineage \in [Session -> 0..MaxCheckpoint]
  /\ goal \in [Session -> Goal \cup {NoGoal}]
  /\ series \in Seq([session : Session, parent : 0..MaxSeries,
                     from : 0..MaxCheckpoint, goal : Goal \cup {NoGoal},
                     notes : SUBSET Note])
  /\ head \in [Session -> 0..MaxSeries]
  /\ checkpoints \in Seq([session : Session, series : 1..MaxSeries,
                          goal : Goal \cup {NoGoal}])
  /\ at \in Session
  /\ op \in [todo : {"nothing", "open", "ensure", "reconcile", "show", "reset",
                     "compact", "fork"}, from : 0..MaxCheckpoint]

(* Whenever the application waits for a command, the model is shown the    *)
(* goal of the session, even if the process died after the goal was        *)
(* changed and before the context was; only a rollback brings an old one   *)
(* back, until the session is opened again.                                *)
GoalShown ==
  (op = Idle /\ goal[at] # NoGoal /\ ~returned) => Active.goal = goal[at]

(* A forked session begins with the context of its checkpoint, whether the *)
(* fork was completed at once or the process died after the session was    *)
(* created and a later start completed it.                                 *)
ForkIsExact ==
  \A s \in Session :
    (lineage[s] # 0 /\ head[s] # 0) =>
      \E i \in DOMAIN series :
        LET source == series[checkpoints[lineage[s]].series] IN
        /\ series[i].session = s
        /\ series[i].parent = checkpoints[lineage[s]].series
        /\ series[i].from = lineage[s]
        /\ series[i].notes = source.notes
        /\ series[i].goal = source.goal
=============================================================================
