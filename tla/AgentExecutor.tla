--------------------------- MODULE AgentExecutor ---------------------------
(***************************************************************************)
(* One batch of agent dispatches on the bounded worker pool (harness-agent, *)
(* BoundedAgentExecutor::execute_batch), the cancellation tokens of the    *)
(* run tree, and the gate that lets one request warm the provider's cache  *)
(* while requests with the same prefix wait (PromptCacheAffinityGate).     *)
(*                                                                         *)
(* Workers are threads: every step between two locks is an action.  Runs   *)
(* with the same model, instructions and tools share a lane.  A panic of   *)
(* the handler is caught by the worker; what it left behind stays.         *)
(***************************************************************************)
EXTENDS Naturals, Sequences

CONSTANTS
  Batch,     \* the dispatches, in their order, each run once
  NoRun,     \* not one of them
  Worker,    \* worker threads, min(max_parallel, dispatches) of them
  Lane,      \* cache lanes
  LaneOf,    \* the lane of a run's first request
  Late,      \* runs whose deadline had passed when the batch began
  MaxCool    \* bound on how often a warm lane runs out

VARIABLES
  queue,     \* dispatches no worker has taken
  job,       \* job[w]: the run worker w has, or NoRun
  at,        \* at[w]: where it is, see Place
  token,     \* runs whose token is cancelled
  lane,      \* lane[l]: "cold" (no entry), "warming", "warm"
  outcome,   \* outcome[r]: "none", "ok", "error"
  returned,  \* execute_batch has returned
  orphaned,  \* history: lanes whose leader panicked while they were warming
  cooled

vars == <<queue, job, at, token, lane, outcome, returned, orphaned, cooled>>

Run == {Batch[i] : i \in DOMAIN Batch}

Place == {"idle", "start", "gate", "leading", "streaming", "gone"}

Init ==
  /\ queue = Batch
  /\ job = [w \in Worker |-> NoRun]
  /\ at = [w \in Worker |-> "idle"]
  /\ token = {}
  /\ lane = [l \in Lane |-> "cold"]
  /\ outcome = [r \in Run |-> "none"]
  /\ returned = FALSE
  /\ orphaned = {}
  /\ cooled = 0

Move(w, place) == at' = [at EXCEPT ![w] = place]

(* The worker records the outcome and looks for the next dispatch.          *)
Ends(w, result) ==
  /\ outcome' = [outcome EXCEPT ![job[w]] = result]
  /\ job' = [job EXCEPT ![w] = NoRun]
  /\ Move(w, "idle")

Pop(w) ==
  /\ at[w] = "idle"
  /\ IF queue = <<>>
       THEN /\ Move(w, "gone")
            /\ UNCHANGED <<queue, job>>
       ELSE /\ job' = [job EXCEPT ![w] = Head(queue)]
            /\ queue' = Tail(queue)
            /\ Move(w, "start")
  /\ UNCHANGED <<token, lane, outcome, returned, orphaned, cooled>>

(* A token cancelled before the start, or a deadline passed when the batch  *)
(* began, ends the run unasked; the latter cancels the token.               *)
Start(w) ==
  /\ at[w] = "start"
  /\ IF job[w] \in token \cup Late
       THEN /\ Ends(w, "error")
            /\ token' = token \cup {job[w]}
       ELSE /\ Move(w, "gate")
            /\ UNCHANGED <<outcome, job, token>>
  /\ UNCHANGED <<queue, lane, returned, orphaned, cooled>>

(* PromptCacheAffinityGate::enter.  The first one of a cold lane leads; the *)
(* others look again every 25 ms until the lane is warm, or cold again.     *)
Enter(w) ==
  /\ at[w] = "gate"
  /\ IF job[w] \in token
       THEN /\ Ends(w, "error")
            /\ UNCHANGED lane
       ELSE /\ lane[LaneOf[job[w]]] # "warming"
            /\ IF lane[LaneOf[job[w]]] = "warm"
                 THEN /\ Move(w, "streaming")
                      /\ UNCHANGED lane
                 ELSE /\ lane' = [lane EXCEPT ![LaneOf[job[w]]] = "warming"]
                      /\ Move(w, "leading")
            /\ UNCHANGED <<outcome, job>>
  /\ UNCHANGED <<queue, token, returned, orphaned, cooled>>

(* The leader's response has started: mark_ready.                           *)
Started(w) ==
  /\ at[w] = "leading"
  /\ lane' = [lane EXCEPT ![LaneOf[job[w]]] = "warm"]
  /\ Move(w, "streaming")
  /\ UNCHANGED <<queue, job, token, outcome, returned, orphaned, cooled>>

(* Faulty: the leader fails and does not say so. *)
LeadFailsSilently(w) ==
  /\ at[w] = "leading"
  /\ Ends(w, "error")
  /\ UNCHANGED <<queue, token, lane, returned, orphaned, cooled>>

(* The leader's request fails or its stream ends before it started:         *)
(* mark_failed.  Its time limit, or its token, sees to that.                *)
LeadFails(w) ==
  /\ at[w] = "leading"
  /\ lane' = [lane EXCEPT ![LaneOf[job[w]]] = "cold"]
  /\ Ends(w, "error")
  /\ UNCHANGED <<queue, token, returned, orphaned, cooled>>

(* The stream ends, with a result or an error.                              *)
StreamEnds(w) ==
  /\ at[w] = "streaming"
  /\ \E result \in {"ok", "error"} : Ends(w, result)
  /\ UNCHANGED <<queue, token, lane, returned, orphaned, cooled>>

(* The handler panics: the worker makes an error of it, and a lane the run  *)
(* was warming stays as it was.                                             *)
Panic(w) ==
  /\ at[w] \in {"leading", "streaming"}
  /\ Ends(w, "error")
  /\ orphaned' = IF at[w] = "leading" THEN orphaned \cup {LaneOf[job[w]]}
                                      ELSE orphaned
  /\ UNCHANGED <<queue, token, lane, returned, cooled>>

(* 240 seconds after it was warmed a lane counts as cold.                   *)
Cool(l) ==
  /\ cooled < MaxCool
  /\ lane[l] = "warm"
  /\ lane' = [lane EXCEPT ![l] = "cold"]
  /\ cooled' = cooled + 1
  /\ UNCHANGED <<queue, job, at, token, outcome, returned, orphaned>>

(* cancel_subtree of the foreground; the runs of a team have no parent.     *)
Cancel(r) ==
  /\ r \notin token
  /\ ~returned
  /\ token' = token \cup {r}
  /\ UNCHANGED <<queue, job, at, lane, outcome, returned, orphaned, cooled>>

(* The scope has joined its workers and the outcomes are sorted.            *)
Return ==
  /\ ~returned
  /\ \A w \in Worker : at[w] = "gone"
  /\ returned' = TRUE
  /\ UNCHANGED <<queue, job, at, token, lane, outcome, orphaned, cooled>>

WorkerStep(w) ==
  Pop(w) \/ Start(w) \/ Enter(w) \/ Started(w) \/ LeadFails(w) \/ StreamEnds(w)
    \/ Panic(w)

Next ==
  \/ \E w \in Worker : WorkerStep(w)
  \/ \E l \in Lane : Cool(l)
  \/ \E r \in Run : Cancel(r)
  \/ Return

(* Threads are scheduled, and every request has a time limit.               *)
Spec ==
  /\ Init /\ [][Next]_vars
  /\ \A w \in Worker : WF_vars(WorkerStep(w))
  /\ WF_vars(Return)

-----------------------------------------------------------------------------
TypeOK ==
  /\ \A i \in DOMAIN queue : queue[i] \in Run
  /\ job \in [Worker -> Run \cup {NoRun}]
  /\ at \in [Worker -> Place]
  /\ token \subseteq Run
  /\ lane \in [Lane -> {"cold", "warming", "warm"}]
  /\ outcome \in [Run -> {"none", "ok", "error"}]
  /\ returned \in BOOLEAN
  /\ orphaned \subseteq Lane
  /\ cooled \in 0..MaxCool

(* A batch returns with an outcome for every dispatch, unless a leader's    *)
(* panic leaves a lane warming: then those behind it wait until cancelled.  *)
BatchEnds ==
  <>(orphaned # {} \/ (returned /\ \A r \in Run : outcome[r] # "none"))
=============================================================================
