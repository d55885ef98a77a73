------------------------------ MODULE Browser -------------------------------
(***************************************************************************)
(* The browser agents and the user share (harness-browser): one session    *)
(* over one profile, a worker process that drives the browser, and the     *)
(* journal of the actions.  The calls come one at a time, from the tools   *)
(* of an agent or from the user's commands; the worker goes on by itself,  *)
(* may print a line that is no answer, may fail an action, exit, or be     *)
(* late.  The user may take the browser over (handoff) and give it back    *)
(* (reclaim).  A call other than an action is one step: nothing but the    *)
(* worker moves beside it, and a kill leaves of it what a failure leaves.  *)
(*                                                                         *)
(* An action stands for its command; what is typed, read, uploaded and     *)
(* downloaded, the origins and the references to elements are left out, as *)
(* are the rows of the journal for the session, which nothing reads, and   *)
(* those for a handoff and a reclaim, which say how these ended.           *)
(***************************************************************************)
EXTENDS Integers, Sequences, FiniteSets

CONSTANTS
  Action,    \* actions, by their identifiers in the journal
  Navigate,  \* the actions that navigate
  Nothing,
  MaxNoise,  \* bound on lines of the worker that are no answers
  MaxFault,  \* bound on failures of the journal
  MaxKill    \* bound on the kills of the process

VARIABLES
  status,  \* BrowserRuntimeState::status
  origin,  \* current_origin is known
  worker,  \* the adapter's worker process, see Worker
  op,      \* the action that is under way, see Op
  rows,    \* the journal: status of each action
  effects, \* the actions that took effect, each with what the page was then
  loose,   \* actions a worker still has to do that was left to itself
  told,    \* actions whose caller has heard how they ended
  noise, faults, kills

vars == <<status, origin, worker, op, rows, effects, loose, told, noise, faults, kills>>

Status == {"closed", "starting", "ready", "user-control", "closing", "failed",
           "needs-reconciliation"}

(* Who is in front of the browser, whether the process lives, the requests  *)
(* it has not handled, the lines it has printed, and whether an action has  *)
(* navigated in it.                                                         *)
Worker == [hands: {"agent", "user"}, alive: BOOLEAN, inbox: Seq(Action),
           out: Seq(Action \cup {"noise"}), visited: BOOLEAN]

Op == [action: Action, phase: {"begun", "sent", "answered"}, ok: BOOLEAN]

Row == {"none", "running", "completed", "failed", "uncertain"}

TypeOK ==
  /\ status \in Status /\ origin \in BOOLEAN
  /\ worker \in Worker \cup {Nothing}
  /\ op \in Op \cup {Nothing}
  /\ rows \in [Action -> Row]
  /\ effects \subseteq Action \X {"agent", "user", "loose"} \X BOOLEAN
  /\ loose \subseteq Action /\ told \subseteq Action
  /\ noise \in 0..MaxNoise /\ faults \in 0..MaxFault /\ kills \in 0..MaxKill

Init ==
  /\ status = "closed" /\ origin = FALSE /\ worker = Nothing /\ op = Nothing
  /\ rows = [a \in Action |-> "none"]
  /\ effects = {} /\ loose = {} /\ told = {} /\ noise = 0 /\ faults = 0 /\ kills = 0

Alive == worker # Nothing /\ worker.alive

Fresh(h) == [hands |-> h, alive |-> TRUE, inbox |-> <<>>, out |-> <<>>,
             visited |-> FALSE]

Waiting == IF worker = Nothing THEN {} ELSE {worker.inbox[i] : i \in DOMAIN worker.inbox}

(* The effect of an action in the worker.                                   *)
Effect(a) == <<a, worker.hands, worker.visited \/ a \in Navigate>>

-----------------------------------------------------------------------------
(* The worker.                                                              *)

(* It handles the next request, which has its effect or fails, and answers. *)
Handle ==
  /\ Alive /\ worker.inbox # <<>>
  /\ LET a == Head(worker.inbox) IN
     \E done \in BOOLEAN :
       /\ effects' = IF done THEN effects \cup {Effect(a)} ELSE effects
       /\ worker' = [worker EXCEPT
            !.inbox = Tail(@), !.out = Append(@, a),
            !.visited = @ \/ (done /\ a \in Navigate)]
  /\ UNCHANGED <<status, origin, op, rows, loose, told, noise, faults, kills>>

PrintLine ==
  /\ Alive /\ noise < MaxNoise /\ noise' = noise + 1
  /\ worker' = [worker EXCEPT !.out = Append(@, "noise")]
  /\ UNCHANGED <<status, origin, op, rows, effects, loose, told, faults, kills>>

Exit ==
  /\ Alive
  /\ worker' = [worker EXCEPT !.alive = FALSE, !.inbox = <<>>]
  /\ UNCHANGED <<status, origin, op, rows, effects, loose, told, noise, faults, kills>>

(* A worker that was left to itself finishes what it had been asked.        *)
Finish(a) ==
  /\ a \in loose /\ loose' = loose \ {a}
  /\ effects' = effects \cup {<<a, "loose", TRUE>>}
  /\ UNCHANGED <<status, origin, worker, op, rows, told, noise, faults, kills>>

(* terminate: for two seconds the worker may still handle what it has, then *)
(* it is killed.                                                            *)
Terminate ==
  \E done \in SUBSET {Effect(a) : a \in Waiting} : effects' = effects \cup done

-----------------------------------------------------------------------------
(* The session.                                                             *)

(* The write of a row, which stays as it is when the journal fails.         *)
Noted(a, s) ==
  \/ rows' = [rows EXCEPT ![a] = s] /\ UNCHANGED faults
  \/ faults < MaxFault /\ faults' = faults + 1 /\ rows' = [rows EXCEPT ![a] = "running"]

(* Faulty: what is known of the page is kept.                               *)
OpenedAsWas(known) == known

(* What is known of the page of a browser that was opened.                  *)
Opened(known) == FALSE

(* open: nothing for one that is ready, even when its worker has exited;    *)
(* refused to the user who has the browser, and within another change.      *)
(* launch goes on with a worker that lives.                                 *)
Open ==
  /\ op = Nothing /\ status \in {"closed", "failed", "needs-reconciliation"}
  /\ \/ /\ faults < MaxFault /\ faults' = faults + 1
        /\ status' = "starting" /\ UNCHANGED <<origin, worker>>
     \/ /\ status' = "ready" /\ origin' = Opened(origin)
        /\ worker' = IF Alive THEN worker ELSE Fresh("agent")
        /\ UNCHANGED faults
     \/ /\ ~Alive /\ status' = "failed" /\ UNCHANGED <<origin, worker, faults>>
  /\ UNCHANGED <<op, rows, effects, loose, told, noise, kills>>

(* The worker answers to the request to close only when it has nothing else *)
(* to answer, and is terminated in any case.                                *)
CloseWorker(ok) ==
  /\ IF ok /\ Alive THEN worker.inbox = <<>> /\ worker.out = <<>> ELSE TRUE
  /\ Terminate

Close ==
  /\ op = Nothing /\ status # "closed"
  /\ \E ok \in BOOLEAN :
       /\ CloseWorker(ok)
       /\ status' = IF ok THEN "closed" ELSE "needs-reconciliation"
  /\ origin' = FALSE /\ worker' = Nothing
  /\ UNCHANGED <<op, rows, loose, told, noise, faults, kills>>

(* handoff: the agents' worker is closed and a visible browser opened over  *)
(* the same profile; refused when there is no browser to give.              *)
Handoff ==
  /\ op = Nothing /\ status = "ready" /\ Alive
  /\ \E ok \in BOOLEAN, opened \in BOOLEAN :
       /\ CloseWorker(ok)
       /\ IF ok /\ opened
          THEN /\ status' = "user-control" /\ origin' = FALSE
               /\ worker' = Fresh("user")
          ELSE /\ status' = "needs-reconciliation" /\ worker' = Nothing
               /\ UNCHANGED origin
  /\ UNCHANGED <<op, rows, loose, told, noise, faults, kills>>

(* Faulty: the browser the user has is not closed first.                    *)
GivenBack == worker

(* The worker agents get back: launch is asked for when the user's browser  *)
(* has been closed.                                                         *)
Restarted == Fresh("agent")

Reclaim ==
  /\ op = Nothing /\ status = "user-control"
  /\ \E ok \in BOOLEAN, opened \in BOOLEAN :
       /\ CloseWorker(ok)
       /\ IF ok /\ opened
          THEN status' = "ready" /\ origin' = FALSE /\ worker' = Restarted
          ELSE /\ status' = "needs-reconciliation" /\ worker' = Nothing
               /\ UNCHANGED origin
  /\ UNCHANGED <<op, rows, loose, told, noise, faults, kills>>

-----------------------------------------------------------------------------
(* An action.                                                               *)

(* The row is written before anything is done.                              *)
Begin(a) ==
  /\ op = Nothing /\ rows[a] = "none"
  /\ rows' = [rows EXCEPT ![a] = "running"]
  /\ op' = [action |-> a, phase |-> "begun", ok |-> FALSE]
  /\ UNCHANGED <<status, origin, worker, effects, loose, told, noise, faults, kills>>

(* Faulty: the user's hands on the browser do not matter.                   *)
AllowedAnyway(a) ==
  status \in {"ready", "user-control"} /\ Alive /\ (a \in Navigate \/ origin)

(* validate_command.                                                        *)
Allowed(a) == status = "ready" /\ Alive /\ (a \in Navigate \/ origin)

Send ==
  /\ op # Nothing /\ op.phase = "begun"
  /\ IF Allowed(op.action)
     THEN /\ worker' = [worker EXCEPT !.inbox = Append(@, op.action)]
          /\ op' = [op EXCEPT !.phase = "sent"] /\ UNCHANGED <<rows, faults>>
          /\ UNCHANGED told
     ELSE /\ Noted(op.action, "failed") /\ told' = told \cup {op.action}
          /\ op' = Nothing /\ UNCHANGED worker
  /\ UNCHANGED <<status, origin, effects, loose, noise, kills>>

(* Faulty: the next answer is taken for the answer.                         *)
AnyAnswer(line, a) == line # "noise"

(* The identifier of the answer is that of the request.                     *)
Answers(line, a) == line = a

(* The next line: the answer, with a result of the right shape or not, or   *)
(* an error, or something else, which is an error too.                      *)
Receive ==
  /\ op # Nothing /\ op.phase = "sent" /\ worker.out # <<>>
  /\ worker' = [worker EXCEPT !.out = Tail(@)]
  /\ LET a == op.action
         own == Answers(Head(worker.out), a)
         done == \E e \in effects : e[1] = Head(worker.out)
     IN \E ok \in BOOLEAN :
          /\ ok => own /\ done
          /\ op' = [op EXCEPT !.phase = "answered", !.ok = ok]
          /\ \/ /\ own /\ done /\ UNCHANGED status
             \/ ~ok /\ status' = "needs-reconciliation"
          /\ origin' = (origin \/ (ok /\ a \in Navigate))
  /\ UNCHANGED <<rows, effects, loose, told, noise, faults, kills>>

(* No line came in time: the worker is terminated.  A worker that exited    *)
(* closes its output, which ends the wait too.                              *)
TimeOut ==
  /\ op # Nothing /\ op.phase = "sent" /\ worker.out = <<>>
  /\ Terminate
  /\ worker' = [worker EXCEPT !.alive = FALSE, !.inbox = <<>>]
  /\ status' = "needs-reconciliation"
  /\ op' = [op EXCEPT !.phase = "answered", !.ok = FALSE]
  /\ UNCHANGED <<origin, rows, loose, told, noise, faults, kills>>

Record ==
  /\ op # Nothing /\ op.phase = "answered"
  /\ Noted(op.action, IF op.ok THEN "completed" ELSE "failed")
  /\ op' = Nothing /\ told' = told \cup {op.action}
  /\ UNCHANGED <<status, origin, worker, effects, loose, noise, kills>>

(* Faulty: interrupted actions are taken to have failed.                    *)
RecoverFailed(r) == IF r = "running" THEN "failed" ELSE r

(* recover_interrupted: of an action that was running nobody can tell.      *)
Recovered(r) == IF r = "running" THEN "uncertain" ELSE r

(* The process is killed and started again; its worker reads the end of its *)
(* input when it has done what it was asked.                                *)
Restart ==
  /\ kills < MaxKill /\ kills' = kills + 1
  /\ loose' = loose \cup (IF Alive THEN Waiting ELSE {})
  /\ rows' = [a \in Action |-> Recovered(rows[a])]
  /\ status' = "closed" /\ origin' = FALSE /\ worker' = Nothing /\ op' = Nothing
  /\ UNCHANGED <<effects, told, noise, faults>>

Next ==
  \/ Handle \/ PrintLine \/ Exit
  \/ \E a \in Action : Finish(a) \/ Begin(a)
  \/ Open \/ Close \/ Handoff \/ Reclaim
  \/ Send \/ Receive \/ TimeOut \/ Record \/ Restart

Spec == Init /\ [][Next]_vars

-----------------------------------------------------------------------------
(* Properties.                                                              *)

(* lib.rs:55: while the user has the browser every action of an agent is    *)
(* refused, so that no action takes effect in a browser the user has; and   *)
(* none takes effect on a page the agent has not gone to in that browser.   *)
HandsOff == \A e \in effects : e[2] # "user" /\ e[3]

(* The journal tells what came of an action: one that is completed has taken *)
(* effect, no line of the worker being taken for the answer to another      *)
(* action; and one that failed is one whose caller was told so: of an action *)
(* a kill interrupted nobody knows, and it may take effect yet.             *)
JournalTellsTrue == \A a \in Action :
  /\ rows[a] = "completed" => \E e \in effects : e[1] = a
  /\ rows[a] = "failed" => a \in told
=============================================================================
