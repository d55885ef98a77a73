----------------------------- MODULE TaskDrive -----------------------------
(***************************************************************************)
(* How harness-application and the terminal put the Mission kernel, the    *)
(* outbox, the agent sessions and the tool journal to work: tasks and      *)
(* agent teams are submitted, run, wait for a tool approval, are cancelled *)
(* and are resumed after the process was killed.                           *)
(*                                                                         *)
(* The application is single-threaded.  A command of the user or the       *)
(* result of a background team starts an operation, and an operation is a  *)
(* series of transactions, each durable at once.  `script' holds those     *)
(* still to come: Tail(script) follows a transaction that succeeds, and a  *)
(* transaction that is refused ends the operation (the `?' of the code).   *)
(* A crash may fall between any two of them; a lease may lapse at any time.*)
(*                                                                         *)
(* The kernel is that of module Mission, seen per unit: a unit is a run    *)
(* together with the node it was started for (a node is started at most    *)
(* once).  Dependencies between nodes, appended nodes, budgets, agent      *)
(* slots and endpoints are left out.  A run asks for approval at most once.*)
(***************************************************************************)
EXTENDS Naturals, Sequences, FiniteSets, SequencesExt

CONSTANTS
  Unit,           \* runs, one for each node
  Mission,        \* missions
  NoMission,
  Team,           \* the missions that are run by a background team
  Review,         \* those of them that review the changes: a team of one
  missionOf,      \* missionOf[u]: the mission of the node
  nodeOf,         \* nodeOf[u]: the name of the node in its plan
  Interactive,    \* is this the full terminal, which runs tasks in a worker?
  MaxCommand, MaxCrash, MaxLapse, MaxRound   \* bounds, see the README

ASSUME TaskDriveAssumption ==
  /\ NoMission \notin Mission
  /\ Review \subseteq Team /\ Team \subseteq Mission
  /\ IsFiniteSet(Unit)
  /\ missionOf \in [Unit -> Mission]
  /\ \A m \in Mission : \E u \in Unit : missionOf[u] = m   \* no plan is empty
  /\ Interactive \in BOOLEAN
  /\ {MaxCommand, MaxCrash, MaxLapse, MaxRound} \subseteq Nat

VARIABLES
  \* on disk
  mission,    \* mission[m]: MissionState.status; "none" before it is created
  node,       \* node[u]: the status of the node and its run
  outbox,     \* the effects in the order listed
  row,        \* row[e]: the status of the outbox row, or the outcome recorded
  token,      \* token[e]: the number of the claim in force
  lapsed,     \* lapsed[e]: has the lease of the claim expired?
  session,    \* session[u]: AgentSession.status
  tool,       \* tool[u]: the tool invocation that needs approval
  envelope,   \* envelope[u]: the mission this invocation belongs to
  \* in memory
  active,     \* active_mission_id
  script,     \* what the operation in progress still has to do
  hand,       \* the claims of the team being prepared
  claims,     \* the claims of the background team
  teamOf,     \* the mission of the background team
  dropped,    \* cancelled_tasks of the background team
  dropAll,    \* cancellation_requested
  keeps,      \* keeps[u]: the model continuation kept for an approval
  \* about the behaviour
  workedFor,  \* workedFor[u]: the missions the model has finished u for
  promised,   \* the members whose cancellation was promised since the start
  commands, crashes, lapses, rounds

kernel == <<mission, node, outbox>>
leases == <<row, token, lapsed>>
journals == <<session, tool, envelope>>
team == <<claims, teamOf, dropped, dropAll>>
faults == <<crashes, lapses, rounds>>
counters == <<commands, faults>>
history == <<workedFor, promised>>
vars == <<kernel, leases, journals, active, script, hand, team, keeps,
          history, counters>>

Kind == {"start", "resume", "verify", "cancel"}
Effect == [kind : Kind, unit : Unit]
Eff(k, u) == [kind |-> k, unit |-> u]
Claim == [effect : Effect, token : Nat]

Live == {"running", "waiting", "submitted"}
UnitsOf(m) == {u \in Unit : missionOf[u] = m}

-----------------------------------------------------------------------------
(* The transactions an operation is made of.                               *)

Command(c, m, u) == [do |-> "kernel", command |-> c, mission |-> m, unit |-> u]
MissionCommand(c, m) == [do |-> "mission", command |-> c, mission |-> m]
Session(u, s) == [do |-> "session", unit |-> u, status |-> s]
Complete(c, o) == [do |-> "complete", claim |-> c, outcome |-> o]
Drive(m) == [do |-> "drive", mission |-> m]
Known(m, u) == [do |-> "known", mission |-> m, unit |-> u]
Begin(m, u) == [do |-> "begin", mission |-> m, unit |-> u]
Execute(m, c) == [do |-> "execute", mission |-> m, claim |-> c]
ClaimRun(u, Kinds) == [do |-> "claim", unit |-> u, kinds |-> Kinds]
Keep(u, how) == [do |-> "keep", unit |-> u, how |-> how]
Ask(m, u) == [do |-> "ask", mission |-> m, unit |-> u]
Retain(c) == [do |-> "retain", claim |-> c]
RunTool(u) == [do |-> "tool", unit |-> u]
Regroup(m) == [do |-> "regroup", mission |-> m]
Launch(m) == [do |-> "launch", mission |-> m]
Finish(m) == [do |-> "finish", mission |-> m]
Wave(m) == [do |-> "wave", mission |-> m]
Fail == [do |-> "fail"]

(* The next transaction is of this kind.                                   *)
Doing(d) == script # <<>> /\ Head(script).do = d
Now == Head(script)

Proceed == script' = Tail(script) /\ UNCHANGED hand
Refuse == script' = <<>> /\ hand' = {}
Expand(s) == script' = s \o Tail(script) /\ UNCHANGED hand

(* One script after the other, for the elements of S in some fixed order.  *)
ForEach(S, Part(_)) ==
  LET s == SetToSeq(S) IN FlattenSeq([i \in DOMAIN s |-> Part(s[i])])

-----------------------------------------------------------------------------
(* The kernel: apply_mission_command.                                      *)

(* Faulty: work that was accepted can still be cancelled. *)
FromAccepted ==
  [start |-> {"queued"}, submit |-> {"running"}, accept |-> {"submitted"},
   fail |-> {"running", "submitted"}, ask |-> {"running"},
   allow |-> {"waiting"}, deny |-> {"waiting"},
   drop |-> Live \cup {"queued", "accepted"}]

From == [start |-> {"queued"}, submit |-> {"running"}, accept |-> {"submitted"},
         fail |-> {"running", "submitted"}, ask |-> {"running"},
         allow |-> {"waiting"}, deny |-> {"waiting"},
         drop |-> Live \cup {"queued"}]
(* Faulty: the node takes the status of the approval. *)
ToDenied ==
  [start |-> "running", submit |-> "submitted", accept |-> "accepted",
   fail |-> "failed", ask |-> "waiting", allow |-> "running",
   deny |-> "denied", drop |-> "cancelled"]

To == [start |-> "running", submit |-> "submitted", accept |-> "accepted",
       fail |-> "failed", ask |-> "waiting", allow |-> "running",
       deny |-> "failed", drop |-> "cancelled"]

(* Faulty: the node is found by its name, whichever run reports. *)
OwnByName(m, u) == \E v \in UnitsOf(m) : nodeOf[v] = nodeOf[u]

(* In another mission no node has run u.                                   *)
Own(m, u) == missionOf[u] = m

(* Faulty: an approval that is allowed resumes nothing. *)
EmittedNoResume(c, u) ==
  CASE c = "start" -> {Eff("start", u)}
    [] c = "submit" -> {Eff("verify", u)}
    [] c = "drop" /\ node[u] \in Live -> {Eff("cancel", u)}
    [] OTHER -> {}

(* The effects committed with the events of command c on unit u.           *)
Emitted(c, u) ==
  CASE c = "start" -> {Eff("start", u)}
    [] c = "submit" -> {Eff("verify", u)}
    [] c = "allow" -> {Eff("resume", u)}
    [] c = "drop" /\ node[u] \in Live -> {Eff("cancel", u)}
    [] OTHER -> {}

Emit(E) ==
  /\ outbox' = outbox \o SetToSeq(E)
  /\ row' = [e \in Effect |-> IF e \in E THEN "pending" ELSE row[e]]
  /\ UNCHANGED <<token, lapsed>>

ApplyCommand ==
  /\ Doing("kernel")
  /\ LET c == Now.command
         u == Now.unit
     IN  IF Own(Now.mission, u) /\ node[u] \in From[c]
         THEN /\ node' = [node EXCEPT ![u] = To[c]]
              /\ Emit(Emitted(c, u))
              /\ UNCHANGED mission
              /\ Proceed
         ELSE Refuse /\ UNCHANGED <<kernel, leases>>
  /\ UNCHANGED <<journals, active, team, keeps, history, counters>>

(* CreateMission, InstallPlan and CancelMission.                           *)
ApplyMissionCommand ==
  /\ Doing("mission")
  /\ LET m == Now.mission
         Lost == {u \in UnitsOf(m) : node[u] \in Live \cup {"queued"}}
     IN  \/ /\ Now.command = "create" /\ mission[m] = "none"
            /\ mission' = [mission EXCEPT ![m] = "new"]
            /\ UNCHANGED <<node, outbox, leases>>
            /\ Proceed
         \/ /\ Now.command = "plan" /\ mission[m] = "new"
            /\ mission' = [mission EXCEPT ![m] = "running"]
            /\ node' = [u \in Unit |->
                          IF u \in UnitsOf(m) THEN "queued" ELSE node[u]]
            /\ UNCHANGED <<outbox, leases>>
            /\ Proceed
         \/ /\ Now.command = "cancel" /\ mission[m] \in {"new", "running"}
            /\ mission' = [mission EXCEPT ![m] = "cancelled"]
            /\ node' = [u \in Unit |-> IF u \in Lost THEN "cancelled" ELSE node[u]]
            /\ Emit({Eff("cancel", u) : u \in {v \in Lost : node[v] \in Live}})
            /\ Proceed
         \/ /\ Now.command = "cancel" /\ mission[m] \notin {"new", "running"}
            /\ UNCHANGED <<kernel, leases>>
            /\ Refuse
  /\ UNCHANGED <<journals, active, team, keeps, history, counters>>

(* The mission is completed if all its nodes are accepted.                 *)
FinishMission ==
  /\ Doing("finish")
  /\ LET m == Now.mission
     IN  mission' = IF /\ mission[m] = "running"
                       /\ \A u \in UnitsOf(m) : node[u] = "accepted"
                    THEN [mission EXCEPT ![m] = "completed"] ELSE mission
  /\ Proceed
  /\ UNCHANGED <<node, outbox, leases, journals, active, team, keeps,
                 history, counters>>

-----------------------------------------------------------------------------
(* The outbox.                                                             *)

Claimable(e) == row[e] = "pending" \/ (row[e] = "claimed" /\ lapsed[e])

Take(e) ==
  /\ row' = [row EXCEPT ![e] = "claimed"]
  /\ token' = [token EXCEPT ![e] = @ + 1]
  /\ lapsed' = [lapsed EXCEPT ![e] = FALSE]

Taken(e) == [effect |-> e, token |-> token[e] + 1]

(* What the drive loop does for an effect it has claimed.                  *)
Service(m, c) ==
  LET u == c.effect.unit
  IN  CASE c.effect.kind \in {"start", "resume"} ->
             <<Begin(m, u), Execute(m, c)>>
        [] c.effect.kind = "verify" ->
             <<Known(m, u), Session(u, "completed"), Command("accept", m, u),
               Complete(c, "done")>>
        [] c.effect.kind = "cancel" ->
             <<Known(m, u), Session(u, "cancelled"), Complete(c, "done")>>

(* One turn of the drive loop: the oldest claimable effect, of whichever   *)
(* mission, is claimed and served as if it were of mission m.              *)
DriveEffects ==
  /\ Doing("drive")
  /\ LET i == SelectInSeq(outbox, Claimable)
     IN  IF i = 0
         THEN Proceed /\ UNCHANGED leases
         ELSE /\ Take(outbox[i])
              /\ script' = Service(Now.mission, Taken(outbox[i])) \o script
              /\ UNCHANGED hand
  /\ UNCHANGED <<kernel, journals, active, team, keeps, history, counters>>

(* A team claims the effect that starts or resumes one of its own runs.    *)
ClaimForTeam ==
  /\ Doing("claim")
  /\ LET i == SelectInSeq(outbox, LAMBDA e :
                /\ e.unit = Now.unit
                /\ e.kind \in Now.kinds
                /\ Claimable(e))
     IN  IF i = 0
         THEN Refuse /\ UNCHANGED leases
         ELSE /\ Take(outbox[i])
              /\ hand' = hand \cup {Taken(outbox[i])}
              /\ script' = Tail(script)
  /\ UNCHANGED <<kernel, journals, active, team, keeps, history, counters>>

(* complete_effect: recorded under the claim in force, or repeated.        *)
CompleteEffect ==
  /\ Doing("complete")
  /\ LET e == Now.claim.effect
     IN  \/ /\ row[e] = "claimed" /\ token[e] = Now.claim.token
            /\ row' = [row EXCEPT ![e] = Now.outcome]
            /\ Proceed
         \/ /\ row[e] = Now.outcome
            /\ UNCHANGED row
            /\ Proceed
         \/ /\ row[e] # Now.outcome
            /\ row[e] = "claimed" => token[e] # Now.claim.token
            /\ UNCHANGED row
            /\ Refuse
  /\ UNCHANGED <<kernel, token, lapsed, journals, active, team, keeps,
                 history, counters>>

-----------------------------------------------------------------------------
(* Agent runs.                                                             *)

(* Does the plan of m have a node of the name of u's?                      *)
Has(m, u) ==
  mission[m] # "none" /\ \E v \in UnitsOf(m) : nodeOf[v] = nodeOf[u] /\ node[v] # "absent"

(* agent-node-missing                                                      *)
FindNode ==
  /\ Doing("known")
  /\ IF Has(Now.mission, Now.unit) THEN Proceed ELSE Refuse
  /\ UNCHANGED <<kernel, leases, journals, active, team, keeps, history,
                 counters>>

(* begin_agent_run looks for the node by name, and for the run only when   *)
(* it has no session yet.                                                  *)
BeginAgentRun ==
  /\ Doing("begin")
  /\ LET u == Now.unit
     IN  IF Has(Now.mission, u) /\ (session[u] # "none" \/ Own(Now.mission, u))
         THEN session' = [session EXCEPT ![u] = "running"] /\ Proceed
         ELSE Refuse /\ UNCHANGED session
  /\ UNCHANGED <<kernel, leases, tool, envelope, active, team, keeps,
                 history, counters>>

(* set_agent_session_status; there may be no session to set.               *)
SetSession ==
  /\ Doing("session")
  /\ session' = IF session[Now.unit] = "none" THEN session
                ELSE [session EXCEPT ![Now.unit] = Now.status]
  /\ Proceed
  /\ UNCHANGED <<kernel, leases, tool, envelope, active, team, keeps,
                 history, counters>>

(* Faulty: the outbox is told before the kernel. *)
SubmittedEarly(m, c) ==
  LET u == c.effect.unit
  IN  <<Session(u, "submitted"), Complete(c, "done"), Command("submit", m, u)>>

(* What follows when the model has finished the work of a unit.            *)
Submitted(m, c) ==
  LET u == c.effect.unit
  IN  <<Session(u, "submitted"), Command("submit", m, u), Complete(c, "done")>>

(* Is the continuation kept for u one that mission m takes up again?       *)
Continues(m, u) == keeps[u] = "single" /\ envelope[u] = m

ModelFinishes ==
  /\ Doing("execute")
  /\ LET m == Now.mission
         u == Now.claim.effect.unit
     IN  /\ workedFor' = [workedFor EXCEPT ![u] = @ \cup {m}]
         /\ keeps' = IF Continues(m, u) THEN [keeps EXCEPT ![u] = "none"] ELSE keeps
         /\ Expand(Submitted(m, Now.claim))
  /\ UNCHANGED <<kernel, leases, journals, active, team, promised, counters>>

(* The model fails or is cancelled, or the provider or model selected is   *)
(* no longer the one the continuation was made with: then the continuation *)
(* is put back.  The operation ends with an error.                         *)
ModelFails ==
  /\ Doing("execute")
  /\ LET m == Now.mission
         u == Now.claim.effect.unit
     IN  /\ \/ UNCHANGED keeps
            \/ Continues(m, u) /\ keeps' = [keeps EXCEPT ![u] = "none"]
         /\ script' = <<Complete(Now.claim, "failed"), Session(u, "failed"),
                        Command("fail", m, u)>>
  /\ hand' = {}
  /\ UNCHANGED <<kernel, leases, journals, active, team, history, counters>>

(* A tool of the model needs approval: the node waits, and so does the     *)
(* drive loop, which ends here without an error.                           *)
ModelAsks ==
  /\ Doing("execute")
  /\ LET m == Now.mission
         u == Now.claim.effect.unit
     IN  /\ tool[u] = "none" /\ rounds < MaxRound
         /\ rounds' = rounds + 1
         /\ tool' = [tool EXCEPT ![u] = "waiting"]
         /\ envelope' = [envelope EXCEPT ![u] = m]
         /\ keeps' = [keeps EXCEPT ![u] = "single"]
         /\ script' = <<Command("ask", m, u), Session(u, "waiting-approval"),
                        Complete(Now.claim, "asked")>>
                      \o SubSeq(script, 3, Len(script))
  /\ UNCHANGED <<kernel, leases, session, active, hand, team, history,
                 commands, crashes, lapses>>

-----------------------------------------------------------------------------
(* Tasks and teams.                                                        *)

Idle == script = <<>>

(* The user gives a command, and only when nothing is in progress.         *)
Commanded ==
  /\ Idle /\ commands < MaxCommand
  /\ commands' = commands + 1
  /\ UNCHANGED faults

(* run_fake_task: a mission of one node, driven in the foreground.         *)
SubmitTask(m) ==
  /\ Commanded /\ teamOf = NoMission
  /\ m \notin Team /\ mission[m] = "none"
  /\ active' = m
  /\ script' = <<MissionCommand("create", m), MissionCommand("plan", m)>>
               \o ForEach(UnitsOf(m), LAMBDA u : <<Command("start", m, u)>>)
               \o <<Drive(m), Finish(m)>>
  /\ UNCHANGED <<kernel, leases, journals, hand, team, keeps, history>>

(* Every queued unit of the team is started, claimed and begun.            *)
Staff(m, S) ==
  ForEach(S, LAMBDA u : <<Command("start", m, u), ClaimRun(u, {"start"}),
                          Begin(m, u)>>)
  \o <<Launch(m)>>

(* prepare_parallel_agent_team and prepare_review_agent, launched in the   *)
(* background.  A review does not ask first whether a team is running.     *)
SubmitTeam(m) ==
  /\ Commanded
  /\ teamOf = NoMission \/ m \in Review
  /\ m \in Team /\ mission[m] = "none"
  /\ active' = m
  /\ script' = <<MissionCommand("create", m), MissionCommand("plan", m)>>
               \o Staff(m, UnitsOf(m))
  /\ UNCHANGED <<kernel, leases, journals, hand, team, keeps, history>>

(* launch_background_team: a team that finds another one running is let go.*)
LaunchTeam ==
  /\ Doing("launch")
  /\ IF teamOf = NoMission
     THEN teamOf' = Now.mission /\ claims' = hand
     ELSE UNCHANGED <<teamOf, claims>>
  /\ hand' = {}
  /\ script' = Tail(script)
  /\ UNCHANGED <<kernel, leases, journals, active, dropped, dropAll, keeps,
                 history, counters>>

(* Faulty: waits until nothing of the mission is running. *)
NextWaveWaits ==
  /\ Doing("wave")
  /\ LET m == Now.mission
         Queued == {u \in UnitsOf(m) : node[u] = "queued"}
     IN  /\ \A u \in UnitsOf(m) : node[u] \notin {"running", "submitted"}
         /\ IF Queued = {} THEN Proceed ELSE Expand(Staff(m, Queued))
  /\ UNCHANGED <<kernel, leases, journals, active, team, keeps, history,
                 counters>>

(* prepare_next_agent_wave, when nothing of the mission is running.        *)
NextWave ==
  /\ Doing("wave")
  /\ LET m == Now.mission
         Queued == {u \in UnitsOf(m) : node[u] = "queued"}
     IN  IF \/ Queued = {}
            \/ \E u \in UnitsOf(m) : node[u] \in {"running", "submitted"}
         THEN Proceed
         ELSE Expand(Staff(m, Queued))
  /\ UNCHANGED <<kernel, leases, journals, active, team, keeps, history,
                 counters>>

(* How the members of a team end a wave.  "cut" is an error on the way to  *)
(* the kernel, a spent budget for one; "snag" an error of a tool.          *)
Outcome == {"ok", "error", "yield", "ask", "cut", "snag"}

(* finalize_parallel_agent_team_step for one outcome.                      *)
Settle(m, c, o, isDropped) ==
  LET u == c.effect.unit
  IN  CASE isDropped -> <<Complete(c, "dropped"), Command("drop", m, u)>>
        [] ~isDropped /\ o = "ok" -> Submitted(m, c)
        [] ~isDropped /\ o = "error" ->
             <<Session(u, "failed"), Command("fail", m, u), Complete(c, "failed")>>
        [] ~isDropped /\ o = "yield" ->
             <<Session(u, "waiting-tool"), Session(u, "running"), Retain(c)>>
        [] ~isDropped /\ o = "ask" ->
             <<Session(u, "waiting-tool"), Ask(m, u), Command("ask", m, u),
               Session(u, "waiting-approval"), Complete(c, "asked"),
               Keep(u, "team")>>
        [] ~isDropped /\ o = "cut" -> <<Fail>>
        [] ~isDropped /\ o = "snag" -> <<Session(u, "waiting-tool"), Fail>>

(* finalize_parallel_agent_team_step: the outcomes one by one, the effects *)
(* they leave, and then the next wave.                                     *)
TeamReturns(o) ==
  LET m == teamOf
      Again == {c \in claims : o[c.effect.unit] \in {"yield", "ask"}}
  IN  /\ Idle /\ teamOf # NoMission /\ ~dropAll
      /\ \A c \in claims :
           o[c.effect.unit] = "ask" => tool[c.effect.unit] = "none"
      /\ rounds + Cardinality(Again) <= MaxRound
      /\ rounds' = rounds + Cardinality(Again)
      /\ workedFor' = [u \in Unit |->
                         IF \E c \in claims : c.effect.unit = u /\ o[u] = "ok"
                         THEN workedFor[u] \cup {m} ELSE workedFor[u]]
      /\ UNCHANGED promised
      /\ script' = ForEach(claims, LAMBDA c :
                      Settle(m, c, o[c.effect.unit], c.effect.unit \in dropped))
                   \o <<Drive(m), Regroup(m)>>
      /\ claims' = {} /\ teamOf' = NoMission /\ dropped' = {}
      /\ UNCHANGED <<kernel, leases, journals, active, hand, dropAll, keeps,
                     commands, crashes, lapses>>

(* The team was told to stop, or its worker was lost: its effects are      *)
(* settled, then the mission is cancelled.                                 *)
TeamStops ==
  LET m == teamOf
  IN  /\ Idle /\ teamOf # NoMission
      /\ script' = ForEach(claims, LAMBDA c : <<Complete(c, "dropped")>>)
                   \o <<MissionCommand("cancel", m), Drive(m)>>
      /\ claims' = {} /\ teamOf' = NoMission /\ dropped' = {} /\ dropAll' = FALSE
      /\ UNCHANGED <<kernel, leases, journals, active, hand, keeps, history,
                     counters>>

(* The members that yielded go on under the claims they have.              *)
RetainClaim ==
  /\ Doing("retain")
  /\ hand' = hand \cup {Now.claim}
  /\ script' = Tail(script)
  /\ UNCHANGED <<kernel, leases, journals, active, team, keeps, history,
                 counters>>

RegroupTeam ==
  /\ Doing("regroup")
  /\ LET m == Now.mission
     IN  Expand(IF hand # {} THEN <<Launch(m)>> ELSE <<Finish(m), Wave(m)>>)
  /\ UNCHANGED <<kernel, leases, journals, active, team, keeps, history,
                 counters>>

GiveUp ==
  /\ Doing("fail")
  /\ Refuse
  /\ UNCHANGED <<kernel, leases, journals, active, team, keeps, history,
                 counters>>

(* prepare_recovered_agent_team, for the active mission.                   *)
Resume ==
  LET m == active
      S == {u \in UnitsOf(m) : session[u] = "running"}
      Recover(u) == IF node[u] = "running"
                    THEN <<ClaimRun(u, {"start", "resume"}), Begin(m, u)>>
                    ELSE <<Fail>>
  IN  /\ Commanded /\ teamOf = NoMission /\ m # NoMission
      /\ S # {}
      /\ script' = ForEach(S, Recover) \o <<Launch(m)>>
      /\ UNCHANGED <<kernel, leases, journals, active, hand, team, keeps,
                     history>>

-----------------------------------------------------------------------------
(* Approvals.                                                              *)

AskForTool ==
  /\ Doing("ask")
  /\ tool' = [tool EXCEPT ![Now.unit] = "waiting"]
  /\ envelope' = [envelope EXCEPT ![Now.unit] = Now.mission]
  /\ Proceed
  /\ UNCHANGED <<kernel, leases, session, active, team, keeps, history,
                 counters>>

KeepContinuation ==
  /\ Doing("keep")
  /\ keeps' = [keeps EXCEPT ![Now.unit] = Now.how]
  /\ Proceed
  /\ UNCHANGED <<kernel, leases, journals, active, team, history, counters>>

(* approve_tool is refused when the model's continuation is gone.  In the  *)
(* full terminal it is also refused while a team is running.               *)
ApproveTool(u) ==
  /\ Commanded
  /\ Interactive => teamOf = NoMission
  /\ tool[u] = "waiting" /\ keeps[u] # "none"
  /\ script' = <<RunTool(u)>>
  /\ UNCHANGED <<kernel, leases, journals, active, hand, team, keeps,
                 history>>

(* The tool runs before the kernel learns of the decision.                 *)
ToolCompletes ==
  /\ Doing("tool")
  /\ LET u == Now.unit
         m == envelope[u]
     IN  /\ tool' = [tool EXCEPT ![u] = "completed"]
         /\ active' = m
         /\ \/ /\ keeps[u] = "team"
               /\ keeps' = [keeps EXCEPT ![u] = "none"]
               /\ Expand(<<Command("allow", m, u), ClaimRun(u, {"resume"}),
                           Session(u, "running"), Launch(m)>>)
            \/ /\ keeps[u] = "single"
               /\ UNCHANGED keeps
               /\ Expand(<<Command("allow", m, u), Drive(m), Finish(m)>>)
  /\ UNCHANGED <<kernel, leases, session, envelope, team, history, counters>>

ToolFails ==
  /\ Doing("tool")
  /\ tool' = [tool EXCEPT ![Now.unit] = "failed"]
  /\ Proceed
  /\ UNCHANGED <<kernel, leases, session, envelope, active, team, keeps,
                 history, counters>>

(* deny_tool: the journal, the memory, then the kernel, if it waits.       *)
DenyTool(u) ==
  LET m == envelope[u]
  IN  /\ Commanded /\ tool[u] = "waiting"
      /\ tool' = [tool EXCEPT ![u] = "denied"]
      /\ keeps' = [keeps EXCEPT ![u] = "none"]
      /\ script' =
           (IF keeps[u] # "none" \/ (Own(m, u) /\ node[u] = "waiting")
            THEN <<Command("deny", m, u)>> ELSE <<>>)
           \o (IF keeps[u] = "team" THEN <<Session(u, "failed")>> ELSE <<>>)
      /\ UNCHANGED <<kernel, leases, session, envelope, active, hand, team,
                     history>>

-----------------------------------------------------------------------------
(* Cancellation.                                                           *)

(* Ctrl-C stops the background team, or else cancels the active mission.   *)
CancelCurrent ==
  /\ Commanded
  /\ \/ /\ teamOf # NoMission /\ ~dropAll
        /\ dropAll' = TRUE
        /\ UNCHANGED script
     \/ /\ teamOf = NoMission /\ active # NoMission
        /\ script' = <<MissionCommand("cancel", active), Drive(active)>>
        /\ UNCHANGED dropAll
  /\ UNCHANGED <<kernel, leases, journals, active, hand, claims, teamOf,
                 dropped, keeps, history>>

(* /queue cancel                                                           *)
CancelTask(u) ==
  /\ Commanded
  /\ \/ /\ \E c \in claims : c.effect.unit = u
        /\ dropped' = dropped \cup {u}
        /\ promised' = promised \cup {u}
        /\ UNCHANGED script
     \/ /\ teamOf = NoMission /\ missionOf[u] = active
        /\ script' = <<Command("drop", active, u), Drive(active)>>
        /\ UNCHANGED <<dropped, promised>>
  /\ UNCHANGED <<kernel, leases, journals, active, hand, claims, teamOf,
                 dropAll, keeps, workedFor>>

-----------------------------------------------------------------------------
(* What nobody decides: leases lapse and processes die.                    *)

Held(e) ==
  LET c == [effect |-> e, token |-> token[e]]
  IN  \/ c \in claims \cup hand
      \/ \E i \in DOMAIN script :
           /\ script[i].do \in {"execute", "complete", "retain"}
           /\ script[i].claim = c

LapseOrphan(e) ==
  /\ row[e] = "claimed" /\ ~lapsed[e] /\ ~Held(e)
  /\ lapsed' = [lapsed EXCEPT ![e] = TRUE]
  /\ UNCHANGED <<kernel, row, token, journals, active, script, hand, team,
                 keeps, history, counters>>

LapseEarly(e) ==
  /\ row[e] = "claimed" /\ ~lapsed[e] /\ Held(e)
  /\ lapses < MaxLapse
  /\ lapses' = lapses + 1
  /\ lapsed' = [lapsed EXCEPT ![e] = TRUE]
  /\ UNCHANGED <<kernel, row, token, journals, active, script, hand, team,
                 keeps, history, commands, crashes, rounds>>

Recoverable == {"running", "waiting-tool", "waiting-approval"}

(* The process is killed and started again.  The active mission is that of *)
(* the recoverable session updated last, which is any of them here.        *)
Crash ==
  /\ crashes < MaxCrash
  /\ crashes' = crashes + 1
  /\ script' = <<>> /\ hand' = {}
  /\ claims' = {} /\ teamOf' = NoMission /\ dropped' = {} /\ dropAll' = FALSE
  /\ keeps' = [u \in Unit |-> "none"]
  /\ LET Candidates == {missionOf[u] : u \in {v \in Unit : session[v] \in Recoverable}}
     IN  IF Candidates = {} THEN active' = NoMission ELSE active' \in Candidates
  /\ promised' = {}
  /\ UNCHANGED <<kernel, leases, journals, workedFor, commands, lapses,
                 rounds>>

-----------------------------------------------------------------------------
Init ==
  /\ mission = [m \in Mission |-> "none"]
  /\ node = [u \in Unit |-> "absent"]
  /\ outbox = <<>>
  /\ row = [e \in Effect |-> "absent"]
  /\ token = [e \in Effect |-> 0]
  /\ lapsed = [e \in Effect |-> FALSE]
  /\ session = [u \in Unit |-> "none"]
  /\ tool = [u \in Unit |-> "none"]
  /\ envelope = [u \in Unit |-> NoMission]
  /\ active = NoMission
  /\ script = <<>>
  /\ hand = {}
  /\ claims = {} /\ teamOf = NoMission /\ dropped = {} /\ dropAll = FALSE
  /\ keeps = [u \in Unit |-> "none"]
  /\ workedFor = [u \in Unit |-> {}] /\ promised = {}
  /\ commands = 0 /\ crashes = 0 /\ lapses = 0 /\ rounds = 0

(* The operation in progress goes on.                                      *)
Go ==
  \/ ApplyCommand \/ ApplyMissionCommand \/ FinishMission
  \/ DriveEffects \/ ClaimForTeam \/ CompleteEffect
  \/ FindNode \/ BeginAgentRun \/ SetSession
  \/ ModelFinishes \/ ModelFails \/ ModelAsks
  \/ LaunchTeam \/ NextWave \/ RetainClaim \/ RegroupTeam \/ GiveUp
  \/ AskForTool \/ KeepContinuation \/ ToolCompletes \/ ToolFails

Returns ==
  \/ \E o \in [{c.effect.unit : c \in claims} -> Outcome] : TeamReturns(o)
  \/ TeamStops

UserCommand ==
  \/ \E m \in Mission : SubmitTask(m) \/ SubmitTeam(m)
  \/ \E u \in Unit : ApproveTool(u) \/ DenyTool(u) \/ CancelTask(u)
  \/ Resume
  \/ CancelCurrent

Next ==
  \/ Go
  \/ Returns
  \/ UserCommand
  \/ \E e \in Effect : LapseOrphan(e) \/ LapseEarly(e)
  \/ Crash

Spec == Init /\ [][Next]_vars

(* The operation in progress is the thread of the application, which runs  *)
(* until it has nothing to do.                                             *)
FairSpec == Spec /\ WF_vars(Go)

-----------------------------------------------------------------------------
(* Every variable stays within its type.                                   *)
TypeOK ==
  /\ mission \in [Mission -> {"none", "new", "running", "completed", "cancelled"}]
  /\ node \in [Unit -> Live \cup {"absent", "queued", "accepted", "failed",
                                  "cancelled"}]
  /\ outbox \in Seq(Effect)
  /\ row \in [Effect -> {"absent", "pending", "claimed", "done", "asked",
                         "failed", "dropped"}]
  /\ token \in [Effect -> Nat]
  /\ lapsed \in [Effect -> BOOLEAN]
  /\ session \in [Unit -> Recoverable \cup {"none", "submitted", "completed",
                                            "cancelled", "failed"}]
  /\ tool \in [Unit -> {"none", "waiting", "completed", "failed", "denied"}]
  /\ envelope \in [Unit -> Mission \cup {NoMission}]
  /\ active \in Mission \cup {NoMission}
  /\ hand \subseteq Claim /\ claims \subseteq Claim
  /\ teamOf \in Mission \cup {NoMission}
  /\ dropped \subseteq Unit /\ dropAll \in BOOLEAN
  /\ keeps \in [Unit -> {"none", "single", "team"}]
  /\ workedFor \in [Unit -> SUBSET Mission] /\ promised \subseteq Unit
  /\ commands \in 0..MaxCommand /\ crashes \in 0..MaxCrash
  /\ lapses \in 0..MaxLapse /\ rounds \in 0..MaxRound

(* The drive loop serves whatever effect is oldest, and looks its node up  *)
(* by a name that every plain task has.  All the same no work is passed    *)
(* off as another's: what is submitted was done for its own mission.       *)
OwnWorkOnly ==
  \A u \in Unit :
    node[u] \in {"submitted", "accepted"} => missionOf[u] \in workedFor[u]

(* The ledger is never ahead of the kernel: an effect is recorded as done  *)
(* only when the kernel has moved its node, and a crash between the two    *)
(* leaves the effect open rather than the node.                            *)
DoneMeansMoved ==
  \A u \in Unit :
    /\ row[Eff("start", u)] = "done" \/ row[Eff("resume", u)] = "done" =>
         node[u] \notin {"queued", "running", "waiting"}
    /\ row[Eff("verify", u)] = "done" => node[u] = "accepted"
    /\ row[Eff("start", u)] = "asked" => tool[u] # "none"

(* A running node is never forgotten, whatever crashes and lapses: some    *)
(* effect that stands for it can be claimed again, or has been recorded as *)
(* failed or dropped.  A recorded success always comes after the node.     *)
RunningIsOwed ==
  \A u \in Unit :
    node[u] = "running" =>
      \E k \in {"start", "resume"} :
        row[Eff(k, u)] \in {"pending", "claimed", "failed", "dropped"}

(* Every operation comes to an end, however many effects it finds.         *)
OperationsEnd == []<>Idle

StageOf(s) ==
  CASE s = "absent" -> "none"
    [] s = "queued" -> "todo"
    [] s \in Live -> "doing"
    [] s = "accepted" -> "done"
    [] OTHER -> "dead"

Dag(m) == INSTANCE DagExecution WITH
  Task <- UnitsOf(m),
  stage <- [u \in UnitsOf(m) |-> StageOf(node[u])],
  need <- [u \in UnitsOf(m) |-> {}],
  complete <- (mission[m] = "completed")

(* Through crashes, recovery and foreign drivers each mission remains an   *)
(* execution of its own work graph.                                        *)
ImplementsDags ==
  /\ \A m \in Mission : Dag(m)!Init
  /\ [][\A m \in Mission : Dag(m)!Next \/ UNCHANGED Dag(m)!dagVars]_vars

(* fencing.rs:41: the result of an expired runtime cannot advance state.   *)
(* A node is submitted only under the claim in force.                      *)
StaleResultsPowerless ==
  [][\A u \in Unit :
       node[u] = "running" /\ node'[u] = "submitted" =>
         LET c == script[2].claim IN token[c.effect] = c.token]_vars

(* lib.rs:5880: when a run cannot be resumed, its lease may still be valid *)
(* and /resume will work later.                                            *)
ResumeWillWork ==
  Idle /\ teamOf = NoMission =>
    \A u \in Unit :
      session[u] = "running" /\ node[u] = "running" =>
        \E k \in {"start", "resume"} : row[Eff(k, u)] \in {"pending", "claimed"}

(* lib.rs:7457: when the model selection has changed, switching back lets  *)
(* the task that kept its continuation go on.                              *)
SwitchBackContinues ==
  \A u \in Unit :
    Idle /\ tool[u] = "completed" /\ keeps[u] = "single" => node[u] # "failed"

(* main.rs:6377: the terminal promises that a cancelled member's node will *)
(* reach its final state when the worker is back.                          *)
PromiseKept ==
  Idle /\ teamOf = NoMission => \A u \in promised : node[u] \notin Live
=============================================================================
