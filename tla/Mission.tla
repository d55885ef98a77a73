------------------------------ MODULE Mission ------------------------------
(***************************************************************************)
(* The Mission aggregate of harness-kernel: decide_mission followed by     *)
(* reduce_mission over the events it returns, one action per command.  A   *)
(* refused command changes nothing and is not an action.  The effects a    *)
(* command returns are committed to the outbox with its events, so         *)
(* `effects' is the set of all intents ever emitted.                       *)
(*                                                                         *)
(* Titles, summaries, reasons and agent definitions are left out.  The     *)
(* maps nodes, runs and approvals of MissionState are total functions in   *)
(* which "absent" marks a key the map does not hold.                       *)
(***************************************************************************)
EXTENDS Naturals, FiniteSets

CONSTANTS
  Task, Run, Approval,   \* the identifiers in use
  NoTask, NoRun, NoApproval,   \* Option::None, or a key of no record
  MaxVersion             \* bound on the events of the aggregate

ASSUME MissionAssumption ==
  /\ IsFiniteSet(Task)
  /\ NoTask \notin Task
  /\ NoRun \notin Run
  /\ NoApproval \notin Approval
  /\ MaxVersion \in Nat

VARIABLES
  status,          \* MissionState.status
  created,         \* MissionState.project_id is not empty
  version,         \* MissionState.version: the number of events reduced
  nodeStatus,      \* WorkflowNodeState.status, by node
  deps,            \* WorkflowNodeState.depends_on
  nodeRun,         \* WorkflowNodeState.run_id
  nodeApproval,    \* WorkflowNodeState.approval_id
  runStatus,       \* AgentRunState.status, by run
  runNode,         \* AgentRunState.node_id
  approvalStatus,  \* ApprovalState.status, by approval
  approvalNode,    \* ApprovalState.node_id
  approvalRun,     \* ApprovalState.run_id
  effects          \* every EffectIntent emitted so far

nodeLinks == <<nodeRun, nodeApproval>>
approvals == <<approvalStatus, approvalNode, approvalRun>>
vars == <<status, created, version, nodeStatus, deps, nodeLinks,
          runStatus, runNode, approvals, effects>>

MissionStatus == {"new", "running", "completed", "cancelled"}
NodeStatus == {"queued", "running", "waiting-approval", "submitted",
               "accepted", "failed", "cancelled"}
RunStatus == NodeStatus \ {"queued"}
ApprovalStatus == {"pending", "allowed", "denied", "cancelled"}

Live == {"running", "waiting-approval", "submitted"}
Terminal == {"accepted", "failed", "cancelled"}

EffectKind == {"start", "resume", "verify", "cancel"}
Effect(kind, n, r) == [kind |-> kind, node |-> n, run |-> r]

Nodes == {n \in Task : nodeStatus[n] # "absent"}
LiveRuns == {r \in Run : runStatus[r] \in Live}

(* A command commits k events, within the bound on the version.            *)
Commit(k) ==
  /\ version + k <= MaxVersion
  /\ version' = version + k

-----------------------------------------------------------------------------
(* Plans: a plan maps each defined node to the nodes it depends on.        *)

(* Faulty: dependencies exist, cycles go unnoticed. *)
ValidPlanUnsearched(plan) == \A n \in DOMAIN plan : plan[n] \subseteq DOMAIN plan

(* Every dependency is a node of the plan and no group of nodes waits on   *)
(* itself, which is what the depth-first search for cycles establishes.    *)
ValidPlan(plan) ==
  /\ \A n \in DOMAIN plan : plan[n] \subseteq DOMAIN plan
  /\ \A S \in SUBSET DOMAIN plan :
       S # {} => \E n \in S : plan[n] \cap S = {}

(* The plan in force, extended by a plan for other nodes.                  *)
Extended(plan) ==
  [n \in Nodes \cup DOMAIN plan |-> IF n \in Nodes THEN deps[n] ELSE plan[n]]

(* The nodes of the plan enter the map of nodes, queued.                   *)
Enqueue(plan) ==
  /\ nodeStatus' = [n \in Task |->
                      IF n \in DOMAIN plan THEN "queued" ELSE nodeStatus[n]]
  /\ deps' = [n \in Task |-> IF n \in DOMAIN plan THEN plan[n] ELSE deps[n]]
  /\ UNCHANGED <<nodeLinks, runStatus, runNode, approvals, effects>>

(* Faulty: one accepted dependency is enough. *)
ReadyWithAny(n) == deps[n] # {} => \E d \in deps[n] : nodeStatus[d] = "accepted"

Ready(n) == \A d \in deps[n] : nodeStatus[d] = "accepted"

(* The nodes a cancellation of n reaches: n and, through any chain of      *)
(* dependencies, every node behind it.                                     *)
Affected(n) ==
  {m \in Nodes :
     \A S \in SUBSET Nodes :
       /\ n \in S
       /\ \A c \in Nodes : deps[c] \cap S # {} => c \in S
       => m \in S}

-----------------------------------------------------------------------------
Init ==
  /\ status = "new"
  /\ created = FALSE
  /\ version = 0
  /\ nodeStatus = [n \in Task |-> "absent"]
  /\ deps = [n \in Task |-> {}]
  /\ nodeRun = [n \in Task |-> NoRun]
  /\ nodeApproval = [n \in Task |-> NoApproval]
  /\ runStatus = [r \in Run |-> "absent"]
  /\ runNode = [r \in Run |-> NoTask]
  /\ approvalStatus = [a \in Approval |-> "absent"]
  /\ approvalNode = [a \in Approval |-> NoTask]
  /\ approvalRun = [a \in Approval |-> NoRun]
  /\ effects = {}

CreateMission ==
  /\ version = 0
  /\ ~created
  /\ created' = TRUE
  /\ Commit(1)
  /\ UNCHANGED <<status, nodeStatus, deps, nodeLinks, runStatus, runNode,
                 approvals, effects>>

InstallPlan(plan) ==
  /\ created
  /\ Nodes = {}
  /\ DOMAIN plan # {}
  /\ ValidPlan(plan)
  /\ Enqueue(plan)
  /\ status' = "running"
  /\ Commit(1)
  /\ UNCHANGED created

(* Faulty: nodes can be appended to a mission in any state. *)
AppendPlanNodesAnytime(plan) ==
  /\ DOMAIN plan # {}
  /\ DOMAIN plan \cap Nodes = {}
  /\ ValidPlan(Extended(plan))
  /\ Enqueue(plan)
  /\ Commit(1)
  /\ UNCHANGED <<status, created>>

(* The plan is validated as a whole: old nodes together with the new.      *)
AppendPlanNodes(plan) ==
  /\ status = "running"
  /\ DOMAIN plan # {}
  /\ DOMAIN plan \cap Nodes = {}
  /\ ValidPlan(Extended(plan))
  /\ Enqueue(plan)
  /\ Commit(1)
  /\ UNCHANGED <<status, created>>

StartNode(n, r) ==
  /\ nodeStatus[n] = "queued"
  /\ Ready(n)
  /\ nodeStatus' = [nodeStatus EXCEPT ![n] = "running"]
  /\ nodeRun' = [nodeRun EXCEPT ![n] = r]
  /\ runStatus' = [runStatus EXCEPT ![r] = "running"]
  /\ runNode' = [runNode EXCEPT ![r] = n]
  /\ effects' = effects \cup {Effect("start", n, r)}
  /\ Commit(1)
  /\ UNCHANGED <<status, created, deps, nodeApproval, approvals>>

(* The node, whose current run is r, moves from a status in From to s, and *)
(* the run with it.                                                        *)
Advance(n, r, From, s) ==
  /\ nodeRun[n] = r
  /\ nodeStatus[n] \in From
  /\ nodeStatus' = [nodeStatus EXCEPT ![n] = s]
  /\ runStatus' = [runStatus EXCEPT ![r] = s]
  /\ Commit(1)
  /\ UNCHANGED <<status, created, deps, nodeRun, runNode>>

SubmitNode(n, r) ==
  /\ Advance(n, r, {"running"}, "submitted")
  /\ effects' = effects \cup {Effect("verify", n, r)}
  /\ UNCHANGED <<nodeApproval, approvals>>

AcceptNode(n, r) ==
  /\ Advance(n, r, {"submitted"}, "accepted")
  /\ UNCHANGED <<nodeApproval, approvals, effects>>

(* Faulty: the run of the failed node keeps its old status. *)
FailNodeOnly(n, r) ==
  /\ nodeRun[n] = r
  /\ nodeStatus[n] \in {"running", "submitted"}
  /\ nodeStatus' = [nodeStatus EXCEPT ![n] = "failed"]
  /\ Commit(1)
  /\ UNCHANGED <<status, created, deps, nodeLinks, runStatus, runNode,
                 approvals, effects>>

FailNode(n, r) ==
  /\ Advance(n, r, {"running", "submitted"}, "failed")
  /\ UNCHANGED <<nodeApproval, approvals, effects>>

(* Faulty: pending approvals are forgotten. *)
CancelApprovalsNever(S) == UNCHANGED approvals

(* The pending approvals of the nodes in S are cancelled.                  *)
CancelApprovals(S) ==
  /\ approvalStatus' =
       [a \in Approval |->
          IF approvalStatus[a] = "pending" /\ approvalNode[a] \in S
          THEN "cancelled" ELSE approvalStatus[a]]
  /\ UNCHANGED <<approvalNode, approvalRun>>

(* Faulty: only a run that is executing is told to stop. *)
StopOrdersExecuting(S) ==
  {Effect("cancel", n, nodeRun[n]) : n \in {m \in S : nodeStatus[m] = "running"}}

(* The stop orders for the nodes of S: one for each whose run is live.     *)
StopOrders(S) ==
  {Effect("cancel", n, nodeRun[n]) : n \in {m \in S : nodeRun[m] \in LiveRuns}}

(* One NodeCancelled event for each unfinished node reached.               *)
CancelNode(n) ==
  LET Hit == {m \in Affected(n) : nodeStatus[m] \notin Terminal}
  IN  /\ n \in Nodes
      /\ nodeStatus[n] \notin Terminal
      /\ nodeStatus' = [m \in Task |->
                          IF m \in Hit THEN "cancelled" ELSE nodeStatus[m]]
      /\ runStatus' = [r \in Run |->
                         IF r \in {nodeRun[m] : m \in Hit}
                         THEN "cancelled" ELSE runStatus[r]]
      /\ CancelApprovals(Hit)
      /\ effects' = effects \cup StopOrders(Hit)
      /\ Commit(Cardinality(Hit))
      /\ UNCHANGED <<status, created, deps, nodeLinks, runNode>>

(* Faulty: the node keeps its run as its approval. *)
RequestApprovalSwapped(n, r, a) ==
  /\ approvalStatus[a] = "absent"
  /\ Advance(n, r, {"running"}, "waiting-approval")
  /\ nodeApproval' = [nodeApproval EXCEPT ![n] = r]
  /\ approvalStatus' = [approvalStatus EXCEPT ![a] = "pending"]
  /\ approvalNode' = [approvalNode EXCEPT ![a] = n]
  /\ approvalRun' = [approvalRun EXCEPT ![a] = r]
  /\ UNCHANGED effects

RequestApproval(n, r, a) ==
  /\ approvalStatus[a] = "absent"
  /\ Advance(n, r, {"running"}, "waiting-approval")
  /\ nodeApproval' = [nodeApproval EXCEPT ![n] = a]
  /\ approvalStatus' = [approvalStatus EXCEPT ![a] = "pending"]
  /\ approvalNode' = [approvalNode EXCEPT ![a] = n]
  /\ approvalRun' = [approvalRun EXCEPT ![a] = r]
  /\ UNCHANGED effects

(* Faulty: an approval that exists can be decided whatever its status. *)
DecidableIfKnown(a) == approvalStatus[a] # "absent"

Decidable(a) == approvalStatus[a] = "pending"

(* The node and the run are those the approval names: neither their status *)
(* nor the node's current approval is consulted.                           *)
Resolve(a, decision, s) ==
  /\ Decidable(a)
  /\ approvalStatus' = [approvalStatus EXCEPT ![a] = decision]
  /\ nodeStatus' = [nodeStatus EXCEPT ![approvalNode[a]] = s]
  /\ runStatus' = [runStatus EXCEPT ![approvalRun[a]] = s]
  /\ Commit(1)
  /\ UNCHANGED <<status, created, deps, nodeLinks, runNode, approvalNode,
                 approvalRun>>

AllowApproval(a) ==
  /\ Resolve(a, "allowed", "running")
  /\ effects' = effects \cup {Effect("resume", approvalNode[a], approvalRun[a])}

DenyApproval(a) ==
  /\ Resolve(a, "denied", "failed")
  /\ UNCHANGED effects

(* Faulty: it is enough that no node is left to run. *)
AllWorkSettled == \A n \in Nodes : nodeStatus[n] \in Terminal

AllWorkAccepted == \A n \in Nodes : nodeStatus[n] = "accepted"

(* The status of the mission is not consulted.                             *)
CompleteMission ==
  /\ Nodes # {}
  /\ AllWorkAccepted
  /\ status' = "completed"
  /\ Commit(1)
  /\ UNCHANGED <<created, nodeStatus, deps, nodeLinks, runStatus, runNode,
                 approvals, effects>>

CancelMission ==
  /\ status \notin {"completed", "cancelled"}
  /\ status' = "cancelled"
  /\ nodeStatus' = [n \in Task |->
                      IF nodeStatus[n] \in {"absent", "accepted", "failed"}
                      THEN nodeStatus[n] ELSE "cancelled"]
  /\ runStatus' = [r \in Run |->
                     IF runStatus[r] \in {"absent", "accepted", "failed"}
                     THEN runStatus[r] ELSE "cancelled"]
  /\ CancelApprovals(Task)
  /\ effects' = effects \cup {Effect("cancel", runNode[r], r) : r \in LiveRuns}
  /\ Commit(1)
  /\ UNCHANGED <<created, deps, nodeLinks, runNode>>

(* A run identifier is drawn fresh by every caller of StartNode.           *)
Next ==
  \/ CreateMission
  \/ \E S \in SUBSET Task : \E plan \in [S -> SUBSET Task] :
       InstallPlan(plan) \/ AppendPlanNodes(plan)
  \/ \E n \in Task, r \in Run : runStatus[r] = "absent" /\ StartNode(n, r)
  \/ \E n \in Task, r \in Run :
       SubmitNode(n, r) \/ AcceptNode(n, r) \/ FailNode(n, r)
  \/ \E n \in Task : CancelNode(n)
  \/ \E n \in Task, r \in Run, a \in Approval : RequestApproval(n, r, a)
  \/ \E a \in Approval : AllowApproval(a) \/ DenyApproval(a)
  \/ CompleteMission
  \/ CancelMission

Spec == Init /\ [][Next]_vars

-----------------------------------------------------------------------------
(* Every part of the mission state stays within its type.                  *)
TypeOK ==
  /\ status \in MissionStatus
  /\ created \in BOOLEAN
  /\ version \in Nat
  /\ nodeStatus \in [Task -> NodeStatus \cup {"absent"}]
  /\ deps \in [Task -> SUBSET Task]
  /\ nodeRun \in [Task -> Run \cup {NoRun}]
  /\ nodeApproval \in [Task -> Approval \cup {NoApproval}]
  /\ runStatus \in [Run -> RunStatus \cup {"absent"}]
  /\ runNode \in [Run -> Task \cup {NoTask}]
  /\ approvalStatus \in [Approval -> ApprovalStatus \cup {"absent"}]
  /\ approvalNode \in [Approval -> Task \cup {NoTask}]
  /\ approvalRun \in [Approval -> Run \cup {NoRun}]
  /\ effects \subseteq [kind : EffectKind, node : Task, run : Run]

(* The reducer writes a node and its run in separate assignments; they     *)
(* agree all the same: a node has a run once it was started, no two nodes  *)
(* share one, none is orphaned, and both always show the same status.      *)
RunsMirrorNodes ==
  /\ \A n \in Task :
       /\ nodeStatus[n] \in Live \cup {"accepted", "failed"} => nodeRun[n] # NoRun
       /\ nodeStatus[n] \in {"absent", "queued"} => nodeRun[n] = NoRun
       /\ nodeRun[n] # NoRun => /\ runStatus[nodeRun[n]] = nodeStatus[n]
                                /\ runNode[nodeRun[n]] = n
  /\ \A r \in Run :
       runStatus[r] # "absent" => runNode[r] \in Task /\ nodeRun[runNode[r]] = r

(* ResolveApproval trusts the node and run named in the approval without   *)
(* looking at their status.  That is sound because a pending approval is   *)
(* always the current approval of a node that waits for it.                *)
ApprovalsMirrorNodes ==
  /\ \A a \in Approval :
       approvalStatus[a] = "pending" =>
         LET n == approvalNode[a]
         IN  /\ n \in Task
             /\ nodeStatus[n] = "waiting-approval"
             /\ nodeApproval[n] = a
             /\ nodeRun[n] = approvalRun[a]
  /\ \A n \in Task :
       nodeStatus[n] = "waiting-approval" =>
         /\ nodeApproval[n] \in Approval
         /\ approvalStatus[nodeApproval[n]] = "pending"
         /\ approvalNode[nodeApproval[n]] = n

(* A node that was ever started has all its dependencies accepted, still.  *)
DependenciesFirst ==
  \A n \in Task : nodeRun[n] # NoRun =>
    \A d \in deps[n] : nodeStatus[d] = "accepted"

(* A mission with queued nodes can go on: a node is ready or live, unless  *)
(* a failure or a cancellation stands in the way.  Plans, as installed or  *)
(* as extended, never wait on themselves.                                  *)
NoSilentStall ==
  (\E n \in Task : nodeStatus[n] = "queued") =>
    \E n \in Task : \/ nodeStatus[n] \in Live \cup {"failed", "cancelled"}
                    \/ nodeStatus[n] = "queued" /\ Ready(n)

(* A completed mission has all its work accepted, and a mission that is    *)
(* closed either way leaves no node, run or approval in the air.           *)
ClosedMissionQuiet ==
  /\ status = "completed" =>
       Nodes # {} /\ \A n \in Nodes : nodeStatus[n] = "accepted"
  /\ status \in {"completed", "cancelled"} =>
       /\ \A n \in Nodes : nodeStatus[n] \in Terminal
       /\ \A r \in Run : runStatus[r] \notin Live
       /\ \A a \in Approval : approvalStatus[a] # "pending"

(* The outbox hears of every run what it must: its start, a verification   *)
(* once it is submitted, a stop order exactly when it is cancelled, and a  *)
(* resumption for every approval allowed.  It never hears of a run that    *)
(* was not started, or of a node together with a run of another.           *)
EffectsFollowRuns ==
  /\ \A e \in effects : runStatus[e.run] # "absent" /\ runNode[e.run] = e.node
  /\ \A r \in Run :
       LET n == runNode[r]
       IN  /\ runStatus[r] # "absent" => Effect("start", n, r) \in effects
           /\ runStatus[r] \in {"submitted", "accepted"} =>
                Effect("verify", n, r) \in effects
           /\ runStatus[r] = "cancelled" <=> Effect("cancel", n, r) \in effects
  /\ \A a \in Approval :
       approvalStatus[a] = "allowed" =>
         Effect("resume", approvalNode[a], approvalRun[a]) \in effects

(* A node that is accepted, failed or cancelled stays so: no late result,  *)
(* approval or cancellation revives it.                                    *)
OutcomeIsFinal ==
  [][\A n \in Task :
       nodeStatus[n] \in Terminal => nodeStatus'[n] = nodeStatus[n]]_vars

-----------------------------------------------------------------------------
(* The abstract work graph this module implements.                         *)
StageOf(s) ==
  IF s = "absent" THEN "none"
  ELSE IF s = "queued" THEN "todo"
  ELSE IF s \in Live THEN "doing"
  ELSE IF s = "accepted" THEN "done"
  ELSE "dead"

Dag == INSTANCE DagExecution WITH
  stage <- [n \in Task |-> StageOf(nodeStatus[n])],
  need <- deps,
  complete <- (status = "completed")

(* Whoever watches only the work graph sees a DagExecution.                *)
ImplementsDag == Dag!DagSpec
=============================================================================
