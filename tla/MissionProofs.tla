--------------------------- MODULE MissionProofs ---------------------------
(* Theorems about Mission, for every set of identifiers and every bound.   *)
EXTENDS Mission, FiniteSetTheorems, TLAPS

-----------------------------------------------------------------------------
(* Type correctness.                                                       *)

LEMMA HitCount ==
  ASSUME NEW n \in Task
  PROVE  Cardinality({m \in Affected(n) : nodeStatus[m] \notin Terminal}) \in Nat
  <1>1. {m \in Affected(n) : nodeStatus[m] \notin Terminal} \in SUBSET Task
    BY DEF Affected, Nodes
  <1>2. QED
    BY <1>1, MissionAssumption, FS_Subset, FS_CardinalityType
    DEF MissionAssumption

LEMMA TypeStep ==
  TypeOK /\ RunsMirrorNodes /\ ApprovalsMirrorNodes /\ [Next]_vars => TypeOK'
  <1> SUFFICES ASSUME TypeOK, RunsMirrorNodes, ApprovalsMirrorNodes, [Next]_vars
               PROVE  TypeOK'
    OBVIOUS
  <1> USE DEF TypeOK, MissionStatus, NodeStatus, RunStatus, ApprovalStatus,
              EffectKind, Effect, Commit, nodeLinks, approvals
  <1>1. CASE CreateMission
    BY <1>1 DEF CreateMission
  <1>2. ASSUME NEW S \in SUBSET Task, NEW plan \in [S -> SUBSET Task],
               InstallPlan(plan) \/ AppendPlanNodes(plan)
        PROVE  TypeOK'
    BY <1>2 DEF InstallPlan, AppendPlanNodes, Enqueue
  <1>3. ASSUME NEW n \in Task, NEW r \in Run, StartNode(n, r)
        PROVE  TypeOK'
    BY <1>3 DEF StartNode
  <1>4. ASSUME NEW n \in Task, NEW r \in Run, SubmitNode(n, r)
        PROVE  TypeOK'
    BY <1>4 DEF SubmitNode, Advance
  <1>5. ASSUME NEW n \in Task, NEW r \in Run, AcceptNode(n, r) \/ FailNode(n, r)
        PROVE  TypeOK'
    BY <1>5 DEF AcceptNode, FailNode, Advance
  <1>6. ASSUME NEW n \in Task, CancelNode(n)
        PROVE  TypeOK'
    <2> DEFINE Hit == {m \in Affected(n) : nodeStatus[m] \notin Terminal}
    <2>1. /\ nodeStatus' = [m \in Task |->
                              IF m \in Hit THEN "cancelled" ELSE nodeStatus[m]]
          /\ runStatus' = [r \in Run |->
                             IF r \in {nodeRun[m] : m \in Hit}
                             THEN "cancelled" ELSE runStatus[r]]
          /\ CancelApprovals(Hit)
          /\ effects' = effects \cup StopOrders(Hit)
          /\ version' = version + Cardinality(Hit)
          /\ UNCHANGED <<status, created, deps, nodeRun, nodeApproval, runNode>>
      BY <1>6 DEF CancelNode
    <2>2. Hit \subseteq Task /\ Cardinality(Hit) \in Nat
      BY HitCount DEF Affected, Nodes
    <2> HIDE DEF Hit
    <2>3. StopOrders(Hit) \subseteq [kind : EffectKind, node : Task, run : Run]
      BY <2>2 DEF StopOrders, LiveRuns
    <2>4. approvalStatus' \in [Approval -> ApprovalStatus \cup {"absent"}]
          /\ UNCHANGED <<approvalNode, approvalRun>>
      BY <2>1 DEF CancelApprovals
    <2>5. QED
      BY <2>1, <2>2, <2>3, <2>4
  <1>7. ASSUME NEW n \in Task, NEW r \in Run, NEW a \in Approval,
               RequestApproval(n, r, a)
        PROVE  TypeOK'
    BY <1>7 DEF RequestApproval, Advance
  <1>8. ASSUME NEW a \in Approval, AllowApproval(a) \/ DenyApproval(a)
        PROVE  TypeOK'
    <2>1. approvalNode[a] \in Task /\ approvalRun[a] \in Run
      BY <1>8 DEF AllowApproval, DenyApproval, Resolve, Decidable,
                  ApprovalsMirrorNodes, RunsMirrorNodes, Live
    <2>2. QED
      BY <1>8, <2>1 DEF AllowApproval, DenyApproval, Resolve
  <1>9. CASE CompleteMission
    BY <1>9 DEF CompleteMission
  <1>10. CASE CancelMission
    <2>1. \A r \in LiveRuns : runNode[r] \in Task
      BY DEF LiveRuns, Live, RunsMirrorNodes
    <2>2. {Effect("cancel", runNode[r], r) : r \in LiveRuns}
            \subseteq [kind : EffectKind, node : Task, run : Run]
      BY <2>1 DEF LiveRuns
    <2>3. QED
      BY <1>10, <2>2 DEF CancelMission, CancelApprovals
  <1>11. CASE UNCHANGED vars
    BY <1>11 DEF vars
  <1>12. QED
    BY <1>1, <1>2, <1>3, <1>4, <1>5, <1>6, <1>7, <1>8, <1>9, <1>10, <1>11 DEF Next

-----------------------------------------------------------------------------
(* A node and its run move together.                                       *)

LEMMA RunsStep ==
  TypeOK /\ RunsMirrorNodes /\ ApprovalsMirrorNodes /\ [Next]_vars
    => RunsMirrorNodes'
  <1> SUFFICES ASSUME TypeOK, RunsMirrorNodes, ApprovalsMirrorNodes, [Next]_vars
               PROVE  RunsMirrorNodes'
    OBVIOUS
  <1> USE MissionAssumption
      DEF MissionAssumption, TypeOK, RunsMirrorNodes, Live, nodeLinks
  <1>1. ASSUME UNCHANGED <<nodeStatus, nodeRun, runStatus, runNode>>
        PROVE  RunsMirrorNodes'
    BY <1>1
  <1>2. ASSUME NEW S \in SUBSET Task, NEW plan \in [S -> SUBSET Task],
               Enqueue(plan), S \cap Nodes = {}
        PROVE  RunsMirrorNodes'
    BY <1>2 DEF Enqueue, Nodes
  <1>3. ASSUME NEW n \in Task, NEW r \in Run,
               runStatus[r] = "absent", StartNode(n, r)
        PROVE  RunsMirrorNodes'
    BY <1>3 DEF StartNode
  <1>4. ASSUME NEW n \in Task, NEW r \in Run, NEW From \in SUBSET Live,
               NEW s \in NodeStatus \ {"queued"}, Advance(n, r, From, s)
        PROVE  RunsMirrorNodes'
    BY <1>4 DEF Advance, NodeStatus
  <1>5. ASSUME NEW n \in Task, CancelNode(n)
        PROVE  RunsMirrorNodes'
    <2> DEFINE Hit == {m \in Affected(n) : nodeStatus[m] \notin Terminal}
    <2>1. Hit \subseteq Nodes
      BY DEF Affected
    <2>2. /\ nodeStatus' = [m \in Task |->
                              IF m \in Hit THEN "cancelled" ELSE nodeStatus[m]]
          /\ runStatus' = [r \in Run |->
                             IF r \in {nodeRun[m] : m \in Hit}
                             THEN "cancelled" ELSE runStatus[r]]
          /\ UNCHANGED <<nodeRun, runNode>>
      BY <1>5 DEF CancelNode
    <2> HIDE DEF Hit
    <2>3. QED
      BY <2>1, <2>2 DEF Nodes
  <1>6. ASSUME NEW a \in Approval, NEW d, NEW s \in {"running", "failed"},
               Resolve(a, d, s)
        PROVE  RunsMirrorNodes'
    <2>1. LET n == approvalNode[a]
          IN  n \in Task /\ nodeStatus[n] = "waiting-approval"
              /\ nodeRun[n] = approvalRun[a] /\ approvalRun[a] \in Run
      BY <1>6 DEF Resolve, Decidable, ApprovalsMirrorNodes
    <2>2. PICK n \in Task : n = approvalNode[a] /\ nodeRun[n] = approvalRun[a]
      BY <2>1
    <2>3. PICK r \in Run : r = approvalRun[a] /\ nodeRun[n] = r
      BY <2>1, <2>2
    <2>4. /\ nodeStatus' = [nodeStatus EXCEPT ![n] = s]
          /\ runStatus' = [runStatus EXCEPT ![r] = s]
          /\ UNCHANGED <<nodeRun, runNode>>
      BY <1>6, <2>2, <2>3 DEF Resolve
    <2>5. nodeStatus[n] = "waiting-approval"
      BY <2>1, <2>2
    <2>6. QED
      BY ONLY TypeOK, RunsMirrorNodes, MissionAssumption, <2>3, <2>4, <2>5
  <1>7. CASE CancelMission
    <2> DEFINE Closed == {"absent", "accepted", "failed"}
    <2>1. /\ nodeStatus' = [n \in Task |->
                              IF nodeStatus[n] \in Closed
                              THEN nodeStatus[n] ELSE "cancelled"]
          /\ runStatus' = [r \in Run |->
                             IF runStatus[r] \in Closed
                             THEN runStatus[r] ELSE "cancelled"]
          /\ UNCHANGED <<nodeRun, runNode>>
      BY <1>7 DEF CancelMission
    <2>2. ASSUME NEW n \in Task
          PROVE  /\ nodeStatus'[n] \in Live \cup {"accepted", "failed"}
                      => nodeRun'[n] # NoRun
                 /\ nodeStatus'[n] \in {"absent", "queued"}
                      => nodeRun'[n] = NoRun
                 /\ nodeRun'[n] # NoRun
                      => /\ runStatus'[nodeRun'[n]] = nodeStatus'[n]
                         /\ runNode'[nodeRun'[n]] = n
      BY ONLY TypeOK, RunsMirrorNodes, MissionAssumption, <2>1
    <2>3. ASSUME NEW r \in Run
          PROVE  runStatus'[r] # "absent"
                   => runNode'[r] \in Task /\ nodeRun'[runNode'[r]] = r
      BY ONLY TypeOK, RunsMirrorNodes, MissionAssumption, <2>1
    <2>4. QED
      BY <2>2, <2>3
  <1>8. CASE UNCHANGED vars
    BY <1>1, <1>8 DEF vars
  <1>9. CASE CreateMission \/ CompleteMission
    BY ONLY <1>1, <1>9 DEF CreateMission, CompleteMission, nodeLinks
  <1>10. ASSUME NEW S \in SUBSET Task, NEW plan \in [S -> SUBSET Task],
                InstallPlan(plan) \/ AppendPlanNodes(plan)
         PROVE  RunsMirrorNodes'
    <2>1. Enqueue(plan) /\ S \cap Nodes = {}
      BY ONLY <1>10 DEF InstallPlan, AppendPlanNodes
    <2>2. QED
      BY ONLY <1>2, <2>1
  <1>11. ASSUME NEW n \in Task, NEW r \in Run,
                SubmitNode(n, r) \/ AcceptNode(n, r) \/ FailNode(n, r)
         PROVE  RunsMirrorNodes'
    BY ONLY <1>4, <1>11 DEF SubmitNode, AcceptNode, FailNode, NodeStatus, Live
  <1>12. ASSUME NEW n \in Task, NEW r \in Run, NEW a \in Approval,
                RequestApproval(n, r, a)
         PROVE  RunsMirrorNodes'
    BY ONLY <1>4, <1>12 DEF RequestApproval, NodeStatus, Live
  <1>13. ASSUME NEW a \in Approval, AllowApproval(a) \/ DenyApproval(a)
         PROVE  RunsMirrorNodes'
    BY ONLY <1>6, <1>13 DEF AllowApproval, DenyApproval
  <1>14. CASE Next
    BY ONLY <1>3, <1>5, <1>7, <1>9, <1>10, <1>11, <1>12, <1>13, <1>14 DEF Next
  <1>15. QED
    BY ONLY [Next]_vars, <1>8, <1>14

-----------------------------------------------------------------------------
(* A pending approval belongs to the node that waits for it.               *)

LEMMA ApprovalsStep ==
  TypeOK /\ RunsMirrorNodes /\ ApprovalsMirrorNodes /\ [Next]_vars
    => ApprovalsMirrorNodes'
  <1> SUFFICES ASSUME TypeOK, RunsMirrorNodes, ApprovalsMirrorNodes, [Next]_vars
               PROVE  ApprovalsMirrorNodes'
    OBVIOUS
  <1> USE MissionAssumption
      DEF MissionAssumption, TypeOK, ApprovalsMirrorNodes, nodeLinks, approvals
  <1>1. ASSUME UNCHANGED <<nodeStatus, nodeLinks, approvals>>
        PROVE  ApprovalsMirrorNodes'
    BY <1>1
  <1>2. ASSUME NEW S \in SUBSET Task, NEW plan \in [S -> SUBSET Task],
               Enqueue(plan), S \cap Nodes = {}
        PROVE  ApprovalsMirrorNodes'
    BY <1>2 DEF Enqueue, Nodes
  <1>3. ASSUME NEW n \in Task, NEW r \in Run, StartNode(n, r)
        PROVE  ApprovalsMirrorNodes'
    BY <1>3 DEF StartNode
  <1>4. ASSUME NEW n \in Task, NEW r \in Run,
               SubmitNode(n, r) \/ AcceptNode(n, r) \/ FailNode(n, r)
        PROVE  ApprovalsMirrorNodes'
    BY <1>4 DEF SubmitNode, AcceptNode, FailNode, Advance
  <1>5. ASSUME NEW n \in Task, CancelNode(n)
        PROVE  ApprovalsMirrorNodes'
    <2> DEFINE Hit == {m \in Affected(n) : nodeStatus[m] \notin Terminal}
    <2>1. /\ nodeStatus' = [m \in Task |->
                              IF m \in Hit THEN "cancelled" ELSE nodeStatus[m]]
          /\ CancelApprovals(Hit)
          /\ UNCHANGED nodeLinks
      BY <1>5 DEF CancelNode
    <2> HIDE DEF Hit
    <2>2. QED
      BY <2>1 DEF CancelApprovals
  <1>6. ASSUME NEW n \in Task, NEW r \in Run, NEW a \in Approval,
               RequestApproval(n, r, a)
        PROVE  ApprovalsMirrorNodes'
    BY <1>6 DEF RequestApproval, Advance
  <1>7. ASSUME NEW a \in Approval, AllowApproval(a) \/ DenyApproval(a)
        PROVE  ApprovalsMirrorNodes'
    BY <1>7 DEF AllowApproval, DenyApproval, Resolve, Decidable
  <1>8. CASE CancelMission
    BY <1>8 DEF CancelMission, CancelApprovals
  <1>9. ASSUME NEW S \in SUBSET Task, NEW plan \in [S -> SUBSET Task],
               InstallPlan(plan) \/ AppendPlanNodes(plan)
        PROVE  ApprovalsMirrorNodes'
    <2>1. Enqueue(plan) /\ S \cap Nodes = {}
      BY <1>9 DEF InstallPlan, AppendPlanNodes
    <2>2. QED
      BY <1>2, <2>1
  <1>10. CASE CreateMission \/ CompleteMission \/ UNCHANGED vars
    BY <1>10, <1>1 DEF CreateMission, CompleteMission, vars
  <1>11. QED
    BY ONLY <1>3, <1>4, <1>5, <1>6, <1>7, <1>8, <1>9, <1>10, [Next]_vars DEF Next

-----------------------------------------------------------------------------
(* Nodes never leave the plan, new ones only come in by Enqueue, and what  *)
(* is settled stays settled.                                               *)

LEMMA SettledStep ==
  ASSUME TypeOK, RunsMirrorNodes, ApprovalsMirrorNodes, [Next]_vars, NEW n \in Task
  PROVE  /\ nodeStatus[n] \in Terminal => nodeStatus'[n] = nodeStatus[n]
         /\ nodeStatus[n] # "absent" => /\ nodeStatus'[n] # "absent"
                                        /\ deps'[n] = deps[n]
         /\ \/ UNCHANGED deps /\ Nodes' = Nodes
            \/ \E S \in SUBSET Task : \E plan \in [S -> SUBSET Task] :
                 InstallPlan(plan) \/ AppendPlanNodes(plan)
  <1> DEFINE Settled == /\ nodeStatus[n] \in Terminal => nodeStatus'[n] = nodeStatus[n]
                        /\ nodeStatus[n] # "absent" => /\ nodeStatus'[n] # "absent"
                                                       /\ deps'[n] = deps[n]
             Same == UNCHANGED deps /\ Nodes' = Nodes
  <1> USE MissionAssumption DEF MissionAssumption, TypeOK, Terminal, Nodes, nodeLinks
  <1>1. ASSUME UNCHANGED <<nodeStatus, deps>>
        PROVE  Settled /\ Same
    BY <1>1
  <1>2. ASSUME NEW S \in SUBSET Task, NEW plan \in [S -> SUBSET Task],
               Enqueue(plan), S \cap Nodes = {}
        PROVE  Settled
    BY <1>2 DEF Enqueue
  <1>3. ASSUME NEW m \in Task, NEW r \in Run, StartNode(m, r)
        PROVE  Settled /\ Same
    BY <1>3 DEF StartNode
  <1>4. ASSUME NEW m \in Task, NEW r \in Run,
               NEW From \in SUBSET {"running", "submitted"},
               NEW s \in NodeStatus, Advance(m, r, From, s)
        PROVE  Settled /\ Same
    BY <1>4 DEF Advance, NodeStatus
  <1>5. ASSUME NEW m \in Task, CancelNode(m)
        PROVE  Settled /\ Same
    <2> DEFINE Hit == {k \in Affected(m) : nodeStatus[k] \notin Terminal}
    <2>1. /\ nodeStatus' = [k \in Task |->
                              IF k \in Hit THEN "cancelled" ELSE nodeStatus[k]]
          /\ UNCHANGED deps
      BY <1>5 DEF CancelNode
    <2>2. \A k \in Hit : nodeStatus[k] \notin Terminal \cup {"absent"}
      BY DEF Affected
    <2> HIDE DEF Hit
    <2>3. QED
      BY <2>1, <2>2
  <1>6. ASSUME NEW a \in Approval, NEW d, NEW s \in {"running", "failed"},
               Resolve(a, d, s)
        PROVE  Settled /\ Same
    <2>1. approvalNode[a] \in Task /\ nodeStatus[approvalNode[a]] = "waiting-approval"
      BY <1>6 DEF Resolve, Decidable, ApprovalsMirrorNodes
    <2>2. QED
      BY <1>6, <2>1 DEF Resolve
  <1>7. CASE CancelMission
    BY <1>7 DEF CancelMission
  <1>8. QED
    BY <1>1, <1>2, <1>3, <1>4, <1>5, <1>6, <1>7
    DEF Next, vars, CreateMission, InstallPlan, AppendPlanNodes, SubmitNode,
        AcceptNode, FailNode, RequestApproval, AllowApproval, DenyApproval,
        CompleteMission, NodeStatus

-----------------------------------------------------------------------------
(* The plan in force is always a valid plan.                               *)

PlanSound == ValidPlan([n \in Nodes |-> deps[n]])

LEMMA PlanStep ==
  TypeOK /\ RunsMirrorNodes /\ ApprovalsMirrorNodes /\ PlanSound /\ [Next]_vars
    => PlanSound'
  <1> SUFFICES ASSUME TypeOK, RunsMirrorNodes, ApprovalsMirrorNodes, PlanSound,
                      [Next]_vars
               PROVE  PlanSound'
    OBVIOUS
  <1>1. CASE UNCHANGED deps /\ Nodes' = Nodes
    BY <1>1 DEF PlanSound
  <1>2. ASSUME NEW S \in SUBSET Task, NEW plan \in [S -> SUBSET Task],
               InstallPlan(plan)
        PROVE  PlanSound'
    <2>1. Nodes' = S /\ \A n \in S : deps'[n] = plan[n]
      BY <1>2 DEF InstallPlan, Enqueue, Nodes, TypeOK
    <2>2. [n \in Nodes' |-> deps'[n]] = plan
      BY <2>1
    <2>3. QED
      BY <1>2, <2>2 DEF PlanSound, InstallPlan
  <1>3. ASSUME NEW S \in SUBSET Task, NEW plan \in [S -> SUBSET Task],
               AppendPlanNodes(plan)
        PROVE  PlanSound'
    <2>1. Nodes' = Nodes \cup S
      BY <1>3 DEF AppendPlanNodes, Enqueue, Nodes, TypeOK
    <2>2. \A n \in Nodes \cup S :
            deps'[n] = IF n \in Nodes THEN deps[n] ELSE plan[n]
      BY <1>3 DEF AppendPlanNodes, Enqueue, Nodes, TypeOK
    <2>3. [n \in Nodes' |-> deps'[n]] = Extended(plan)
      BY <2>1, <2>2 DEF Extended
    <2>4. QED
      BY <1>3, <2>3 DEF PlanSound, AppendPlanNodes
  <1>4. CASE Task = {}
    BY <1>4 DEF PlanSound, ValidPlan, Nodes
  <1>5. QED
    BY <1>1, <1>2, <1>3, <1>4, SettledStep

LEMMA SoundPlanNeverStalls == TypeOK /\ PlanSound => NoSilentStall
  <1> SUFFICES ASSUME TypeOK, PlanSound,
                      NEW q \in Task, nodeStatus[q] = "queued",
                      \A n \in Task : nodeStatus[n] \notin Live \cup {"failed", "cancelled"}
               PROVE  \E n \in Task : nodeStatus[n] = "queued" /\ Ready(n)
    BY DEF NoSilentStall
  <1> DEFINE Q == {n \in Task : nodeStatus[n] = "queued"}
  <1>1. Q \in SUBSET Nodes /\ Q # {}
    BY DEF Nodes
  <1>2. PICK n \in Q : deps[n] \cap Q = {}
    BY <1>1 DEF PlanSound, ValidPlan
  <1>3. deps[n] \subseteq Nodes
    BY <1>1 DEF PlanSound, ValidPlan
  <1>4. \A d \in deps[n] : nodeStatus[d] = "accepted"
    BY <1>2, <1>3 DEF Nodes, TypeOK, NodeStatus, Live
  <1>5. QED
    BY <1>4 DEF Ready

-----------------------------------------------------------------------------
(* No node starts before its dependencies are accepted.                    *)

LEMMA RunChange ==
  ASSUME TypeOK, [Next]_vars, NEW n \in Task, nodeRun'[n] # nodeRun[n]
  PROVE  \E r \in Run : StartNode(n, r)
  <1> USE DEF TypeOK, nodeLinks
  <1>1. PICK m \in Task, r \in Run : StartNode(m, r)
    BY DEF Next, vars, CreateMission, InstallPlan, AppendPlanNodes, Enqueue,
           SubmitNode, AcceptNode, FailNode, Advance, CancelNode,
           RequestApproval, AllowApproval, DenyApproval, Resolve,
           CompleteMission, CancelMission
  <1>2. m = n
    BY <1>1 DEF StartNode
  <1>3. QED
    BY <1>1, <1>2

LEMMA DependenciesStep ==
  /\ TypeOK /\ RunsMirrorNodes /\ ApprovalsMirrorNodes /\ DependenciesFirst
  /\ [Next]_vars
  => DependenciesFirst'
  <1> SUFFICES ASSUME TypeOK, RunsMirrorNodes, ApprovalsMirrorNodes,
                      DependenciesFirst, [Next]_vars,
                      NEW n \in Task, nodeRun'[n] # NoRun,
                      NEW d \in deps'[n]
               PROVE  nodeStatus'[d] = "accepted"
    BY DEF DependenciesFirst
  <1>1. nodeStatus[n] # "absent" /\ \A c \in deps[n] : nodeStatus[c] = "accepted"
    <2>1. CASE nodeRun[n] # NoRun
      BY <2>1 DEF RunsMirrorNodes, DependenciesFirst
    <2>2. CASE nodeRun[n] = NoRun
      <3>1. PICK r \in Run : StartNode(n, r)
        BY <2>2, RunChange
      <3>2. QED
        BY <3>1 DEF StartNode, Ready
    <2>3. QED
      BY <2>1, <2>2
  <1>2. d \in deps[n] /\ d \in Task
    BY <1>1, SettledStep DEF TypeOK
  <1>3. nodeStatus[d] = "accepted"
    BY <1>1, <1>2
  <1>4. QED
    BY <1>2, <1>3, SettledStep DEF Terminal

-----------------------------------------------------------------------------
(* A closed mission is quiet.                                              *)

LEMMA ClosedStep ==
  /\ TypeOK /\ RunsMirrorNodes /\ ApprovalsMirrorNodes /\ ClosedMissionQuiet
  /\ [Next]_vars
  => ClosedMissionQuiet'
  <1> SUFFICES ASSUME TypeOK, RunsMirrorNodes, ApprovalsMirrorNodes,
                      ClosedMissionQuiet, [Next]_vars
               PROVE  ClosedMissionQuiet'
    OBVIOUS
  <1> USE DEF TypeOK, Nodes, nodeLinks, approvals
  <1>1. CASE UNCHANGED <<status, nodeStatus, runStatus, approvalStatus>>
    BY <1>1 DEF ClosedMissionQuiet
  <1>2. CASE status' \notin {"completed", "cancelled"}
    BY <1>2 DEF ClosedMissionQuiet
  <1>3. CASE CompleteMission
    <2>1. \A n \in Task : nodeStatus[n] \in {"absent", "accepted"}
      BY <1>3 DEF CompleteMission, AllWorkAccepted
    <2>2. \A r \in Run : runStatus[r] \notin Live
      BY <2>1, MissionAssumption DEF MissionAssumption, RunsMirrorNodes, Live
    <2>3. \A a \in Approval : approvalStatus[a] # "pending"
      BY <2>1 DEF ApprovalsMirrorNodes
    <2>4. QED
      BY <1>3, <2>1, <2>2, <2>3
      DEF CompleteMission, AllWorkAccepted, ClosedMissionQuiet, Terminal
  <1>4. CASE CancelMission
    <2>1. status' = "cancelled"
      BY <1>4 DEF CancelMission
    <2>2. \A n \in Task : nodeStatus'[n] \in Terminal \cup {"absent"}
      BY <1>4 DEF CancelMission, Terminal
    <2>3. \A r \in Run : runStatus'[r] \notin Live
      BY <1>4 DEF CancelMission, Live
    <2>4. \A a \in Approval : approvalStatus'[a] # "pending"
      BY <1>4 DEF CancelMission, CancelApprovals, ApprovalsMirrorNodes
    <2>5. QED
      BY ONLY <2>1, <2>2, <2>3, <2>4 DEF ClosedMissionQuiet, Nodes
  <1>5. ASSUME status \in {"completed", "cancelled"}, UNCHANGED status,
               ~ CompleteMission
        PROVE  UNCHANGED <<status, nodeStatus, runStatus, approvalStatus>>
    <2>1. /\ \A n \in Task : nodeStatus[n] \in Terminal \cup {"absent"}
          /\ \A a \in Approval : approvalStatus[a] # "pending"
      BY <1>5 DEF ClosedMissionQuiet
    <2>2. \A n \in Task :
            /\ ~ CancelNode(n)
            /\ \A r \in Run :
                 /\ ~ (StartNode(n, r) \/ SubmitNode(n, r) \/ AcceptNode(n, r)
                       \/ FailNode(n, r))
                 /\ \A a \in Approval : ~ RequestApproval(n, r, a)
      BY <2>1 DEF StartNode, SubmitNode, AcceptNode, FailNode, CancelNode,
                  RequestApproval, Advance, Terminal
    <2>3. \A a \in Approval : ~ (AllowApproval(a) \/ DenyApproval(a))
      BY <2>1 DEF AllowApproval, DenyApproval, Resolve, Decidable
    <2>4. \A S \in SUBSET Task : \A plan \in [S -> SUBSET Task] :
            ~ (InstallPlan(plan) \/ AppendPlanNodes(plan))
      BY <1>5 DEF InstallPlan, AppendPlanNodes
    <2>5. ~ CancelMission
      BY <1>5 DEF CancelMission
    <2>6. CreateMission \/ UNCHANGED vars
      <3>1. CASE Next
        BY ONLY <1>5, <2>2, <2>3, <2>4, <2>5, <3>1 DEF Next
      <3>2. QED
        BY <3>1
    <2>7. QED
      BY <2>6 DEF CreateMission, vars
  <1>6. status' # status => CompleteMission \/ CancelMission
                            \/ status' \notin {"completed", "cancelled"}
    BY DEF Next, vars, CreateMission, InstallPlan, AppendPlanNodes, StartNode,
           SubmitNode, AcceptNode, FailNode, Advance, CancelNode,
           RequestApproval, AllowApproval, DenyApproval, Resolve
  <1>7. QED
    BY <1>1, <1>2, <1>3, <1>4, <1>5, <1>6

-----------------------------------------------------------------------------
(* The effects emitted say what the runs went through.                     *)

LEMMA EffectsStep ==
  /\ TypeOK /\ RunsMirrorNodes /\ ApprovalsMirrorNodes /\ EffectsFollowRuns
  /\ [Next]_vars
  => EffectsFollowRuns'
  <1> SUFFICES ASSUME TypeOK, RunsMirrorNodes, ApprovalsMirrorNodes,
                      EffectsFollowRuns, [Next]_vars
               PROVE  EffectsFollowRuns'
    OBVIOUS
  <1> USE MissionAssumption
      DEF MissionAssumption, TypeOK, EffectsFollowRuns, Effect, nodeLinks, approvals
  <1>1. ASSUME UNCHANGED <<runStatus, runNode, approvals, effects>>
        PROVE  EffectsFollowRuns'
    BY <1>1
  <1>2. ASSUME NEW n \in Task, NEW r \in Run,
               runStatus[r] = "absent", StartNode(n, r)
        PROVE  EffectsFollowRuns'
    <2>1. \A a \in Approval :
            approvalStatus[a] = "allowed" => approvalRun[a] # r
      <3> SUFFICES ASSUME NEW a \in Approval, approvalStatus[a] = "allowed"
                   PROVE  approvalRun[a] # r
        OBVIOUS
      <3>1. PICK e \in effects : e = Effect("resume", approvalNode[a], approvalRun[a])
        OBVIOUS
      <3>2. e.run = approvalRun[a] /\ runStatus[e.run] # "absent"
        BY <3>1
      <3>3. QED
        BY <3>2, <1>2
    <2>2. QED
      BY <1>2, <2>1 DEF StartNode, EffectKind
  <1>3. ASSUME NEW n \in Task, NEW r \in Run, SubmitNode(n, r)
        PROVE  EffectsFollowRuns'
    BY <1>3 DEF SubmitNode, Advance, RunsMirrorNodes, Live
  <1>4. ASSUME NEW n \in Task, NEW r \in Run, AcceptNode(n, r) \/ FailNode(n, r)
        PROVE  EffectsFollowRuns'
    BY <1>4 DEF AcceptNode, FailNode, Advance, RunsMirrorNodes, Live
  <1>5. ASSUME NEW n \in Task, CancelNode(n)
        PROVE  EffectsFollowRuns'
    <2> DEFINE Hit == {m \in Affected(n) : nodeStatus[m] \notin Terminal}
    <2>1. /\ runStatus' = [r \in Run |->
                             IF r \in {nodeRun[m] : m \in Hit}
                             THEN "cancelled" ELSE runStatus[r]]
          /\ effects' = effects \cup StopOrders(Hit)
          /\ CancelApprovals(Hit)
          /\ UNCHANGED <<nodeRun, runNode>>
      BY <1>5 DEF CancelNode
    <2>2. Hit \subseteq Task /\ \A m \in Hit : nodeStatus[m] \notin Terminal
      BY DEF Affected, Nodes
    <2> HIDE DEF Hit
    <2>3. \A m \in Hit : nodeRun[m] # NoRun =>
            nodeRun[m] \in LiveRuns /\ runNode[nodeRun[m]] = m
      BY <2>2 DEF RunsMirrorNodes, LiveRuns, Live, Terminal, NodeStatus
    <2>4. \A e \in StopOrders(Hit) :
            /\ e.kind = "cancel" /\ e.run \in LiveRuns /\ e.node = runNode[e.run]
            /\ e.node \in Hit /\ e.run = nodeRun[e.node]
      BY <2>2, <2>3 DEF StopOrders, LiveRuns
    <2>5. \A r \in Run : r \in {nodeRun[m] : m \in Hit} =>
            /\ Effect("cancel", runNode[r], r) \in StopOrders(Hit)
            /\ runStatus[r] \in Live
      BY <2>3 DEF StopOrders, LiveRuns
    <2>6. QED
      <3>1. \A e \in effects' : runStatus'[e.run] # "absent" /\ runNode'[e.run] = e.node
        BY <2>1, <2>4 DEF LiveRuns, Live
      <3>2. ASSUME NEW r \in Run
            PROVE  /\ runStatus'[r] # "absent" => Effect("start", runNode'[r], r) \in effects'
                   /\ runStatus'[r] \in {"submitted", "accepted"} =>
                        Effect("verify", runNode'[r], r) \in effects'
        BY <2>1, <2>5 DEF Live
      <3>3. ASSUME NEW r \in Run
            PROVE  runStatus'[r] = "cancelled" <=>
                     Effect("cancel", runNode'[r], r) \in effects'
        <4>1. CASE r \in {nodeRun[m] : m \in Hit}
          BY <4>1, <2>1, <2>5
        <4>2. CASE r \notin {nodeRun[m] : m \in Hit}
          <5>1. Effect("cancel", runNode[r], r) \notin StopOrders(Hit)
            <6>1. \A e \in StopOrders(Hit) : e.run # r
              BY <4>2, <2>4
            <6>2. QED
              BY <6>1
          <5>2. QED
            BY <4>2, <5>1, <2>1
        <4>3. QED
          BY <4>1, <4>2
      <3>4. \A a \in Approval : approvalStatus'[a] = "allowed" =>
              Effect("resume", approvalNode'[a], approvalRun'[a]) \in effects'
        BY <2>1 DEF CancelApprovals
      <3>5. QED
        BY ONLY <3>1, <3>2, <3>3, <3>4 DEF EffectsFollowRuns
  <1>6. ASSUME NEW n \in Task, NEW r \in Run, NEW a \in Approval,
               RequestApproval(n, r, a)
        PROVE  EffectsFollowRuns'
    BY <1>6 DEF RequestApproval, Advance, RunsMirrorNodes, Live
  <1>7. ASSUME NEW a \in Approval, AllowApproval(a) \/ DenyApproval(a)
        PROVE  EffectsFollowRuns'
    <2>1. /\ approvalNode[a] \in Task /\ approvalRun[a] \in Run
          /\ runNode[approvalRun[a]] = approvalNode[a]
          /\ runStatus[approvalRun[a]] = "waiting-approval"
          /\ approvalStatus[a] = "pending"
      BY <1>7 DEF AllowApproval, DenyApproval, Resolve, Decidable,
                  ApprovalsMirrorNodes, RunsMirrorNodes, Live
    <2>2. QED
      BY <1>7, <2>1 DEF AllowApproval, DenyApproval, Resolve
  <1>8. CASE CancelMission
    <2> DEFINE Stop == {Effect("cancel", runNode[r], r) : r \in LiveRuns}
    <2>1. /\ runStatus' = [r \in Run |->
                             IF runStatus[r] \in {"absent", "accepted", "failed"}
                             THEN runStatus[r] ELSE "cancelled"]
          /\ effects' = effects \cup Stop
          /\ CancelApprovals(Task)
          /\ UNCHANGED runNode
      BY <1>8 DEF CancelMission
    <2>2. \A e \in Stop : /\ e.kind = "cancel" /\ e.run \in LiveRuns
                          /\ e.node = runNode[e.run]
      OBVIOUS
    <2>3. \A r \in LiveRuns : Effect("cancel", runNode[r], r) \in Stop
      OBVIOUS
    <2> HIDE DEF Stop
    <2>4. QED
      <3>1. \A e \in effects' : runStatus'[e.run] # "absent" /\ runNode'[e.run] = e.node
        BY <2>1, <2>2 DEF LiveRuns, Live
      <3>2. \A r \in Run :
              /\ runStatus'[r] # "absent" => Effect("start", runNode'[r], r) \in effects'
              /\ runStatus'[r] \in {"submitted", "accepted"} =>
                   Effect("verify", runNode'[r], r) \in effects'
        BY <2>1
      <3>3. \A r \in Run : runStatus'[r] = "cancelled" <=>
              Effect("cancel", runNode'[r], r) \in effects'
        BY <2>1, <2>2, <2>3 DEF LiveRuns, Live, RunStatus, NodeStatus
      <3>4. \A a \in Approval : approvalStatus'[a] = "allowed" =>
              Effect("resume", approvalNode'[a], approvalRun'[a]) \in effects'
        BY <2>1 DEF CancelApprovals
      <3>5. QED
        BY ONLY <3>1, <3>2, <3>3, <3>4 DEF EffectsFollowRuns
  <1>9. QED
    <2>1. \A S \in SUBSET Task : \A plan \in [S -> SUBSET Task] :
            InstallPlan(plan) \/ AppendPlanNodes(plan)
              => UNCHANGED <<runStatus, runNode, approvals, effects>>
      BY DEF InstallPlan, AppendPlanNodes, Enqueue
    <2>2. CreateMission \/ CompleteMission \/ UNCHANGED vars
            => UNCHANGED <<runStatus, runNode, approvals, effects>>
      BY DEF CreateMission, CompleteMission, vars
    <2>3. QED
      BY ONLY <1>1, <1>2, <1>3, <1>4, <1>5, <1>6, <1>7, <1>8, <2>1, <2>2,
              [Next]_vars DEF Next

-----------------------------------------------------------------------------
(* The inductive invariant.  The four invariants in the middle need each   *)
(* other and TypeOK; PlanSound is what NoSilentStall rests on.             *)

IInv ==
  /\ TypeOK
  /\ RunsMirrorNodes
  /\ ApprovalsMirrorNodes
  /\ PlanSound
  /\ DependenciesFirst
  /\ ClosedMissionQuiet
  /\ EffectsFollowRuns

LEMMA InitIInv == Init => IInv
  <1> SUFFICES ASSUME Init PROVE IInv
    OBVIOUS
  <1> USE MissionAssumption DEF Init, MissionAssumption
  <1>1. TypeOK
    BY DEF TypeOK, MissionStatus
  <1>2. RunsMirrorNodes /\ ApprovalsMirrorNodes
    BY DEF RunsMirrorNodes, ApprovalsMirrorNodes, Live
  <1>3. PlanSound
    BY DEF PlanSound, ValidPlan, Nodes
  <1>4. DependenciesFirst /\ ClosedMissionQuiet
    BY DEF DependenciesFirst, ClosedMissionQuiet
  <1>5. EffectsFollowRuns
    BY DEF EffectsFollowRuns, Effect
  <1>6. QED
    BY <1>1, <1>2, <1>3, <1>4, <1>5 DEF IInv

LEMMA NextIInv == IInv /\ [Next]_vars => IInv'
  BY TypeStep, RunsStep, ApprovalsStep, PlanStep, DependenciesStep, ClosedStep,
     EffectsStep
  DEF IInv

(* Every reachable state of the mission satisfies the inductive invariant. *)
THEOREM Invariance == Spec => []IInv
  <1>1. Init => IInv
    BY InitIInv
  <1>2. IInv /\ [Next]_vars => IInv'
    BY NextIInv
  <1>3. QED
    BY <1>1, <1>2, PTL DEF Spec

(* Every event sequence the kernel can produce leaves a well-typed state.  *)
THEOREM TypeCorrect == Spec => []TypeOK
  <1>1. IInv => TypeOK
    BY DEF IInv
  <1>2. QED
    BY <1>1, Invariance, PTL

(* A node and its current run always agree, though written separately.     *)
THEOREM RunsAgree == Spec => []RunsMirrorNodes
  <1>1. IInv => RunsMirrorNodes
    BY DEF IInv
  <1>2. QED
    BY <1>1, Invariance, PTL

(* Resolving an approval without looking at the node or run is sound: a    *)
(* pending approval is the current one of a node that waits for it.        *)
THEOREM ApprovalsAgree == Spec => []ApprovalsMirrorNodes
  <1>1. IInv => ApprovalsMirrorNodes
    BY DEF IInv
  <1>2. QED
    BY <1>1, Invariance, PTL

(* No node is started before all it depends on is accepted.                *)
THEOREM Ordered == Spec => []DependenciesFirst
  <1>1. IInv => DependenciesFirst
    BY DEF IInv
  <1>2. QED
    BY <1>1, Invariance, PTL

(* Installed and appended plans never leave a mission waiting on itself.   *)
THEOREM NeverStalls == Spec => []NoSilentStall
  <1>1. IInv => NoSilentStall
    BY SoundPlanNeverStalls DEF IInv
  <1>2. QED
    BY <1>1, Invariance, PTL

(* A closed mission has no node, run or approval left open.                *)
THEOREM Quiet == Spec => []ClosedMissionQuiet
  <1>1. IInv => ClosedMissionQuiet
    BY DEF IInv
  <1>2. QED
    BY <1>1, Invariance, PTL

(* The outbox is told exactly what the runs went through.                  *)
THEOREM EffectsComplete == Spec => []EffectsFollowRuns
  <1>1. IInv => EffectsFollowRuns
    BY DEF IInv
  <1>2. QED
    BY <1>1, Invariance, PTL

(* What a node has come to is never revised.                               *)
THEOREM Finality == Spec => OutcomeIsFinal
  <1> DEFINE Kept == \A n \in Task :
                       nodeStatus[n] \in Terminal => nodeStatus'[n] = nodeStatus[n]
  <1>1. IInv /\ [Next]_vars => [Kept]_vars
    BY SettledStep DEF IInv
  <1>2. QED
    BY <1>1, Invariance, PTL DEF Spec, OutcomeIsFinal

-----------------------------------------------------------------------------
(* Mission implements DagExecution.                                        *)

LEMMA DagInit == Init => Dag!Init
  BY DEF Init, Dag!Init, StageOf

LEMMA DagGrow ==
  ASSUME TypeOK, ClosedMissionQuiet, PlanSound', NEW S \in SUBSET Task,
         NEW plan \in [S -> SUBSET Task], InstallPlan(plan) \/ AppendPlanNodes(plan)
  PROVE  Dag!Next
  <1>1. /\ Enqueue(plan) /\ S \cap Nodes = {}
        /\ status # "completed" /\ status' # "completed"
    BY DEF InstallPlan, AppendPlanNodes, ClosedMissionQuiet
  <1>2. Dag!Added = Nodes
    BY DEF Dag!Added, Nodes, StageOf, Live, TypeOK, NodeStatus
  <1>3. Nodes' = Nodes \cup S
    BY <1>1 DEF Enqueue, Nodes, TypeOK
  <1>4. plan \in [S -> SUBSET (Nodes \cup S)]
    <2>1. \A n \in S : deps'[n] = plan[n]
      BY <1>1 DEF Enqueue
    <2>2. \A n \in S : plan[n] \subseteq Nodes \cup S
      BY <1>3, <2>1 DEF PlanSound, ValidPlan
    <2>3. QED
      BY <2>2
  <1>5. \A G \in SUBSET (Nodes \cup S) :
          G # {} => \E n \in G : deps'[n] \cap G = {}
    BY <1>3 DEF PlanSound, ValidPlan
  <1>6. [n \in Task |-> StageOf(nodeStatus'[n])] =
          [n \in Task |-> IF n \in S THEN "todo"
                         ELSE [m \in Task |-> StageOf(nodeStatus[m])][n]]
    BY <1>1 DEF Enqueue, StageOf
  <1>7. deps' = [n \in Task |-> IF n \in S THEN plan[n] ELSE deps[n]]
    BY <1>1 DEF Enqueue
  <1>8. S \in SUBSET (Task \ Nodes)
    BY <1>1
  <1>9. UNCHANGED (status = "completed")
    BY <1>1
  <1>10. Dag!Grow
    <2>1. /\ S \in SUBSET (Task \ Dag!Added)
          /\ plan \in [S -> SUBSET (Dag!Added \cup S)]
          /\ \A G \in SUBSET (Dag!Added \cup S) :
               G # {} => \E n \in G : deps'[n] \cap G = {}
      BY <1>2, <1>4, <1>5, <1>8
    <2>2. /\ [n \in Task |-> StageOf(nodeStatus[n])]' =
               [n \in Task |-> IF n \in S THEN "todo"
                              ELSE [m \in Task |-> StageOf(nodeStatus[m])][n]]
          /\ deps' = [n \in Task |-> IF n \in S THEN plan[n] ELSE deps[n]]
      BY <1>6, <1>7
    <2> USE <2>1 DEF Dag!Grow
    <2> WITNESS S \in SUBSET (Task \ Dag!Added)
    <2> WITNESS plan \in [S -> SUBSET (Dag!Added \cup S)]
    <2>3. QED
      BY ONLY <2>1, <2>2, <1>9, Zenon
  <1>11. QED
    BY <1>1, <1>10 DEF Dag!Next

LEMMA DagAbandon ==
  ASSUME TypeOK, NEW S \in SUBSET Task,
         \A n \in S : nodeStatus[n] \in Live \cup {"queued"},
         \A n \in Task : IF n \in S THEN nodeStatus'[n] \in {"failed", "cancelled"}
                                    ELSE nodeStatus'[n] = nodeStatus[n],
         UNCHANGED deps, status # "completed", status' # "completed"
  PROVE  Dag!Next
  <1>1. S \in SUBSET {n \in Task : StageOf(nodeStatus[n]) \in {"todo", "doing"}}
    BY DEF StageOf, Live
  <1>2. [n \in Task |-> StageOf(nodeStatus'[n])] =
          [n \in Task |-> IF n \in S THEN "dead"
                         ELSE [m \in Task |-> StageOf(nodeStatus[m])][n]]
    BY DEF StageOf, Live
  <1>3. QED
    BY <1>1, <1>2 DEF Dag!Next, Dag!Abandon

LEMMA DagStep ==
  IInv /\ IInv' /\ [Next]_vars => [Dag!Next]_(Dag!dagVars)
  <1> SUFFICES ASSUME IInv, IInv', [Next]_vars
               PROVE  Dag!Next \/ UNCHANGED Dag!dagVars
    OBVIOUS
  <1> USE DEF nodeLinks, approvals
  <1>0. TypeOK /\ RunsMirrorNodes /\ ApprovalsMirrorNodes /\ DependenciesFirst
          /\ ClosedMissionQuiet /\ PlanSound'
    BY DEF IInv
  <1>1. ASSUME UNCHANGED deps, status' = status,
               \A n \in Task : StageOf(nodeStatus'[n]) = StageOf(nodeStatus[n])
        PROVE  UNCHANGED Dag!dagVars
    BY <1>1 DEF Dag!dagVars
  <1>2. ASSUME NEW S \in SUBSET Task, NEW plan \in [S -> SUBSET Task],
               InstallPlan(plan) \/ AppendPlanNodes(plan)
        PROVE  Dag!Next
    BY <1>0, <1>2, DagGrow
  <1>3. ASSUME NEW n \in Task, nodeStatus[n] \in Live \cup {"queued"}
        PROVE  status # "completed"
    BY <1>0, <1>3 DEF ClosedMissionQuiet, Nodes, Live, Terminal
  <1>4. ASSUME NEW n \in Task, NEW r \in Run, StartNode(n, r)
        PROVE  Dag!Next
    <2>1. /\ status # "completed" /\ UNCHANGED <<status, deps>>
          /\ \A d \in deps[n] : d \in Task /\ nodeStatus[d] = "accepted"
          /\ nodeStatus[n] = "queued"
          /\ nodeStatus' = [nodeStatus EXCEPT ![n] = "running"]
      BY <1>0, <1>3, <1>4 DEF StartNode, Ready, TypeOK
    <2>2. Dag!Begin(n)
      BY <1>0, <2>1 DEF Dag!Begin, StageOf, Live, TypeOK
    <2>3. QED
      BY <2>1, <2>2 DEF Dag!Next
  <1>5. ASSUME NEW n \in Task, NEW r \in Run, SubmitNode(n, r)
        PROVE  UNCHANGED Dag!dagVars
    <2>1. \A m \in Task : StageOf(nodeStatus'[m]) = StageOf(nodeStatus[m])
      BY <1>0, <1>5 DEF SubmitNode, Advance, StageOf, Live, TypeOK
    <2>2. QED
      BY <1>1, <1>5, <2>1 DEF SubmitNode, Advance
  <1>6. ASSUME NEW n \in Task, NEW r \in Run, AcceptNode(n, r)
        PROVE  Dag!Next
    <2>1. /\ status # "completed" /\ UNCHANGED <<status, deps>>
          /\ nodeStatus[n] = "submitted"
          /\ nodeStatus' = [nodeStatus EXCEPT ![n] = "accepted"]
      BY <1>0, <1>3, <1>6 DEF AcceptNode, Advance, Live
    <2>2. Dag!Finish(n)
      BY <1>0, <2>1 DEF Dag!Finish, StageOf, Live, TypeOK
    <2>3. QED
      BY <2>1, <2>2 DEF Dag!Next
  <1>7. ASSUME NEW n \in Task, NEW r \in Run, FailNode(n, r)
        PROVE  Dag!Next
    <2>1. /\ status # "completed" /\ UNCHANGED <<status, deps>>
          /\ nodeStatus[n] \in Live
          /\ nodeStatus' = [nodeStatus EXCEPT ![n] = "failed"]
      BY <1>0, <1>3, <1>7 DEF FailNode, Advance, Live
    <2>2. \A m \in Task : IF m \in {n} THEN nodeStatus'[m] \in {"failed", "cancelled"}
                                       ELSE nodeStatus'[m] = nodeStatus[m]
      BY <1>0, <2>1 DEF TypeOK
    <2>3. QED
      BY <1>0, <2>1, <2>2, DagAbandon
  <1>8. ASSUME NEW n \in Task, CancelNode(n)
        PROVE  Dag!Next
    <2> DEFINE Hit == {m \in Affected(n) : nodeStatus[m] \notin Terminal}
    <2>1. /\ nodeStatus' = [m \in Task |->
                              IF m \in Hit THEN "cancelled" ELSE nodeStatus[m]]
          /\ UNCHANGED <<status, deps>>
          /\ nodeStatus[n] \in Live \cup {"queued"}
      BY <1>0, <1>8 DEF CancelNode, TypeOK, Nodes, NodeStatus, Live, Terminal
    <2>2. Hit \subseteq Task /\ \A m \in Hit : nodeStatus[m] \in Live \cup {"queued"}
      BY <1>0 DEF Affected, TypeOK, Nodes, NodeStatus, Live, Terminal
    <2> HIDE DEF Hit
    <2>3. \A m \in Task : IF m \in Hit THEN nodeStatus'[m] \in {"failed", "cancelled"}
                                       ELSE nodeStatus'[m] = nodeStatus[m]
      BY <2>1
    <2>4. status # "completed"
      BY <1>3, <2>1
    <2>5. QED
      BY <1>0, <2>1, <2>2, <2>3, <2>4, DagAbandon
  <1>9. ASSUME NEW n \in Task, NEW r \in Run, NEW a \in Approval,
               RequestApproval(n, r, a)
        PROVE  UNCHANGED Dag!dagVars
    <2>1. \A m \in Task : StageOf(nodeStatus'[m]) = StageOf(nodeStatus[m])
      BY <1>0, <1>9 DEF RequestApproval, Advance, StageOf, Live, TypeOK
    <2>2. QED
      BY <1>1, <1>9, <2>1 DEF RequestApproval, Advance
  <1>10. ASSUME NEW a \in Approval, AllowApproval(a) \/ DenyApproval(a)
         PROVE  Dag!Next \/ UNCHANGED Dag!dagVars
    <2> DEFINE n == approvalNode[a]
    <2>1. n \in Task /\ nodeStatus[n] = "waiting-approval"
      BY <1>0, <1>10 DEF AllowApproval, DenyApproval, Resolve, Decidable,
                         ApprovalsMirrorNodes
    <2>2. UNCHANGED <<status, deps>>
      BY <1>10 DEF AllowApproval, DenyApproval, Resolve
    <2>3. status # "completed"
      BY <1>3, <2>1 DEF Live
    <2>4. CASE AllowApproval(a)
      <3>1. \A m \in Task : StageOf(nodeStatus'[m]) = StageOf(nodeStatus[m])
        BY <1>0, <2>1, <2>4 DEF AllowApproval, Resolve, StageOf, Live, TypeOK
      <3>2. QED
        BY <1>1, <2>2, <3>1
    <2>5. CASE DenyApproval(a)
      <3>1. \A m \in Task : IF m \in {n} THEN nodeStatus'[m] \in {"failed", "cancelled"}
                                         ELSE nodeStatus'[m] = nodeStatus[m]
        BY <1>0, <2>1, <2>5 DEF DenyApproval, Resolve, TypeOK
      <3>2. QED
        BY <1>0, <2>1, <2>2, <2>3, <3>1, DagAbandon DEF Live
    <2>6. QED
      BY <1>10, <2>4, <2>5
  <1>11. CASE CompleteMission
    <2>1. /\ UNCHANGED <<nodeStatus, deps>> /\ status' = "completed"
          /\ Nodes # {} /\ \A n \in Nodes : nodeStatus[n] = "accepted"
      BY <1>11 DEF CompleteMission, AllWorkAccepted
    <2>2. CASE status = "completed"
      BY <1>1, <2>1, <2>2
    <2>3. CASE status # "completed"
      <3>1. Dag!Added = Nodes
        BY <1>0 DEF Dag!Added, Nodes, StageOf, Live, TypeOK, NodeStatus
      <3>2. \A n \in Nodes : StageOf(nodeStatus[n]) = "done"
        BY <2>1 DEF StageOf, Live
      <3>3. Dag!Complete
        BY <2>1, <3>1, <3>2 DEF Dag!Complete, Nodes
      <3>4. QED
        BY <2>3, <3>3 DEF Dag!Next
    <2>4. QED
      BY <2>2, <2>3
  <1>12. CASE CancelMission
    <2> DEFINE Hit == {n \in Task : nodeStatus[n] \in Live \cup {"queued"}}
    <2>1. /\ status # "completed" /\ status' # "completed" /\ UNCHANGED deps
      BY <1>12 DEF CancelMission
    <2>2. \A m \in Task : IF m \in Hit THEN nodeStatus'[m] \in {"failed", "cancelled"}
                                       ELSE nodeStatus'[m] = nodeStatus[m]
      BY <1>0, <1>12 DEF CancelMission, Live, TypeOK, NodeStatus
    <2>3. QED
      BY <1>0, <2>1, <2>2, DagAbandon
  <1>13. CASE CreateMission \/ UNCHANGED vars
    BY <1>1, <1>13 DEF CreateMission, vars
  <1> HIDE DEF nodeLinks, approvals
  <1>14. CASE Next
    BY ONLY <1>2, <1>4, <1>5, <1>6, <1>7, <1>8, <1>9, <1>10, <1>11, <1>12, <1>13,
            <1>14 DEF Next
  <1>15. QED
    BY <1>13, <1>14

(* Whoever watches the work graph of a mission sees DagExecution.          *)
THEOREM Refinement == Spec => ImplementsDag
  <1>1. Init => Dag!Init
    BY DagInit
  <1>2. IInv /\ IInv' /\ [Next]_vars => [Dag!Next]_(Dag!dagVars)
    BY DagStep
  <1>3. QED
    BY <1>1, <1>2, Invariance, PTL DEF Spec, ImplementsDag, Dag!DagSpec
=============================================================================
