------------------------------ MODULE TeamPlan ------------------------------
(***************************************************************************)
(* The plan of a team of agents and the waves it is worked off in:         *)
(* harness-application builds the plan from the features an objective      *)
(* names (prepare_adaptive_agent_team and the smaller plans), staffs it    *)
(* from the catalogue of harness-agent, and prepares one wave after the    *)
(* other of the nodes that are ready; results of a wave that contradict    *)
(* each other add a node that merges them.                                 *)
(*                                                                         *)
(* A node is named for the feature or the role it stands for.  The         *)
(* objective is the set of features whose keywords it contains.  A wave is *)
(* prepared in one call, so preparing it is one step; what a run does      *)
(* inside the wave, approvals, cancellation and kills are in TaskDrive,    *)
(* the escrows themselves in AgentBudget: here a mode has room for a       *)
(* number of runs at once.                                                 *)
(***************************************************************************)
EXTENDS Integers, SequencesExt

CONSTANTS
  Feature,     \* features objectives name, of those in Features
  MaxWorker,   \* coders an adaptive or a role plan is asked for at most
  Mode,        \* limits: [parallel |-> , cost |-> , room |-> (runs at once)]
  MaxFail,     \* bound on runs that fail
  MaxMerge,    \* bound on waves whose results contradict each other
  MaxRaise     \* bound on nodes the user puts first

VARIABLES
  mode,      \* the limits in force
  deps,      \* deps[n]: the nodes n depends on; its domain is the plan
  agent,     \* agent[n]: the agent n is staffed with
  status,    \* status[n]: the status of a node
  wave,      \* the nodes under way, each with a run, a slot and an escrow
  refused,   \* the nodes a wave could not begin; the wave is dropped
  raised     \* nodes whose priority the user has raised

vars == <<mode, deps, agent, status, wave, refused, raised>>
plan == <<deps, agent>>

Audits == {"security", "performance", "quality", "accessibility", "sre"}

Features ==
  Audits \cup {"product", "ux", "design", "designSystem", "frontend", "backend",
               "api", "database", "platform", "documentation", "localization",
               "analytics", "release"}

Coders == <<"coder0", "coder1", "coder2", "coder3">>
Merges == <<"merge0", "merge1", "merge2">>
Researchers == <<"research0", "research1", "research2", "research3",
                 "research4", "research5", "research6", "research7">>

(* All names, ordered as the identifiers of the nodes are.                 *)
Order ==
  <<"accessibility", "analytics", "api", "architect", "backend">> \o Coders \o
  <<"database", "designSystem", "documentation", "explorer", "frontend",
    "localization">> \o Merges \o
  <<"performance", "planner", "platform", "product", "design", "quality",
    "release", "requirements">> \o Researchers \o
  <<"reviewer", "security", "sre", "tester", "ux">>

Nodes == DOMAIN deps
Having(s) == {n \in Nodes : status[n] = s}
Ready(n) == status[n] = "queued" /\ \A d \in deps[n] : status[d] = "accepted"

-----------------------------------------------------------------------------
(* Plans                                                                   *)

(* What an objective asks for, beyond what it names.                       *)
Classify(named) ==
  IF "fullStack" \in named THEN Features
  ELSE named
       \cup (IF "frontend" \in named THEN {"ux", "design", "accessibility"} ELSE {})
       \cup (IF "backend" \in named THEN {"api"} ELSE {})

FirstOf(s, k) == Range(SubSeq(s, 1, k))

(* The nodes that build: of the features chosen, or coders if there is      *)
(* neither a front end nor a back end.                                     *)
Builders(p, k) ==
  (p \cap {"designSystem", "frontend", "backend"})
  \cup (IF {"frontend", "backend"} \cap p = {} THEN FirstOf(Coders, k) ELSE {})

(* Faulty: what adapts to other languages is not waited for.               *)
ImplementationUnadapted(p, k) == Builders(p, k) \cup (p \cap {"platform"})

Implementation(p, k) == Builders(p, k) \cup (p \cap {"localization", "platform"})

(* What node n of an adaptive plan depends on, where the features p are     *)
(* chosen and k coders are asked for.                                      *)
Needs(p, k, n) ==
  CASE n \in {"requirements", "explorer"} -> {}
    [] n = "product"       -> {"requirements"}
    [] n = "ux"            -> {"requirements", "explorer"}
    [] n = "design"        -> {"requirements"} \cup (p \cap {"product", "ux"})
    [] n = "architect"     -> {"requirements", "explorer"} \cup (p \cap {"product"})
    [] n = "api"           -> {"architect"}
    [] n = "database"      -> {"architect"} \cup (p \cap {"api"})
    [] n = "analytics"     -> {"requirements"} \cup (p \cap {"product", "api"})
    [] n = "planner"       -> {"architect"} \cup (p \cap {"api", "database", "analytics"})
    [] n = "designSystem"  -> {"planner"} \cup (p \cap {"design"})
    [] n = "frontend"      -> {"planner"} \cup (p \cap {"design", "designSystem"})
    [] n = "backend"       -> {"planner"} \cup (p \cap {"api", "database"})
    [] n \in Range(Coders) -> {"planner"}
    [] n = "localization"  -> IF "frontend" \in p THEN {"frontend"} ELSE Builders(p, k)
    [] n = "platform"      -> Builders(p, k) \cup (p \cap {"localization"})
    [] n \in Audits \cup {"reviewer"} -> Implementation(p, k)
    [] n = "tester"        -> {"reviewer"} \cup (p \cap Audits)
    [] n = "documentation" -> {"tester"}
    [] n = "release"       -> {"tester"} \cup (p \cap {"documentation"})

AdaptivePlan(named, k) ==
  LET p == Classify(named)
  IN  [n \in p \cup Builders(p, k)
             \cup {"requirements", "explorer", "architect", "planner", "reviewer", "tester"}
         |-> Needs(p, k, n)]

(* The plan of /team workflow.                                             *)
RolePlan(k) ==
  [n \in FirstOf(Coders, k) \cup {"planner", "reviewer", "tester"} |->
     CASE n = "planner"  -> {}
       [] n = "reviewer" -> FirstOf(Coders, k)
       [] n = "tester"   -> {"reviewer"}
       [] OTHER          -> {"planner"}]

(* The plan of /team with a number of agents, all of which go at once.     *)
ResearchPlan(k) == [n \in FirstOf(Researchers, k) |-> {}]

(* The plan of /review.                                                    *)
ReviewPlan == [n \in {"reviewer"} |-> {}]

Plans ==
  {AdaptivePlan(named, k) : named \in SUBSET Feature, k \in 1..MaxWorker}
  \cup {RolePlan(k) : k \in 1..MaxWorker}
  \cup {ResearchPlan(k) : k \in 2..8}
  \cup {ReviewPlan}

-----------------------------------------------------------------------------
(* The catalogue, and who is staffed for what.                             *)

Roles == (Features \cup {"requirements", "explorer", "architect", "planner",
          "reviewer", "tester"}) \cup {"coder", "merge", "researcher"}

(* Runs an agent can have at once, and what a run of it costs.             *)
Places(a) ==
  CASE a \in {"explorer", "researcher"}          -> 8
    [] a \in {"frontend", "backend", "coder"}    -> 4
    [] a \in {"release", "merge"}                -> 1
    [] OTHER                                     -> 2

Cost(a) ==
  CASE a = "explorer" -> 1
    [] a \in {"requirements", "documentation"} -> 2
    [] a \in {"planner", "reviewer", "tester", "release", "product", "ux",
              "accessibility", "localization"} -> 3
    [] a \in {"coder", "merge", "frontend", "backend", "database", "platform",
              "sre"} -> 5
    [] OTHER -> 4

Role(n) ==
  CASE n \in Range(Coders)      -> "coder"
    [] n \in Range(Merges)      -> "merge"
    [] n \in Range(Researchers) -> "researcher"
    [] OTHER                    -> n

(* Who is able to do a node: the merging agent can edit code too.          *)
Able(n) == IF Role(n) = "coder" THEN {"coder", "merge"} ELSE {Role(n)}

(* StaffingRouter: the agent with a free place whose role fits, that is     *)
(* cheap and has little to do yet.                                         *)
Score(n, a, load) == (IF a = Role(n) THEN 100 ELSE 0) - Cost(a) - 25 * load

Assign(staffed, n) ==
  LET Load(a) == Cardinality({m \in DOMAIN staffed : staffed[m] = a})
      Free == {a \in Able(n) : Load(a) < Places(a)}
      best == CHOOSE a \in Free :
                \A b \in Free : Score(n, a, Load(a)) >= Score(n, b, Load(b))
  IN  [m \in DOMAIN staffed \cup {n} |-> IF m = n THEN best ELSE staffed[m]]

InOrder(S) == SelectSeq(Order, LAMBDA n : n \in S)

Staffing(S) == FoldLeft(Assign, [m \in {} |-> ""], InOrder(S))

-----------------------------------------------------------------------------
(* Waves                                                                   *)

Research == Nodes \cap Range(Researchers) # {}

(* Faulty: what costs exactly the rest of the batch is passed over.        *)
TakenBelow(batch, n) ==
  IF /\ Cardinality(batch.nodes) < batch.limit
     /\ batch.cost + Cost(agent[n]) < mode.cost
  THEN [batch EXCEPT !.nodes = @ \cup {n}, !.cost = @ + Cost(agent[n])]
  ELSE batch

(* The scheduler goes through the ready nodes, those put first at the head, *)
(* and passes over what exceeds a limit.                                   *)
Taken(batch, n) ==
  IF /\ Cardinality(batch.nodes) < batch.limit
     /\ batch.cost + Cost(agent[n]) <= mode.cost
  THEN [batch EXCEPT !.nodes = @ \cup {n}, !.cost = @ + Cost(agent[n])]
  ELSE batch

Schedule ==
  LET ready == {n \in Nodes : Ready(n)}
      limit == IF Research THEN Cardinality(Nodes) ELSE mode.parallel
      empty == [nodes |-> {}, cost |-> 0, limit |-> limit]
  IN  FoldLeft(Taken, empty, InOrder(ready \cap raised) \o InOrder(ready \ raised)).nodes

(* A run begins if the budget has room for it and its agent a free place;   *)
(* the first that cannot begin ends the call, and leaves those before it.  *)
Begin(begun, n) ==
  IF /\ begun.open
     /\ Cardinality(begun.nodes) < mode.room
     /\ Cardinality({m \in begun.nodes : agent[m] = agent[n]}) < Places(agent[n])
  THEN [begun EXCEPT !.nodes = @ \cup {n}]
  ELSE [begun EXCEPT !.open = FALSE]

Begun(S) ==
  FoldLeft(Begin, [nodes |-> {}, open |-> TRUE],
           InOrder(S \cap raised) \o InOrder(S \ raised)).nodes

Idle == wave = {} /\ refused = {}

(* Faulty: a node is ready as soon as one node it depends on is done.       *)
PrepareWaveHasty ==
  /\ Idle
  /\ LET S == {n \in Nodes : /\ status[n] = "queued"
                             /\ deps[n] = {} \/ \E d \in deps[n] : status[d] = "accepted"}
     IN  /\ S # {}
         /\ wave' = S
         /\ status' = [n \in Nodes |-> IF n \in S THEN "running" ELSE status[n]]
  /\ UNCHANGED <<mode, plan, refused, raised>>

PrepareWave ==
  /\ Idle
  /\ Schedule # {}
  /\ wave' = Begun(Schedule)
  /\ refused' = Schedule \ wave'
  /\ status' = [n \in Nodes |-> IF n \in wave' THEN "running" ELSE status[n]]
  /\ UNCHANGED <<mode, plan, raised>>

(* Two runs contradict each other if they changed the same file.           *)
MayConflict(Won) == Cardinality(Won) > 1

(* The wave is over, and what it did is submitted and verified.  If results *)
(* contradict each other a merge of all of them joins the plan.            *)
TeamReturns ==
  /\ wave # {}
  /\ refused = {}
  /\ wave' = {}
  /\ \E Lost \in SUBSET wave :
       LET Won == wave \ Lost
           after == [n \in Nodes |-> IF n \in Lost THEN "failed"
                                     ELSE IF n \in Won THEN "accepted" ELSE status[n]]
           merges == Nodes \cap Range(Merges)
           merge == Merges[Cardinality(merges) + 1]
       IN  /\ Cardinality(Lost) + Cardinality(Having("failed")) <= MaxFail
           /\ \/ /\ status' = after
                 /\ UNCHANGED plan
              \/ /\ MayConflict(Won)
                 /\ Cardinality(merges) < MaxMerge
                 /\ status' = [n \in Nodes \cup {merge} |->
                                 IF n = merge THEN "queued" ELSE after[n]]
                 /\ deps' = [n \in Nodes \cup {merge} |->
                               IF n = merge THEN Won ELSE deps[n]]
                 /\ agent' = [n \in Nodes \cup {merge} |->
                                IF n = merge THEN "merge" ELSE agent[n]]
  /\ UNCHANGED <<mode, refused, raised>>

(* /queue priority, while the team is under way: between two waves nobody   *)
(* else has the application.                                               *)
RaisePriority(n) ==
  /\ wave # {}
  /\ status[n] = "queued"
  /\ Cardinality(raised) < MaxRaise
  /\ raised' = raised \cup {n}
  /\ UNCHANGED <<mode, plan, status, wave, refused>>

(* Faulty: more runs side by side than the budget has room for.            *)
ResolveUnbounded(m) == m

(* The user's settings are brought in line: no more runs go side by side    *)
(* than there may be.                                                      *)
Resolve(m) == [m EXCEPT !.parallel = IF @ > m.room THEN m.room ELSE @]

Init ==
  /\ mode \in {Resolve(m) : m \in Mode}
  /\ deps \in Plans
  /\ agent = Staffing(DOMAIN deps)
  /\ status = [n \in DOMAIN deps |-> "queued"]
  /\ wave = {}
  /\ refused = {}
  /\ raised = {}

Next ==
  \/ PrepareWave
  \/ TeamReturns
  \/ \E n \in Nodes : RaisePriority(n)

Spec == Init /\ [][Next]_vars

-----------------------------------------------------------------------------
(* Properties                                                              *)

TypeOK ==
  /\ mode \in [parallel : Nat, cost : Nat, room : Nat]
  /\ \A n \in Nodes : deps[n] \subseteq Nodes
  /\ agent \in [Nodes -> Roles]
  /\ status \in [Nodes -> {"queued", "running", "accepted", "failed"}]
  /\ wave = Having("running")
  /\ refused \cup raised \subseteq Nodes

Chosen == Nodes \cap Features
Building ==
  Nodes \cap ({"designSystem", "frontend", "backend", "localization", "platform"}
              \cup Range(Coders))

(* The stages of a plan, each of which begins when those before are done.   *)
Stages ==
  <<{"requirements", "explorer", "product", "architect", "api", "database",
     "analytics"}, {"planner"}, Building, Audits \cup {"reviewer"}, {"tester"},
    {"documentation", "release"}>>

(* Nothing is planned before its scope is settled, built before it is       *)
(* planned, audited before all of it is built, tested before every audit    *)
(* is passed, or released before it is tested and documented, whatever      *)
(* features an objective combines, and in whatever order the waves go; the  *)
(* pipeline packs all that is built, and the front end follows its design.  *)
GatesHold ==
  LET begun == Nodes \ Having("queued")
      Done(S) == S \cap Nodes \subseteq Having("accepted")
  IN  /\ \A j \in DOMAIN Stages : begun \cap Stages[j] # {} =>
           \A i \in 1..(j - 1) : Done(Stages[i])
      /\ "release" \in begun => Done({"documentation"})
      /\ "platform" \in begun => Done(Building \ {"platform"})
      /\ {"frontend", "designSystem"} \cap begun # {} => Done({"design"})

(* A wave the scheduler has put together begins as a whole, unless it holds *)
(* two merges, of which only one can go at a time, or is a research team,   *)
(* which goes at once, larger than the budget has room for.                 *)
WavesBegin ==
  refused # {} =>
    \/ \E m \in refused : agent[m] = "merge" /\ \E o \in wave : agent[o] = "merge"
    \/ Research /\ mode.room < Cardinality(Nodes)

(* As long as no run has failed there is a wave to prepare until all nodes  *)
(* are accepted: neither the plan nor the limits of a mode strand it.       *)
NothingStrands ==
  Idle /\ Having("failed") = {} => Nodes = Having("accepted") \/ Schedule # {}
=============================================================================
