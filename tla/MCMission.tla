----------------------------- MODULE MCMission -----------------------------
(* On small instances: the aggregate of a mission, where identifiers are    *)
(* interchangeable, the plans of a team with the waves they are worked off  *)
(* in, and the browser its agents share with the user.  The parts do not    *)
(* share state; a behaviour moves the one that `part' names, so that their  *)
(* state spaces add up.                                                     *)
EXTENDS Mission, TLC

CONSTANTS Feature, MaxWorker, MaxFail, MaxMerge, MaxRaise,
          visit, revisit, click, Nothing, MaxNoise, MaxFault, MaxKill

VARIABLES part, mode, needs, agent, progress, wave, refused, raised,
          hands, origin, worker, op, rows, acted, loose, told, noise, faults, kills

Symmetry == Permutations(Task) \cup Permutations(Run) \cup Permutations(Approval)

(* lite, balanced and full; and limits set by the user: one run of the       *)
(* dearest agent at a time, and more runs side by side than there may be.    *)
Modes ==
  {[parallel |-> 1, cost |-> 8, room |-> 2], [parallel |-> 3, cost |-> 32, room |-> 8],
   [parallel |-> 6, cost |-> 64, room |-> 12],
   [parallel |-> 2, cost |-> 5, room |-> 8], [parallel |-> 6, cost |-> 64, room |-> 2]}

Team == INSTANCE TeamPlan WITH deps <- needs, status <- progress, Mode <- Modes

Browsing ==
  INSTANCE Browser WITH
    status <- hands, effects <- acted,
    Action <- {visit, revisit, click}, Navigate <- {visit, revisit}

teamVars == <<mode, needs, agent, progress, wave, refused, raised>>

browserVars == <<hands, origin, worker, op, rows, acted, loose, told, noise, faults,
                 kills>>

TeamAway ==
  /\ mode = {} /\ needs = {} /\ agent = {} /\ progress = {}
  /\ wave = {} /\ refused = {} /\ raised = {}

BrowserAway ==
  /\ hands = {} /\ origin = {} /\ worker = {} /\ op = {} /\ rows = {} /\ acted = {}
  /\ loose = {} /\ told = {} /\ noise = {} /\ faults = {} /\ kills = {}

AllInit ==
  /\ Init
  /\ \/ part = "team" /\ Team!Init /\ BrowserAway
     \/ part = "browser" /\ Browsing!Init /\ TeamAway
     \/ part = "mission" /\ TeamAway /\ BrowserAway

Only(p) == part = p /\ UNCHANGED part

AllNext ==
  \/ Only("mission") /\ Next /\ UNCHANGED <<teamVars, browserVars>>
  \/ Only("team") /\ Team!Next /\ UNCHANGED <<vars, browserVars>>
  \/ Only("browser") /\ Browsing!Next /\ UNCHANGED <<vars, teamVars>>

AllSpec == AllInit /\ [][AllNext]_<<part, vars, teamVars, browserVars>>

(* The plan of a team has no gap between what is built and what is released, *)
(* its waves begin as they were put together, and nothing strands it: see    *)
(* module TeamPlan.  No agent acts in a browser the user has, and the        *)
(* journal of the browser tells what came of its actions: see module         *)
(* Browser.                                                                 *)
TeamHolds ==
  /\ part = "team" =>
       Team!TypeOK /\ Team!GatesHold /\ Team!WavesBegin /\ Team!NothingStrands
  /\ part = "browser" =>
       Browsing!TypeOK /\ Browsing!HandsOff /\ Browsing!JournalTellsTrue
=============================================================================
