------------------------------ MODULE MCAgents ------------------------------
(* Work in the background on small instances: the dialogue of an agent with  *)
(* its model, a batch of several on the workers, the budget of their runs,   *)
(* the terminal that starts, polls and cancels such work, and what the       *)
(* agents are told of a source file with two texts.  The parts do not share  *)
(* state; a behaviour moves the one that `part' names, so that their state   *)
(* spaces add up.                                                            *)
EXTENDS AgentDialogue, TLC

CONSTANTS r1, r2, r3, r4, NoRun, Worker, l1, l2, MaxCool,
          Crews, Tokens, RunToolCalls, Runtime, MaxAgents, MaxTotalTokens,
          MissionToolCalls, MaxRuntime, MaxClock, MaxFault,
          Source, Body, Gone, Unfit, Nothing, MaxWrite, MaxStop

VARIABLES
  part,
  queue, job, at, token, lane, outcome, returned, orphaned, cooled,
  escrow, clock, sealed,
  loop, work, worker, lent, cancelled, busy, resume, prompt, setup, typed, armed,
  leaving, panicked, faults,
  disk, stamp, documents, published, cached, ask, facts, edit, rows, update,
  settled, searched, stops

Executor == INSTANCE AgentExecutor WITH
              Batch <- <<r1, r2, r3, r4>>, Late <- {r4}, Lane <- {l1, l2},
              LaneOf <- (r1 :> l1 @@ r2 :> l1 @@ r3 :> l1 @@ r4 :> l2)

(* A mission is named by the runs it has.                                    *)
CrewOf == [r \in UNION Crews |-> CHOOSE c \in Crews : r \in c]

Budget == INSTANCE AgentBudget WITH
            Run <- UNION Crews, Mission <- Crews, MissionOf <- CrewOf,
            ToolCalls <- RunToolCalls, MaxToolCalls <- MissionToolCalls

Terminal == INSTANCE Console

Facts == INSTANCE CodeFacts WITH
           File <- Source, MaxKill <- MaxStop, call <- ask, kills <- stops

(* The numbers a profile and a policy may hold: AgentProfile::validate and  *)
(* validate_request.  Gone, Unfit and Nothing are nothing else.             *)
ASSUME InstanceAssumption ==
  /\ {AbsoluteTurns, MaxBatch} \subseteq Nat \ {0}
  /\ {MaxToolCalls, MaxStuck} \subseteq Nat
  /\ TargetTurns \in 1..AbsoluteTurns
  /\ ExtensionTurns \in 1..AbsoluteTurns
  /\ Tokens \subseteq 1..MaxTotalTokens
  /\ RunToolCalls \in 0..MissionToolCalls
  /\ Runtime \in 1..MaxRuntime
  /\ {MaxAgents, MaxRuntime} \subseteq Nat \ {0}
  /\ {MaxTotalTokens, MissionToolCalls, MaxClock} \subseteq Nat
  /\ IsFiniteSet(UNION Crews)
  /\ {MaxWrite, MaxStop} \subseteq Nat
  /\ Body \cap {Gone, Unfit} = {} /\ Gone # Unfit
  /\ Nothing \notin Source \cup Body \cup {Unfit}
  /\ Nothing \notin Facts!Question \cup Facts!Fact \cup Facts!Edit
  /\ Nothing \notin Facts!Row \cup Facts!Update

executorVars == <<queue, job, at, token, lane, outcome, returned, orphaned, cooled>>
budgetVars == <<escrow, clock, sealed>>
consoleVars == <<loop, work, worker, lent, cancelled, busy, resume, prompt, setup, typed,
                 armed, leaving, panicked, faults>>
factVars == <<disk, stamp, documents, published, cached, ask, facts, edit, rows,
              update, settled, searched, stops>>
allVars == <<part, vars, executorVars, budgetVars, consoleVars, factVars>>

AllInit ==
  /\ part \in {"dialogue", "executor", "budget", "console", "facts"}
  /\ Init /\ Executor!Init /\ Budget!Init /\ Terminal!Init /\ Facts!Init
  /\ part # "dialogue" => said = {} /\ begun
  /\ part # "console" => loop = "tui"
  /\ disk = [s \in Source |-> CHOOSE t \in Body : TRUE]

Only(p) == part = p /\ UNCHANGED part

AllNext ==
  \/ Only("dialogue") /\ Next /\ UNCHANGED <<executorVars, budgetVars, consoleVars, factVars>>
  \/ Only("executor") /\ Executor!Next /\ UNCHANGED <<vars, budgetVars, consoleVars, factVars>>
  \/ Only("budget") /\ Budget!Next /\ UNCHANGED <<vars, executorVars, consoleVars, factVars>>
  \/ Only("console") /\ Terminal!Next /\ UNCHANGED <<vars, executorVars, budgetVars, factVars>>
  \/ /\ Only("facts") /\ Facts!Next
     /\ UNCHANGED <<vars, executorVars, budgetVars, consoleVars>>

DialogueStep(A) == Only("dialogue") /\ A /\ UNCHANGED <<executorVars, budgetVars, consoleVars, factVars>>
ExecutorStep(A) == Only("executor") /\ A /\ UNCHANGED <<vars, budgetVars, consoleVars, factVars>>
ConsoleStep(A) == Only("console") /\ A /\ UNCHANGED <<vars, executorVars, budgetVars, factVars>>

AllSpec ==
  /\ AllInit /\ [][AllNext]_allVars
  /\ WF_vars(DialogueStep(Execute)) /\ WF_vars(DialogueStep(Foreground))
  /\ \A w \in Worker : WF_executorVars(ExecutorStep(Executor!WorkerStep(w)))
  /\ WF_executorVars(ExecutorStep(Executor!Return))
  /\ WF_consoleVars(ConsoleStep(Terminal!WorkerEnds))
  /\ WF_consoleVars(ConsoleStep(Terminal!Poll))
  /\ WF_consoleVars(ConsoleStep(Terminal!Drained))
  /\ WF_consoleVars(ConsoleStep(Terminal!Leave))
  /\ SF_consoleVars(ConsoleStep(Terminal!LastWave))

(* The parts stay within their types.                                       *)
AllTypeOK ==
  /\ part = "dialogue" => TypeOK
  /\ part = "executor" => Executor!TypeOK
  /\ part = "budget" => Budget!TypeOK
  /\ part = "console" => Terminal!TypeOK
  /\ part = "facts" => Facts!TypeOK

(* What a model is shown answers each of its calls, and holds every result   *)
(* and every steering message the run has been given; what it is told of a   *)
(* file, or asks to be changed in it, belongs to the text the file has: see  *)
(* the modules AgentDialogue and CodeFacts.                                  *)
ModelsAreToldRight ==
  /\ part = "dialogue" => CallsAnswered /\ TranscriptRemembers
  /\ part = "facts" => /\ Facts!SymbolsFit /\ Facts!FoundFactsAreCurrent
                       /\ Facts!EditFits /\ Facts!IndexCatchesUp

(* Limits hold: those of a profile through extensions and recoveries, and   *)
(* those of a mission whose runs reserve, expire and come back; a closed    *)
(* escrow stays closed.  See the modules AgentDialogue and AgentBudget.     *)
LimitsHold ==
  /\ part = "dialogue" => BudgetHolds
  /\ part = "budget" => Budget!EscrowHolds

(* Whatever is typed, answered, cancelled or polled while a thread has the   *)
(* application, nobody else uses it; an answer goes to the question shown;   *)
(* the program ends with nothing in the background.  See module Console.     *)
ConsoleHolds == part = "console" =>
  Terminal!LentIsUntouched /\ Terminal!AnswersGoHome /\ Terminal!ExitLosesNothing

(* A dialogue ends or asks the user, and a batch returns with an outcome    *)
(* for every run unless a panic left a lane warming, and a user who insists  *)
(* leaves the program: see the modules AgentDialogue, AgentExecutor and      *)
(* Console.                                                                  *)
AgentsEnd ==
  /\ part = "dialogue" => DialogueEnds
  /\ part = "executor" => Executor!BatchEnds
  /\ part = "console" => Terminal!UserCanLeave
=============================================================================
