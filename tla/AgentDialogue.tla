--------------------------- MODULE AgentDialogue ---------------------------
(***************************************************************************)
(* The conversation of one background agent with its model: the worker's   *)
(* turn (harness-agent, ModelAgentHandler::execute) and what the           *)
(* foreground does with the result (harness-application,                   *)
(* finalize_parallel_agent_team_step, apply_agent_tool_yield,              *)
(* execute_parallel_tool_calls, approve_tool, deny_tool).                  *)
(*                                                                         *)
(* A dialogue is either chained, the provider remembering everything up to *)
(* a response and being sent what is new, or it sends its transcript every *)
(* time.  The provider is external: a response id stands for the set of    *)
(* items it remembers, and any answer is possible, tool calls it was not   *)
(* offered included.  Instructions to the model are one item, their        *)
(* wording, the assistant's text and the metrics of tokens are left out.   *)
(* The dialogue lives in one process and ends with it (module TaskDrive    *)
(* has the kills).                                                         *)
(***************************************************************************)
EXTENDS Integers, Sequences, FiniteSets

CONSTANTS
  Steer,          \* steering messages of the user
  Tool,           \* fingerprints of tool calls: name and arguments
  TargetTurns,    \* model_policy.target_turns, the first limit of turns
  ExtensionTurns, \* model_policy.extension_turns
  AbsoluteTurns,  \* model_policy.max_turns
  MaxToolCalls,   \* model_policy.max_tool_calls
  MaxStuck,       \* model_policy.max_stuck_recoveries
  MaxBatch        \* bound on the tool calls of one response

VARIABLES
  phase,     \* who has the dialogue, see Phase
  talk,      \* the continuation (AgentModelContinuation), see Continuation
  limit,     \* contract.max_turns
  steering,  \* steering_messages of the request the foreground keeps
  live,      \* SharedSteeringBuffer of the present batch
  bus,       \* steering messages waiting on the message bus
  shown,     \* what the present or last request shows the model
  calls,     \* tool calls of the last response that have no result yet
  verdict,   \* status of the last checkpoint
  said,      \* history: steering messages the user has given
  known,     \* history: tool results and steering the run has been given
  issued,    \* history: tool calls the model has made
  asked,     \* history: requests sent
  begun      \* history: the dialogue began chained

vars == <<phase, talk, limit, steering, live, bus, shown, calls, verdict,
          said, known, issued, asked, begun>>

Phase == {"queued",    \* the worker has not yet called execute
          "asking",    \* a request is with the provider
          "yielded",   \* the foreground has tool calls to run
          "approval",  \* the first of `calls' waits for the user
          "checkpoint",\* the foreground has a checkpoint to decide on
          "completed", "failed",
          "stranded"}  \* a tool's error ended the drive: see TaskDrive

Over == {"completed", "failed", "stranded"}

MaxIssued == (AbsoluteTurns + 1) * MaxBatch

Objective == <<"objective", 0>>
Instruction == <<"instruction", 0>>
Call(n) == <<"call", n>>
Result(n) == <<"result", n>>
Said(s) == {<<"steer", x>> : x \in s}

Item ==
  {Objective, Instruction} \cup Said(Steer)
    \cup {Call(n) : n \in 1..MaxIssued} \cup {Result(n) : n \in 1..MaxIssued}

NoResponse == {}   \* previous_response_id: None; a response shows something

Continuation ==
  [transcript : SUBSET Item,
   next       : SUBSET Item,
   previous   : SUBSET Item,
   chained    : BOOLEAN,
   turn       : 0..AbsoluteTurns,
   max        : 1..AbsoluteTurns,
   tools      : BOOLEAN,
   used       : 0..MaxToolCalls,
   recent     : UNION {[1..k -> Tool] : k \in 0..3},
   stuck      : 0..MaxStuck]

(* model_continuation: None *)
NoTalk == [none |-> TRUE]

Init ==
  /\ phase = "queued"
  /\ talk = NoTalk
  /\ limit = TargetTurns
  /\ said \in SUBSET Steer
  /\ steering = said
  /\ live = {}
  /\ bus = {}
  /\ shown = {}
  /\ calls = <<>>
  /\ verdict = "none"
  /\ known = {}
  /\ issued = 0
  /\ asked = 0
  /\ begun \in BOOLEAN

-----------------------------------------------------------------------------
(* Faulty: what is said goes into the next request only. *)
SayOnce(d, items) == [d EXCEPT !.next = @ \cup items]

(* append_budget_instruction, and the same for steering: a chained dialogue *)
(* has no use for its transcript.                                           *)
Say(d, items) ==
  [d EXCEPT !.next = @ \cup items,
            !.transcript = IF d.chained THEN @ ELSE @ \cup items]

(* Faulty: the rejected calls leave the dialogue where it was in the chain. *)
RestartedInChain(d) ==
  Say([d EXCEPT !.chained = FALSE, !.next = d.transcript], {Instruction})

(* restart_after_rejected_tool_calls *)
Restarted(d) ==
  Say([d EXCEPT !.previous = NoResponse, !.chained = FALSE,
                !.next = d.transcript],
      {Instruction})

(* The head of execute: the continuation with the steering said, or a new   *)
(* dialogue.                                                                *)
Opened(messages) ==
  IF talk = NoTalk
    THEN LET input == {Objective} \cup Said(messages)
         IN  [transcript |-> input, next |-> input, previous |-> NoResponse,
              chained |-> begun, turn |-> 0, max |-> limit, tools |-> TRUE,
              used |-> 0, recent |-> <<>>, stuck |-> 0]
    ELSE Say([talk EXCEPT !.max = IF limit > @ THEN limit ELSE @], Said(messages))

Final(d) == d.turn + 1 >= d.max
Converging(d) == d.turn >= TargetTurns

Instructed(d) ==
  IF Final(d) \/ Converging(d) THEN Say(d, {Instruction}) ELSE d

Checkpoint(d, status) ==
  /\ talk' = d
  /\ verdict' = status
  /\ phase' = "checkpoint"

(* The worker calls execute: steering is read here and not again.           *)
Ask ==
  LET d == Opened(steering \cup live) IN
  /\ phase = "queued"
  /\ known' = known \cup Said(steering \cup live)
  /\ IF d.turn >= d.max
       THEN /\ Checkpoint(d, "partial-budget")
            /\ UNCHANGED <<shown, asked>>
       ELSE /\ talk' = Instructed(d)
            /\ shown' = talk'.previous \cup talk'.next
            /\ asked' = asked + 1
            /\ phase' = "asking"
            /\ UNCHANGED verdict
  /\ UNCHANGED <<limit, steering, live, bus, calls, said, issued, begun>>

Counted(d) == [d EXCEPT !.turn = @ + 1]

LastThree(s) ==
  IF Len(s) <= 3 THEN s ELSE SubSeq(s, Len(s) - 2, Len(s))

Repeated(s) == Len(s) = 3 /\ s[1] = s[2] /\ s[2] = s[3]

(* The model asks for tools.  The same call for the third time, or more     *)
(* calls than the budget has left, are turned down and the dialogue         *)
(* restarted; the window of twelve fingerprints is kept to the three that   *)
(* are compared.                                                            *)
AnswerTools ==
  \E batch \in UNION {[1..k -> Tool] : k \in 1..MaxBatch} :
    LET d == [Counted(talk) EXCEPT !.recent = LastThree(@ \o batch)]
        ids == [i \in DOMAIN batch |-> issued + i]
    IN
    /\ phase = "asking"
    /\ issued' = issued + Len(batch)
    /\ IF Repeated(d.recent) THEN
         /\ IF d.stuck < MaxStuck
              THEN Checkpoint(Restarted([d EXCEPT !.stuck = @ + 1]),
                              "recoverable-stuck")
              ELSE Checkpoint(Restarted(d), "stuck-exhausted")
         /\ UNCHANGED <<calls, shown>>
       ELSE IF d.used + Len(batch) > MaxToolCalls THEN
         /\ Checkpoint(Restarted([d EXCEPT !.tools = FALSE]), "partial-budget")
         /\ UNCHANGED <<calls, shown>>
       ELSE
         /\ talk' = [d EXCEPT !.used = @ + Len(batch)]
         /\ calls' = ids
         /\ shown' = shown \cup {Call(ids[i]) : i \in DOMAIN ids}
         /\ phase' = "yielded"
         /\ UNCHANGED verdict
    /\ UNCHANGED <<limit, steering, live, bus, said, known, asked, begun>>

(* The model answers in text: the work is done, or handed over in part.     *)
AnswerText ==
  /\ phase = "asking"
  /\ \/ /\ phase' = "completed"
        /\ talk' = Counted(talk)
        /\ UNCHANGED verdict
     \/ Checkpoint(Counted(talk), "partial-budget")
  /\ UNCHANGED <<limit, steering, live, bus, shown, calls, said, known, issued,
                 asked, begun>>

(* A cancellation or the deadline before the start, the provider, its       *)
(* stream, an answer without text: the outcome is an error and the node has *)
(* failed.                                                                  *)
Error ==
  /\ phase \in {"queued", "asking"}
  /\ phase' = "failed"
  /\ UNCHANGED <<talk, limit, steering, live, bus, shown, calls, verdict, said,
                 known, issued, asked, begun>>

-----------------------------------------------------------------------------
(* Faulty: the limit grows past what the profile allows. *)
NextLimitUnbounded(status, completed) ==
  IF status = "stuck-exhausted" THEN 0
  ELSE IF status = "recoverable-stuck" THEN limit ELSE limit + ExtensionTurns

(* Faulty: at the last turn the limit is granted again. *)
NextLimitAgain(status, completed) ==
  IF status = "stuck-exhausted" THEN 0
  ELSE IF limit + ExtensionTurns < AbsoluteTurns THEN limit + ExtensionTurns
                                                 ELSE AbsoluteTurns

(* next_agent_turn_limit, 0 for None *)
NextLimit(status, completed) ==
  LET requested == IF status = "recoverable-stuck" THEN limit
                                                   ELSE limit + ExtensionTurns
      enough == IF requested > completed THEN requested ELSE completed + 1
      next == IF enough < AbsoluteTurns THEN enough ELSE AbsoluteTurns
  IN  IF \/ status = "stuck-exhausted"
         \/ limit >= AbsoluteTurns
         \/ next <= completed
        THEN 0 ELSE next

(* A new batch has a new buffer: what the old one held is dropped with it.  *)
NewBatch == phase' = "queued" /\ live' = {}

Extend ==
  LET next == NextLimit(verdict, talk.turn) IN
  /\ phase = "checkpoint"
  /\ IF next > 0
       THEN /\ limit' = next
            /\ talk' = [talk EXCEPT !.max = next]
            /\ NewBatch
       ELSE /\ phase' = "failed"
            /\ UNCHANGED <<limit, talk, live>>
  /\ UNCHANGED <<steering, bus, shown, calls, verdict, said, known, issued,
                 asked, begun>>

(* append_parallel_tool_result *)
Answered(d, ids) ==
  IF d.chained
    THEN [d EXCEPT !.next = @ \cup {Result(n) : n \in ids}]
    ELSE [d EXCEPT !.transcript =
                     @ \cup {Call(n) : n \in ids} \cup {Result(n) : n \in ids}]

(* The end of execute_parallel_tool_calls, when every call has its result.  *)
Continued(d) ==
  IF d.chained THEN d
               ELSE [d EXCEPT !.previous = NoResponse, !.next = d.transcript]

(* execute_parallel_tool_calls on d: the calls are run in their order until *)
(* one waits for the user, one fails, or all have answered; `fresh' is the  *)
(* steering the next request takes from the bus.                            *)
RunCalls(d, rest, fresh) ==
  \E k \in 0..Len(rest) :
    LET ids == {rest[i] : i \in 1..k} IN
    /\ calls' = SubSeq(rest, k + 1, Len(rest))
    /\ known' = known \cup {Result(n) : n \in ids}
                      \cup (IF phase = "approval" THEN {Result(Head(calls))} ELSE {})
    /\ IF k = Len(rest)
         THEN /\ talk' = Continued(Answered(d, ids))
              /\ steering' = fresh
              /\ bus' = bus \ fresh
              /\ NewBatch
         ELSE /\ talk' = Answered(d, ids)
              /\ phase' \in {"approval", "stranded"}
              /\ UNCHANGED <<steering, bus, live>>

(* apply_agent_tool_yield: a chained dialogue goes on from the response,    *)
(* which remembers what it was shown and its own calls.                     *)
Yield ==
  /\ phase = "yielded"
  /\ RunCalls(IF talk.chained THEN [talk EXCEPT !.previous = shown, !.next = {}]
                              ELSE talk,
              calls, {})
  /\ UNCHANGED <<limit, shown, verdict, said, issued, asked, begun>>

(* approve_tool: the call that waited is answered, then the others run; the *)
(* next batch takes the steering that waits on the bus.                     *)
Approve ==
  /\ phase = "approval"
  /\ RunCalls(Answered(talk, {Head(calls)}), Tail(calls), bus)
  /\ UNCHANGED <<limit, shown, verdict, said, issued, asked, begun>>

(* The approved tool fails: the continuation stays but cannot be approved   *)
(* or denied again.                                                         *)
ApproveFails ==
  /\ phase = "approval"
  /\ phase' = "stranded"
  /\ UNCHANGED <<talk, limit, steering, live, bus, shown, calls, verdict, said,
                 known, issued, asked, begun>>

(* deny_tool *)
Deny ==
  /\ phase = "approval"
  /\ phase' = "failed"
  /\ UNCHANGED <<talk, limit, steering, live, bus, shown, calls, verdict, said,
                 known, issued, asked, begun>>

(* steer, and the terminal's push into the buffer of the running batch: a   *)
(* message that comes after Ask is in a buffer nobody will read.            *)
SteerTeam ==
  \E s \in Steer \ said :
    /\ phase \in {"queued", "asking"}
    /\ said' = said \cup {s}
    /\ bus' = bus \cup {s}
    /\ live' = live \cup {s}
    /\ UNCHANGED <<phase, talk, limit, steering, shown, calls, verdict, known,
                   issued, asked, begun>>

Execute == Ask \/ AnswerTools \/ AnswerText \/ Error
Foreground == Extend \/ Yield
User == Approve \/ ApproveFails \/ Deny \/ SteerTeam

Next == Execute \/ Foreground \/ User

(* A request has a time limit and the foreground collects every batch.      *)
Spec == Init /\ [][Next]_vars /\ WF_vars(Execute) /\ WF_vars(Foreground)

-----------------------------------------------------------------------------
TypeOK ==
  /\ phase \in Phase
  /\ talk = NoTalk \/ talk \in Continuation
  /\ limit \in 1..AbsoluteTurns
  /\ {steering, live, bus, said} \subseteq SUBSET Steer
  /\ shown \subseteq Item
  /\ calls \in UNION {[1..k -> 1..MaxIssued] : k \in 0..MaxBatch}
  /\ verdict \in {"none", "partial-budget", "recoverable-stuck", "stuck-exhausted"}
  /\ known \subseteq Item
  /\ issued \in 0..MaxIssued
  /\ asked \in Nat
  /\ begun \in BOOLEAN

(* A request never shows the model a tool call without its result, nor a    *)
(* result without its call: providers turn such a request down.  It has to  *)
(* survive rejected calls, checkpoints, approvals in the middle of a batch  *)
(* and the change from a chained dialogue to a transcript.                  *)
CallsAnswered ==
  phase = "asking" =>
    \A n \in 1..MaxIssued : Call(n) \in shown <=> Result(n) \in shown

(* Whatever the run has learned, the results of its tools and the steering  *)
(* of the user, is in each request it sends.                                *)
NothingForgotten == phase = "asking" => known \subseteq shown

(* The same of a dialogue that never was chained, and of a chained one      *)
(* until rejected calls restart it from a transcript it has not kept.       *)
TranscriptRemembers ==
  phase = "asking" /\ talk.chained = begun => known \subseteq shown

(* Extensions, strategy recoveries and batches of calls stay together       *)
(* within the turns and the tool calls of the profile.                      *)
BudgetHolds ==
  /\ asked <= AbsoluteTurns
  /\ Cardinality({n \in 1..MaxIssued : Result(n) \in known}) <= MaxToolCalls
  /\ talk # NoTalk => talk.turn <= asked

(* A dialogue does not go on forever: it ends, or the user is asked.        *)
DialogueEnds == [](phase = "queued" => <>(phase \in Over \cup {"approval"}))
=============================================================================
