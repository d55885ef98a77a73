---------------------------- MODULE AgentsProofs ----------------------------
(***************************************************************************)
(* Proofs about work in the background: the terminal that lends the        *)
(* application to a thread (module Console), the dialogue of an agent with *)
(* its model (AgentDialogue), the budget of a mission's runs (AgentBudget) *)
(* and what the agents are told of the source files (CodeFacts), composed  *)
(* as in MCAgents and for every instance of it that its assumption allows. *)
(* Each part has an inductive invariant of its own: the other parts leave  *)
(* it alone.                                                               *)
(*                                                                         *)
(* The sum of the budget is a fold that chooses an element at each step;   *)
(* what is known of it comes from counting the same tokens one by one      *)
(* (Units), which needs no order.                                          *)
(***************************************************************************)
EXTENDS MCAgents, FiniteSetTheorems, SequenceTheorems, NaturalsInduction,
        WellFoundedInduction, TLAPS

-----------------------------------------------------------------------------
(* What the terminal keeps: the application is away with a single task or   *)
(* approval, and only then; no question is shown meanwhile, and the loop    *)
(* that reads lines has no such work at all.                                *)
ConsoleInv ==
  /\ work \in {"none", "task", "approval", "team"}
  /\ ~panicked
  /\ lent <=> work \in Terminal!Single
  /\ lent => prompt = "none" /\ loop = "tui"
  /\ prompt # "none" => setup = prompt
  /\ loop = "over" => work = "none"

(* Nothing is in the background at the start.                               *)
LEMMA ConsoleStarts == Terminal!Init => ConsoleInv
BY DEF Terminal!Init, ConsoleInv, Terminal!Single

(* A launch leaves what the terminal relates as it should be.               *)
LEMMA Launches ==
  ASSUME NEW kind \in {"task", "approval", "team"}, Terminal!Launch(kind)
  PROVE  work' = kind /\ (lent' <=> kind \in Terminal!Single)
BY DEF Terminal!Launch

(* So does /exit, without a question.                                       *)
LEMMA ExitKeeps ==
  ASSUME ConsoleInv, Terminal!Exit, loop \in {"tui", "plain"}, UNCHANGED <<prompt, setup>>
  PROVE  ConsoleInv'
BY DEF ConsoleInv, Terminal!Exit, Terminal!Cancel, Terminal!Use, Terminal!Unused,
  Terminal!background, Terminal!Single

(* No key, poll or end of a thread takes the application from its owner.    *)
LEMMA ConsoleKeeps ==
  ASSUME ConsoleInv, Terminal!Next PROVE ConsoleInv'
<1> USE DEF ConsoleInv, Terminal!Single, Terminal!Question,
            Terminal!background, Terminal!screen, Terminal!Use, Terminal!Unused
<1>1. CASE Terminal!WorkerEnds
  BY <1>1 DEF Terminal!WorkerEnds
<1>2. CASE Terminal!Poll
  <2>0. /\ loop # "over" /\ loop' = loop /\ setup' = setup
        /\ prompt' = prompt \/ prompt' = "none"
    BY <1>2 DEF Terminal!Poll, Terminal!Shown
  <2>1. CASE Terminal!CollectSingle
    BY <1>2, <2>0, <2>1 DEF Terminal!CollectSingle, Terminal!Launch, Terminal!Collected
  <2>2. CASE Terminal!CollectTeam
    BY <1>2, <2>0, <2>2 DEF Terminal!CollectTeam, Terminal!Launch, Terminal!Collected
  <2> QED
    BY <1>2, <2>1, <2>2 DEF Terminal!Poll
<1>3. CASE Terminal!PollTitles
  BY <1>3 DEF Terminal!PollTitles
<1>4. CASE Terminal!Drained
  BY <1>4 DEF Terminal!Drained
<1>5. CASE Terminal!Answer
  BY <1>5 DEF Terminal!Answer, Terminal!Submit, Terminal!Ask, Terminal!Reading
<1>6. CASE Terminal!TakeBack
  BY <1>6 DEF Terminal!TakeBack, Terminal!Reading
<1>7. CASE Terminal!Type
  BY <1>7 DEF Terminal!Type
<1>8. CASE Terminal!EnterText
  <2>0. /\ loop \in {"tui", "plain"} /\ loop' = loop /\ setup' = setup
        /\ prompt = "none" /\ prompt' = prompt
    BY <1>8 DEF Terminal!EnterText, Terminal!Reading
  <2>1. CASE UNCHANGED <<Terminal!background, panicked>>
    BY <2>0, <2>1
  <2>2. CASE work \notin Terminal!Single /\ Terminal!Use /\ UNCHANGED Terminal!background
    BY <2>0, <2>2
  <2>3. CASE work = "none" /\ loop = "tui" /\ Terminal!StartSingle("task")
    BY <2>0, <2>3, Launches DEF Terminal!StartSingle
  <2> QED
    BY <1>8, <2>1, <2>2, <2>3 DEF Terminal!EnterText
<1>9. CASE Terminal!EnterCommand
  <2>0. /\ loop \in {"tui", "plain"} /\ prompt = "none" /\ Terminal!Command
    BY <1>9 DEF Terminal!EnterCommand, Terminal!Reading
  <2>1. CASE Terminal!Exit /\ UNCHANGED <<prompt, setup>>
    BY <2>0, <2>1, ExitKeeps
  <2>2. CASE Terminal!Refused
    BY <2>2 DEF Terminal!Refused
  <2>3. CASE /\ work \notin Terminal!Single /\ loop' = loop
             /\ Terminal!Use /\ UNCHANGED <<Terminal!background, prompt, setup>>
    BY <2>0, <2>3
  <2>4. CASE /\ work \notin Terminal!Single /\ loop' = loop
             /\ Terminal!StartTeam /\ UNCHANGED <<prompt, setup>>
    BY <2>0, <2>4, Launches DEF Terminal!StartTeam
  <2>5. CASE /\ work \notin Terminal!Single /\ loop' = loop /\ loop = "tui"
             /\ Terminal!StartSingle("approval") /\ UNCHANGED <<prompt, setup>>
    BY <2>0, <2>5, Launches DEF Terminal!StartSingle
  <2>6. CASE /\ work \notin Terminal!Single /\ loop' = loop
             /\ \E question \in Terminal!Question : Terminal!Open(question)
             /\ Terminal!Use /\ UNCHANGED Terminal!background
    BY <2>0, <2>6 DEF Terminal!Open, Terminal!Ask
  <2> QED
    BY <2>0, <2>1, <2>2, <2>3, <2>4, <2>5, <2>6 DEF Terminal!Command
<1>10. CASE Terminal!CyclePermission
  BY <1>10 DEF Terminal!CyclePermission
<1>11. CASE Terminal!CtrlC
  BY <1>11, ExitKeeps DEF Terminal!CtrlC, Terminal!Active, Terminal!Cancel
<1>12. CASE Terminal!Disarm
  BY <1>12 DEF Terminal!Disarm
<1>13. CASE Terminal!WantOut
  BY <1>13 DEF Terminal!WantOut, Terminal!Reading
<1> QED
  BY <1>1, <1>2, <1>3, <1>4, <1>5, <1>6, <1>7, <1>8, <1>9, <1>10, <1>11, <1>12,
     <1>13 DEF Terminal!Next, Terminal!Keys

-----------------------------------------------------------------------------
(* What the dialogue of an agent keeps.  Only the turns, the calls and what *)
(* has been counted matter here; texts are whatever they are.               *)
AnyItem ==
  {Objective, Instruction} \cup Said(Steer)
    \cup {Call(n) : n \in Nat} \cup {Result(n) : n \in Nat}

Talk ==
  [transcript : SUBSET AnyItem, next : SUBSET AnyItem, previous : SUBSET AnyItem,
   chained : BOOLEAN, turn : Nat, max : Nat, tools : BOOLEAN, used : Nat,
   recent : Seq(Tool), stuck : Nat]

(* The tool calls whose results the run has been given.                     *)
Results == {n \in 1..MaxIssued : Result(n) \in known}

(* Requests and turns go together; calls with and without a result are      *)
(* within those that were allowed, and these within the profile.            *)
DialogueInv ==
  /\ phase \in Phase
  /\ limit \in 1..AbsoluteTurns
  /\ asked \in 0..AbsoluteTurns /\ issued \in Nat
  /\ calls \in Seq(Nat)
  /\ {steering, live, bus, said} \subseteq SUBSET Steer
  /\ shown \subseteq AnyItem /\ begun \in BOOLEAN
  /\ talk = NoTalk => asked = 0 /\ Results = {} /\ phase \in {"queued", "failed"}
  /\ talk # NoTalk =>
       /\ talk \in Talk
       /\ talk.max <= AbsoluteTurns
       /\ talk.turn <= asked
       /\ phase = "asking" => asked = talk.turn + 1
       /\ phase \notin {"asking", "failed"} => asked = talk.turn
       /\ talk.used <= MaxToolCalls
       /\ Cardinality(Results) <= talk.used
       /\ phase \in {"yielded", "approval"} =>
            Cardinality(Results) + Len(calls) <= talk.used
  /\ phase = "approval" => calls # <<>>

(* d as it is told more, but with what was counted left as it was.          *)
Same(d, e) == e \in Talk /\ e.turn = d.turn /\ e.max = d.max /\ e.used = d.used

(* No dialogue yet is not a dialogue.                                       *)
LEMMA NoTalkIsNone == NoTalk \notin Talk
<1>1. \A d \in Talk : "turn" \in DOMAIN d
  BY DEF Talk
<1>2. "turn" \notin DOMAIN NoTalk
  BY DEF NoTalk
<1> QED
  BY <1>1, <1>2

(* What is said to the model leaves the counts alone.                       *)
LEMMA SayCounts ==
  ASSUME NEW d \in Talk, NEW items \in SUBSET AnyItem
  PROVE  Same(d, Say(d, items))
BY DEF Same, Say, Talk

(* So does a restart from the transcript.                                   *)
LEMMA RestartCounts ==
  ASSUME NEW d \in Talk
  PROVE  Same(d, Restarted(d))
<1>1. /\ [d EXCEPT !.previous = NoResponse, !.chained = FALSE, !.next = d.transcript] \in Talk
      /\ Same(d, [d EXCEPT !.previous = NoResponse, !.chained = FALSE,
                           !.next = d.transcript])
  BY DEF Same, Talk, NoResponse
<1>2. {Instruction} \in SUBSET AnyItem
  BY DEF AnyItem
<1> QED
  BY <1>1, <1>2, SayCounts DEF Restarted, Same

(* So do the results of tools.                                              *)
LEMMA AnswerCounts ==
  ASSUME NEW d \in Talk, NEW ids \in SUBSET Nat
  PROVE  Same(d, Answered(d, ids)) /\ Same(d, Continued(d))
<1>1. {Result(n) : n \in ids} \subseteq AnyItem /\ {Call(n) : n \in ids} \subseteq AnyItem
  BY DEF AnyItem
<1>2. Same(d, Answered(d, ids))
  BY <1>1 DEF Same, Answered, Talk
<1>3. Same(d, Continued(d))
  BY DEF Same, Continued, Talk, NoResponse
<1> QED
  BY <1>2, <1>3

(* The results are so many.                                                 *)
LEMMA ResultsCount == IsFiniteSet(Results) /\ Cardinality(Results) \in Nat
<1>1. MaxIssued \in Int
  BY InstanceAssumption DEF MaxIssued
<1>2. IsFiniteSet(1..MaxIssued) /\ Results \subseteq 1..MaxIssued
  BY <1>1, FS_Interval DEF Results
<1> QED
  BY <1>2, FS_Subset, FS_CardinalityType

(* The same of the next state.                                              *)
LEMMA ResultsCountNext == (IsFiniteSet(Results) /\ Cardinality(Results) \in Nat)'
BY ResultsCount, PTL

(* A set has at most one element more when one is added.                    *)
LEMMA OneMore ==
  ASSUME NEW S, IsFiniteSet(S), NEW x
  PROVE  /\ IsFiniteSet(S \cup {x}) /\ Cardinality(S \cup {x}) \in Nat
         /\ Cardinality(S) \in Nat /\ Cardinality(S \cup {x}) <= Cardinality(S) + 1
<1>1. /\ IsFiniteSet(S \cup {x})
      /\ Cardinality(S \cup {x}) = IF x \in S THEN Cardinality(S) ELSE Cardinality(S) + 1
  BY FS_AddElement
<1>2. Cardinality(S) \in Nat /\ Cardinality(S \cup {x}) \in Nat
  BY <1>1, FS_CardinalityType
<1> QED
  BY <1>1, <1>2

(* A run is given the results of at most k more calls.                      *)
LEMMA MoreResults ==
  ASSUME NEW ids, IsFiniteSet(ids), NEW k \in Nat, Cardinality(ids) <= k,
         \A n \in Nat : Result(n) \in known' => Result(n) \in known \/ n \in ids
  PROVE  Cardinality(Results') <= Cardinality(Results) + k
<1>1. Results' \subseteq Results \cup ids
  BY DEF Results
<1>2. IsFiniteSet(Results \cup ids)
      /\ Cardinality(Results \cup ids)
           = Cardinality(Results) + Cardinality(ids) - Cardinality(Results \cap ids)
  BY ResultsCount, FS_Union
<1>3. Cardinality(Results \cap ids) \in Nat /\ Cardinality(ids) \in Nat
  BY ResultsCount, FS_Intersection, FS_CardinalityType
<1>4. Cardinality(Results') <= Cardinality(Results \cup ids)
  BY <1>1, <1>2, FS_Subset
<1> QED
  BY <1>2, <1>3, <1>4, ResultsCount, ResultsCountNext

(* The first k of some calls are k at most.                                 *)
LEMMA FirstCalls ==
  ASSUME NEW rest \in Seq(Nat), NEW k \in 0..Len(rest)
  PROVE  /\ IsFiniteSet({rest[i] : i \in 1..k})
         /\ Cardinality({rest[i] : i \in 1..k}) <= k
         /\ {rest[i] : i \in 1..k} \subseteq Nat
         /\ SubSeq(rest, k + 1, Len(rest)) \in Seq(Nat)
         /\ Len(SubSeq(rest, k + 1, Len(rest))) = Len(rest) - k
<1> DEFINE ids == {rest[i] : i \in 1..k}
           f == [i \in 1..k |-> rest[i]]
<1>1. f \in Surjection(1..k, ids)
  BY DEF Surjection
<1>2. k \in Nat /\ IsFiniteSet(1..k) /\ Cardinality(1..k) = k
  BY FS_Interval
<1>3. IsFiniteSet(ids) /\ Cardinality(ids) <= k
  <2> HIDE DEF ids, f
  <2> QED
    BY <1>1, <1>2, FS_Surjection
<1> QED
  BY <1>3

(* A dialogue that has not begun has used nothing.                          *)
LEMMA DialogueStarts == Init => DialogueInv
<1> SUFFICES ASSUME Init PROVE DialogueInv
  OBVIOUS
<1>1. Results = {}
  BY DEF Init, Results
<1> QED
  BY <1>1, InstanceAssumption DEF Init, DialogueInv, Phase

(* A limit of turns that is granted is within the profile.                  *)
LEMMA LimitGranted ==
  ASSUME NEW status, NEW completed \in Nat, limit \in 1..AbsoluteTurns,
         NextLimit(status, completed) > 0
  PROVE  NextLimit(status, completed) \in 1..AbsoluteTurns
BY InstanceAssumption DEF NextLimit

(* The calls are run until one waits, one fails or all have answered.       *)
LEMMA RunCounts ==
  ASSUME DialogueInv, NEW d \in Talk, NEW rest \in Seq(Nat), NEW fresh \in SUBSET Steer,
         talk # NoTalk, d.turn = talk.turn, d.max = talk.max, d.used = talk.used,
         \/ phase = "yielded" /\ rest = calls
         \/ phase = "approval" /\ rest = Tail(calls),
         RunCalls(d, rest, fresh),
         UNCHANGED <<limit, shown, verdict, said, issued, asked, begun>>
  PROVE  DialogueInv'
<1>1. PICK k \in 0..Len(rest) :
        LET ids == {rest[i] : i \in 1..k} IN
        /\ calls' = SubSeq(rest, k + 1, Len(rest))
        /\ known' = known \cup {Result(n) : n \in ids}
                          \cup (IF phase = "approval" THEN {Result(Head(calls))} ELSE {})
        /\ IF k = Len(rest)
             THEN /\ talk' = Continued(Answered(d, ids))
                  /\ steering' = fresh
                  /\ bus' = bus \ fresh
                  /\ NewBatch
             ELSE /\ talk' = Answered(d, ids)
                  /\ phase' \in {"approval", "stranded"}
                  /\ UNCHANGED <<steering, bus, live>>
  BY DEF RunCalls
<1> DEFINE ids == {rest[i] : i \in 1..k}
           head == IF phase = "approval" THEN {Head(calls)} ELSE {}
           more == IF phase = "approval" THEN k + 1 ELSE k
<1>2. /\ k \in Nat /\ Len(rest) \in Nat /\ k <= Len(rest)
      /\ IsFiniteSet(ids) /\ Cardinality(ids) <= k /\ ids \subseteq Nat
      /\ calls' \in Seq(Nat) /\ Len(calls') = Len(rest) - k
  <2>1. k \in Nat /\ Len(rest) \in Nat /\ k <= Len(rest)
    BY LenProperties
  <2> QED
    BY <1>1, <2>1, FirstCalls
<1>3. /\ calls \in Seq(Nat) /\ Len(calls) \in Nat
      /\ phase = "approval" => Head(calls) \in Nat /\ Len(rest) = Len(calls) - 1
      /\ phase = "yielded" => Len(rest) = Len(calls)
  BY DEF DialogueInv
<1>4. Same(d, Answered(d, ids)) /\ Same(d, Continued(Answered(d, ids)))
  <2>1. Same(d, Answered(d, ids))
    BY <1>2, AnswerCounts
  <2>2. Same(Answered(d, ids), Continued(Answered(d, ids)))
    BY <2>1, AnswerCounts DEF Same
  <2> QED
    BY <2>1, <2>2 DEF Same
<1>5. talk' \in Talk /\ talk'.turn = talk.turn /\ talk'.max = talk.max /\ talk'.used = talk.used
  BY <1>1, <1>4 DEF Same
<1>6. Cardinality(Results') <= Cardinality(Results) + more
  <2>1. IsFiniteSet(ids \cup head) /\ Cardinality(ids \cup head) <= more /\ more \in Nat
    <3>1. CASE phase = "approval"
      <4>1. head = {Head(calls)} /\ more = k + 1
        BY <3>1
      <4>2. /\ Cardinality(ids \cup {Head(calls)}) <= Cardinality(ids) + 1
            /\ IsFiniteSet(ids \cup {Head(calls)}) /\ Cardinality(ids) \in Nat
            /\ Cardinality(ids \cup {Head(calls)}) \in Nat
        BY <1>2, OneMore
      <4> HIDE DEF ids, head, more
      <4> QED
        BY <1>2, <4>1, <4>2
    <3>2. CASE phase # "approval"
      <4>1. ids \cup head = ids
        BY <3>2
      <4> QED
        BY <1>2, <3>2, <4>1
    <3> QED
      BY <3>1, <3>2
  <2>2. ASSUME NEW n \in Nat, Result(n) \in known', Result(n) \notin known
        PROVE  n \in ids \cup head
    BY <1>1, <2>2 DEF Result
  <2> HIDE DEF ids, head, more
  <2> QED
    BY <2>1, <2>2, MoreResults
<1>7. /\ asked' = asked /\ limit' = limit /\ issued' = issued /\ shown' = shown /\ said' = said
      /\ asked = talk.turn /\ talk.max <= AbsoluteTurns /\ talk.used \in Nat
      /\ talk.used <= MaxToolCalls /\ Cardinality(Results) + Len(calls) <= talk.used
  BY DEF DialogueInv, Talk
<1>8. Cardinality(Results') + Len(calls') <= talk.used /\ Cardinality(Results') <= talk.used
  <2>1. Cardinality(Results) \in Nat /\ Cardinality(Results') \in Nat
    BY ResultsCount, ResultsCountNext
  <2> QED
    <3>1. CASE phase = "approval"
      <4>1. more = k + 1 /\ Len(rest) = Len(calls) - 1
        BY <1>3, <3>1
      <4>2. Len(calls') = Len(rest) - k /\ Len(rest) \in Nat /\ k \in Nat /\ k <= Len(rest)
        BY <1>2
      <4>3. Len(calls) \in Nat /\ talk.used \in Nat
            /\ Cardinality(Results) + Len(calls) <= talk.used
        BY <1>3, <1>7
      <4> HIDE DEF more
      <4> QED
        BY SMTT(30), <1>6, <2>1, <4>1, <4>2, <4>3
    <3>2. CASE phase = "yielded"
      BY <1>2, <1>3, <1>6, <1>7, <2>1, <3>2
    <3> QED
      BY <3>1, <3>2
<1>9. /\ phase' \in {"queued", "approval", "stranded"}
      /\ {steering', live', bus', said'} \subseteq SUBSET Steer
  BY <1>1 DEF NewBatch, DialogueInv
<1>10. phase' = "approval" => calls' # <<>>
  <2>1. phase' = "approval" => k # Len(rest)
    BY <1>1 DEF NewBatch
  <2>2. calls' = <<>> => Len(calls') = 0
    OBVIOUS
  <2> HIDE DEF ids
  <2> QED
    BY <1>2, <2>1, <2>2
<1> HIDE DEF ids
<1> QED
  BY <1>2, <1>5, <1>7, <1>8, <1>9, <1>10, NoTalkIsNone DEF DialogueInv, Phase

(* The dialogue the worker opens: a new one, or the one there was.          *)
LEMMA OpenedCounts ==
  ASSUME DialogueInv, NEW messages \in SUBSET Steer
  PROVE  LET d == Opened(messages) IN
         /\ d \in Talk /\ d.max <= AbsoluteTurns
         /\ talk = NoTalk => d.turn = 0 /\ d.used = 0
         /\ talk # NoTalk => d.turn = talk.turn /\ d.used = talk.used
<1>1. Said(messages) \subseteq AnyItem /\ {Objective} \cup Said(messages) \subseteq AnyItem
  BY DEF AnyItem, Said
<1>2. limit \in Nat /\ limit <= AbsoluteTurns /\ AbsoluteTurns \in Nat
  BY InstanceAssumption DEF DialogueInv
<1>3. CASE talk = NoTalk
  <2>1. <<>> \in Seq(Tool) /\ begun \in BOOLEAN
    BY DEF DialogueInv
  <2> QED
    BY <1>1, <1>2, <1>3, <2>1 DEF Opened, Talk, NoResponse
<1>4. CASE talk # NoTalk
  <2> DEFINE e == [talk EXCEPT !.max = IF limit > @ THEN limit ELSE @]
  <2>1. talk \in Talk /\ talk.max <= AbsoluteTurns
    BY <1>4 DEF DialogueInv
  <2>2. e \in Talk /\ e.max <= AbsoluteTurns /\ e.turn = talk.turn /\ e.used = talk.used
    BY <1>2, <2>1 DEF Talk
  <2>3. Same(e, Say(e, Said(messages)))
    BY <1>1, <2>2, SayCounts
  <2>4. Opened(messages) = Say(e, Said(messages))
    BY <1>4 DEF Opened
  <2> HIDE DEF e
  <2> QED
    BY <1>4, <2>2, <2>3, <2>4 DEF Same
<1> QED
  BY <1>3, <1>4

(* Without a new result there are as many as before.                        *)
LEMMA SameResults ==
  ASSUME \A n \in Nat : Result(n) \in known' <=> Result(n) \in known
  PROVE  Results' = Results
BY DEF Results

(* A request is a turn that was left.                                       *)
LEMMA AskKeeps == ASSUME DialogueInv, Ask PROVE DialogueInv'
<1> DEFINE d == Opened(steering \cup live)
<1>1. steering \cup live \in SUBSET Steer
  BY DEF DialogueInv
<1>2. /\ d \in Talk /\ d.max <= AbsoluteTurns
      /\ talk = NoTalk => d.turn = 0 /\ d.used = 0
      /\ talk # NoTalk => d.turn = talk.turn /\ d.used = talk.used
  BY <1>1, OpenedCounts
<1>3. d.turn \in Nat /\ d.max \in Nat /\ d.used \in Nat
  BY <1>2 DEF Talk
<1>4. /\ asked = d.turn /\ asked \in Nat /\ d.used <= MaxToolCalls
      /\ Cardinality(Results) <= d.used
  <2>1. CASE talk = NoTalk
    <3>1. MaxToolCalls \in Nat /\ d.used = 0 /\ d.turn = 0
      BY <1>2, <2>1, InstanceAssumption
    <3>2. asked = 0 /\ Cardinality(Results) = 0
      BY <2>1, FS_EmptySet DEF DialogueInv
    <3> HIDE DEF d
    <3> QED
      BY <3>1, <3>2
  <2>2. CASE talk # NoTalk
    <3>1. /\ asked = talk.turn /\ talk.turn \in Nat /\ talk.used <= MaxToolCalls
          /\ Cardinality(Results) <= talk.used
      BY <2>2 DEF DialogueInv, Ask, Talk
    <3> HIDE DEF d
    <3> QED
      BY <1>2, <2>2, <3>1
  <2> QED
    BY <2>1, <2>2
<1>5. Results' = Results
  <2>1. \A n \in Nat : Result(n) \in known' <=> Result(n) \in known
    BY DEF Ask, Result, Said
  <2> QED
    BY <2>1, SameResults
<1>6. /\ UNCHANGED <<limit, steering, live, bus, calls, said, issued, begun>>
      /\ phase = "queued"
  BY DEF Ask
<1>7. CASE d.turn >= d.max
  <2>1. talk' = d /\ phase' = "checkpoint" /\ shown' = shown /\ asked' = asked
    BY <1>7 DEF Ask, Checkpoint
  <2> HIDE DEF d
  <2> QED
    BY <1>2, <1>3, <1>4, <1>5, <1>6, <2>1, NoTalkIsNone DEF DialogueInv, Phase
<1>8. CASE ~(d.turn >= d.max)
  <2>1. /\ talk' = Instructed(d) /\ phase' = "asking" /\ asked' = asked + 1
        /\ shown' = talk'.previous \cup talk'.next
    BY <1>8 DEF Ask
  <2>2. Same(d, talk')
    <3>1. {Instruction} \in SUBSET AnyItem
      BY DEF AnyItem
    <3>2. Same(d, Say(d, {Instruction})) /\ Same(d, d)
      BY <1>2, <3>1, SayCounts DEF Same
    <3> QED
      BY <2>1, <3>2 DEF Instructed
  <2>3. /\ talk' \in Talk /\ talk'.turn = d.turn /\ talk'.max = d.max
        /\ talk'.used = d.used /\ shown' \subseteq AnyItem
    BY <2>1, <2>2 DEF Same, Talk
  <2>4. asked' \in 0..AbsoluteTurns
    BY <1>2, <1>3, <1>4, <1>8, <2>1, InstanceAssumption
  <2> HIDE DEF d
  <2> QED
    BY <1>2, <1>3, <1>4, <1>5, <1>6, <2>1, <2>3, <2>4, NoTalkIsNone DEF DialogueInv, Phase
<1> QED
  BY <1>7, <1>8

(* Calls are taken within what the profile has left, or turned down.        *)
LEMMA AnswerToolsKeeps == ASSUME DialogueInv, AnswerTools PROVE DialogueInv'
<1>1. PICK n \in 1..MaxBatch : \E b \in [1..n -> Tool] :
        LET d == [Counted(talk) EXCEPT !.recent = LastThree(@ \o b)]
            ids == [i \in DOMAIN b |-> issued + i]
        IN
        /\ phase = "asking"
        /\ issued' = issued + Len(b)
        /\ IF Repeated(d.recent) THEN
             /\ IF d.stuck < MaxStuck
                  THEN Checkpoint(Restarted([d EXCEPT !.stuck = @ + 1]),
                                  "recoverable-stuck")
                  ELSE Checkpoint(Restarted(d), "stuck-exhausted")
             /\ UNCHANGED <<calls, shown>>
           ELSE IF d.used + Len(b) > MaxToolCalls THEN
             /\ Checkpoint(Restarted([d EXCEPT !.tools = FALSE]), "partial-budget")
             /\ UNCHANGED <<calls, shown>>
           ELSE
             /\ talk' = [d EXCEPT !.used = @ + Len(b)]
             /\ calls' = ids
             /\ shown' = shown \cup {Call(ids[i]) : i \in DOMAIN ids}
             /\ phase' = "yielded"
             /\ UNCHANGED verdict
        /\ UNCHANGED <<limit, steering, live, bus, said, known, asked, begun>>
  BY DEF AnswerTools
<1>2. PICK b \in [1..n -> Tool] :
        LET d == [Counted(talk) EXCEPT !.recent = LastThree(@ \o b)]
            ids == [i \in DOMAIN b |-> issued + i]
        IN
        /\ phase = "asking"
        /\ issued' = issued + Len(b)
        /\ IF Repeated(d.recent) THEN
             /\ IF d.stuck < MaxStuck
                  THEN Checkpoint(Restarted([d EXCEPT !.stuck = @ + 1]),
                                  "recoverable-stuck")
                  ELSE Checkpoint(Restarted(d), "stuck-exhausted")
             /\ UNCHANGED <<calls, shown>>
           ELSE IF d.used + Len(b) > MaxToolCalls THEN
             /\ Checkpoint(Restarted([d EXCEPT !.tools = FALSE]), "partial-budget")
             /\ UNCHANGED <<calls, shown>>
           ELSE
             /\ talk' = [d EXCEPT !.used = @ + Len(b)]
             /\ calls' = ids
             /\ shown' = shown \cup {Call(ids[i]) : i \in DOMAIN ids}
             /\ phase' = "yielded"
             /\ UNCHANGED verdict
        /\ UNCHANGED <<limit, steering, live, bus, said, known, asked, begun>>
  BY <1>1
<1> DEFINE d == [Counted(talk) EXCEPT !.recent = LastThree(@ \o b)]
           ids == [i \in DOMAIN b |-> issued + i]
<1>3. n \in Nat /\ b \in Seq(Tool) /\ Len(b) = n /\ DOMAIN b = 1..n /\ issued \in Nat
  <2>1. n \in Nat /\ issued \in Nat
    BY InstanceAssumption DEF DialogueInv
  <2> QED
    BY <2>1
<1>4. /\ phase = "asking" /\ talk # NoTalk /\ talk \in Talk
      /\ asked = talk.turn + 1 /\ talk.used <= MaxToolCalls /\ talk.max <= AbsoluteTurns
      /\ Cardinality(Results) <= talk.used /\ talk.used \in Nat /\ talk.turn \in Nat
  BY <1>2 DEF DialogueInv, Talk
<1>5. /\ d \in Talk /\ d.turn = talk.turn + 1 /\ d.used = talk.used /\ d.max = talk.max
  <2>1. talk.recent \o b \in Seq(Tool)
    BY <1>3, <1>4 DEF Talk
  <2>2. LastThree(talk.recent \o b) \in Seq(Tool)
    <3> DEFINE q == talk.recent \o b
    <3>1. q \in Seq(Tool)
      BY <2>1
    <3> HIDE DEF q
    <3>2. Len(q) \in Nat
      BY <3>1, LenProperties
    <3>3. Len(q) > 3 => SubSeq(q, Len(q) - 2, Len(q)) \in Seq(Tool)
      BY <3>1, <3>2, SubSeqProperties
    <3>4. LastThree(q) \in Seq(Tool)
      BY <3>1, <3>2, <3>3 DEF LastThree
    <3> QED
      BY <3>4 DEF q
  <2>3. /\ Counted(talk) \in Talk /\ Counted(talk).turn = talk.turn + 1
        /\ Counted(talk).recent = talk.recent
        /\ Counted(talk).used = talk.used /\ Counted(talk).max = talk.max
    BY <1>4 DEF Counted, Talk
  <2>4. d = [Counted(talk) EXCEPT !.recent = LastThree(talk.recent \o b)]
    BY <2>3
  <2> HIDE DEF d
  <2> QED
    BY <2>2, <2>3, <2>4 DEF Talk
<1>6. Results' = Results
  BY <1>2 DEF Results
<1>7. /\ UNCHANGED <<limit, steering, live, bus, said, known, asked, begun>>
      /\ issued' \in Nat
  BY <1>2, <1>3
<1> HIDE DEF d
<1>8. ASSUME NEW e \in Talk, NEW status, e.turn = d.turn, e.max = d.max, e.used = d.used,
             Checkpoint(Restarted(e), status), UNCHANGED <<calls, shown>>
      PROVE  DialogueInv'
  <2>1. /\ talk' \in Talk /\ talk'.turn = d.turn /\ talk'.max = d.max /\ talk'.used = d.used
        /\ phase' = "checkpoint"
    BY <1>8, RestartCounts DEF Checkpoint, Same
  <2> QED
    BY <1>4, <1>5, <1>6, <1>7, <1>8, <2>1, NoTalkIsNone DEF DialogueInv, Phase
<1>9. CASE Repeated(d.recent)
  <2>1. [d EXCEPT !.stuck = @ + 1] \in Talk
        /\ [d EXCEPT !.stuck = @ + 1].turn = d.turn /\ [d EXCEPT !.stuck = @ + 1].max = d.max
        /\ [d EXCEPT !.stuck = @ + 1].used = d.used
    <3>1. d.stuck + 1 \in Nat /\ d \in Talk
      BY <1>5 DEF Talk
    <3> QED
      BY <3>1 DEF Talk
  <2> QED
    BY <1>2, <1>5, <1>8, <1>9, <2>1 DEF d
<1>10. CASE ~Repeated(d.recent) /\ d.used + Len(b) > MaxToolCalls
  <2>1. [d EXCEPT !.tools = FALSE] \in Talk
        /\ [d EXCEPT !.tools = FALSE].turn = d.turn /\ [d EXCEPT !.tools = FALSE].max = d.max
        /\ [d EXCEPT !.tools = FALSE].used = d.used
    BY <1>5 DEF Talk
  <2> QED
    BY <1>2, <1>8, <1>10, <2>1 DEF d
<1>11. CASE ~Repeated(d.recent) /\ ~(d.used + Len(b) > MaxToolCalls)
  <2>1. /\ talk' = [d EXCEPT !.used = @ + Len(b)] /\ calls' = ids
        /\ shown' = shown \cup {Call(ids[i]) : i \in DOMAIN ids} /\ phase' = "yielded"
    BY <1>2, <1>11 DEF d
  <2>2. ids \in [1..n -> Nat]
    BY <1>3
  <2>3. calls' \in Seq(Nat) /\ Len(calls') = n
    BY <1>3, <2>1, <2>2, IsASeq
  <2>4. shown' \subseteq AnyItem
    BY <2>1, <2>2 DEF DialogueInv, AnyItem
  <2>5. /\ talk' \in Talk /\ talk'.turn = d.turn /\ talk'.max = d.max
        /\ talk'.used = d.used + n /\ d.used + n <= MaxToolCalls
    <3>1. d.used + n \in Nat /\ Len(b) = n /\ MaxToolCalls \in Nat
      BY SMTT(30), <1>3, <1>4, <1>5, InstanceAssumption
    <3>2. talk' = [d EXCEPT !.used = d.used + n]
      BY <2>1, <3>1
    <3>3. /\ talk' \in Talk /\ talk'.turn = d.turn /\ talk'.max = d.max
          /\ talk'.used = d.used + n
      BY <1>5, <3>1, <3>2 DEF Talk
    <3> QED
      BY <1>11, <3>1, <3>3
  <2>6. Cardinality(Results) \in Nat
    BY ResultsCount
  <2> QED
    <3>1. /\ talk'.turn = talk.turn + 1 /\ talk'.max <= AbsoluteTurns
          /\ asked' = talk.turn + 1 /\ talk'.used = talk.used + n
          /\ talk'.used <= MaxToolCalls /\ Len(calls') = n
      BY <1>4, <1>5, <1>7, <2>3, <2>5
    <3>2. Cardinality(Results') <= talk.used /\ Cardinality(Results') + n <= talk'.used
      BY <1>3, <1>4, <1>6, <2>6, <3>1
    <3>3. Cardinality(Results') <= talk'.used
      BY <1>3, <1>4, <1>6, <2>6, <3>1
    <3>4. talk' # NoTalk
      BY <2>5, NoTalkIsNone
    <3>5. /\ phase' \in Phase /\ phase' = "yielded" /\ limit' \in 1..AbsoluteTurns
          /\ asked' \in 0..AbsoluteTurns
          /\ {steering', live', bus', said'} \subseteq SUBSET Steer /\ begun' \in BOOLEAN
      BY <1>7, <2>1 DEF DialogueInv, Phase
    <3>6. issued' \in Nat /\ talk'.turn \in Nat
      BY <1>7, <2>5 DEF Talk
    <3> QED
      BY <2>3, <2>4, <2>5, <3>1, <3>2, <3>3, <3>4, <3>5, <3>6 DEF DialogueInv
<1> QED
  BY <1>9, <1>10, <1>11

(* The actions that leave what was counted alone.                           *)
LEMMA QuietKeeps ==
  ASSUME DialogueInv, AnswerText \/ Error \/ ApproveFails \/ Deny \/ SteerTeam
  PROVE  DialogueInv'
<1>1. Results' = Results
  BY DEF AnswerText, Error, ApproveFails, Deny, SteerTeam, Results
<1>2. CASE AnswerText
  <2>1. /\ talk' = Counted(talk) /\ phase = "asking" /\ phase' \in {"completed", "checkpoint"}
        /\ UNCHANGED <<limit, steering, live, bus, shown, calls, said, known, issued,
                       asked, begun>>
    BY <1>2 DEF AnswerText, Checkpoint
  <2>2. /\ talk \in Talk /\ talk.max <= AbsoluteTurns /\ asked = talk.turn + 1
        /\ talk.used <= MaxToolCalls /\ Cardinality(Results) <= talk.used
    BY <2>1 DEF DialogueInv
  <2>3. /\ talk' \in Talk /\ talk'.turn = talk.turn + 1 /\ talk'.used = talk.used
        /\ talk'.max = talk.max /\ talk.turn \in Nat
    BY <2>1, <2>2 DEF Counted, Talk
  <2> QED
    BY <1>1, <2>1, <2>2, <2>3, NoTalkIsNone DEF DialogueInv, Phase
<1>3. CASE Error
  BY <1>1, <1>3 DEF Error, DialogueInv, Phase
<1>4. CASE ApproveFails \/ Deny
  BY <1>1, <1>4 DEF ApproveFails, Deny, DialogueInv, Phase
<1>5. CASE SteerTeam
  <2>1. PICK s \in Steer : said' = said \cup {s} /\ bus' = bus \cup {s} /\ live' = live \cup {s}
    BY <1>5 DEF SteerTeam
  <2>2. {steering', live', bus', said'} \subseteq SUBSET Steer
    BY <1>5, <2>1 DEF SteerTeam, DialogueInv
  <2>3. UNCHANGED <<phase, talk, limit, steering, shown, calls, verdict, known,
                    issued, asked, begun>>
    BY <1>5 DEF SteerTeam
  <2> QED
    BY <1>1, <2>2, <2>3 DEF DialogueInv
<1> QED
  BY <1>2, <1>3, <1>4, <1>5

(* A longer limit, or none and the dialogue has failed.                     *)
LEMMA ExtendKeeps == ASSUME DialogueInv, Extend PROVE DialogueInv'
<1> DEFINE next == NextLimit(verdict, talk.turn)
<1>1. /\ phase = "checkpoint" /\ talk # NoTalk /\ talk \in Talk /\ talk.turn \in Nat
      /\ limit \in 1..AbsoluteTurns /\ asked = talk.turn
      /\ UNCHANGED <<steering, bus, shown, calls, verdict, said, known, issued, asked, begun>>
      /\ Results' = Results
  BY DEF Extend, DialogueInv, Talk, Results
<1>2. CASE next > 0
  <2>1. /\ limit' = next /\ talk' = [talk EXCEPT !.max = next] /\ phase' = "queued"
        /\ live' = {}
    BY <1>2 DEF Extend, NewBatch
  <2>2. next \in 1..AbsoluteTurns
    BY <1>1, <1>2, LimitGranted
  <2>3. next \in Nat /\ next <= AbsoluteTurns
    BY <2>2
  <2> HIDE DEF next
  <2>4. /\ talk' \in Talk /\ talk'.turn = talk.turn /\ talk'.used = talk.used
        /\ talk'.max = next
    BY <1>1, <2>1, <2>3 DEF Talk
  <2> QED
    BY <1>1, <2>1, <2>2, <2>3, <2>4, NoTalkIsNone DEF DialogueInv, Phase
<1>3. CASE ~(next > 0)
  <2>1. phase' = "failed" /\ UNCHANGED <<limit, talk, live>>
    BY <1>3 DEF Extend
  <2> QED
    BY <1>1, <2>1 DEF DialogueInv, Phase
<1> QED
  BY <1>2, <1>3

(* The calls of a response are run.                                         *)
LEMMA YieldKeeps == ASSUME DialogueInv, Yield PROVE DialogueInv'
<1> DEFINE d == IF talk.chained THEN [talk EXCEPT !.previous = shown, !.next = {}] ELSE talk
<1>1. phase = "yielded" /\ RunCalls(d, calls, {})
      /\ UNCHANGED <<limit, shown, verdict, said, issued, asked, begun>>
  BY DEF Yield
<1>2. talk # NoTalk /\ talk \in Talk /\ shown \in SUBSET AnyItem /\ calls \in Seq(Nat)
  BY <1>1 DEF DialogueInv
<1>3. d \in Talk /\ d.turn = talk.turn /\ d.max = talk.max /\ d.used = talk.used
  BY <1>2 DEF Talk
<1> HIDE DEF d
<1> QED
  BY <1>1, <1>2, <1>3, RunCounts

(* The call that waited for the user is answered, then the others run.      *)
LEMMA ApproveKeeps == ASSUME DialogueInv, Approve PROVE DialogueInv'
<1> DEFINE d == Answered(talk, {Head(calls)})
<1>1. phase = "approval" /\ RunCalls(d, Tail(calls), bus)
      /\ UNCHANGED <<limit, shown, verdict, said, issued, asked, begun>>
  BY DEF Approve
<1>2. talk # NoTalk /\ talk \in Talk /\ calls \in Seq(Nat) /\ calls # <<>> /\ bus \in SUBSET Steer
  BY <1>1 DEF DialogueInv
<1>3. Head(calls) \in Nat /\ Tail(calls) \in Seq(Nat)
  BY <1>2
<1>4. {Head(calls)} \in SUBSET Nat
  BY <1>3
<1>5. d \in Talk /\ d.turn = talk.turn /\ d.max = talk.max /\ d.used = talk.used
  BY <1>2, <1>4, AnswerCounts DEF Same
<1> HIDE DEF d
<1> QED
  BY <1>1, <1>2, <1>3, <1>5, RunCounts

(* Every step of a dialogue.                                                *)
LEMMA DialogueKeeps == ASSUME DialogueInv, [Next]_vars PROVE DialogueInv'
<1>1. CASE UNCHANGED vars
  <2>1. Results' = Results
    BY <1>1 DEF vars, Results
  <2> QED
    BY <1>1, <2>1 DEF vars, DialogueInv
<1> QED
  BY <1>1, AskKeeps, AnswerToolsKeeps, QuietKeeps, ExtendKeeps, YieldKeeps, ApproveKeeps
     DEF Next, Execute, Foreground, User

(* What is kept bounds the requests and the calls.                          *)
LEMMA DialogueWithin == DialogueInv => BudgetHolds
<1> SUFFICES ASSUME DialogueInv PROVE BudgetHolds
  OBVIOUS
<1>1. Cardinality({}) = 0 /\ MaxToolCalls \in Nat
  BY FS_EmptySet, InstanceAssumption
<1>2. Cardinality(Results) <= MaxToolCalls
  <2>1. CASE talk = NoTalk
    <3>1. Results = {}
      BY <2>1 DEF DialogueInv
    <3> QED
      BY <1>1, <3>1
  <2>2. CASE talk # NoTalk
    <3>1. /\ Cardinality(Results) <= talk.used /\ talk.used <= MaxToolCalls /\ talk.used \in Nat
      BY <2>2 DEF DialogueInv, Talk
    <3> QED
      BY <1>1, <3>1, ResultsCount
  <2> QED
    BY <2>1, <2>2
<1> QED
  BY <1>2 DEF BudgetHolds, Results, DialogueInv


-----------------------------------------------------------------------------
(* What a dialogue tells its model.  A transcript has each call with its    *)
(* result; what was told in a chain lacks the results of the calls that are *)
(* still open.                                                              *)
Paired(items) == \A n \in Nat : Call(n) \in items <=> Result(n) \in items
Awaits(items, open) ==
  \A n \in Nat : Call(n) \in items <=> Result(n) \in items \/ n \in open

Told(d) == d.previous \cup d.next
OpenOf(s) == {s[i] : i \in DOMAIN s}

(* What d holds of what the run has been given, begin it chained or not.    *)
Kept(d, given, chain) ==
  /\ Paired(d.transcript)
  /\ d.chained => chain /\ given \subseteq Told(d)
  /\ ~d.chained => d.previous = {}
  /\ ~chain => given \subseteq d.transcript

(* d can be sent.                                                           *)
Ready(d) == IF d.chained THEN Paired(Told(d)) ELSE d.next = d.transcript

TalkBooks ==
  /\ talk = NoTalk => known = {}
  /\ talk # NoTalk =>
       /\ Kept(talk, known, begun)
       /\ phase \in {"queued", "asking", "checkpoint"} => Ready(talk)
       /\ phase = "asking" => shown = Told(talk)
       /\ phase = "yielded" /\ talk.chained =>
            Told(talk) \subseteq shown /\ Awaits(shown, OpenOf(calls))
       /\ phase = "approval" /\ talk.chained => Awaits(Told(talk), OpenOf(calls))

(* No two items are the same.                                               *)
LEMMA ItemsDiffer ==
  /\ \A n \in Nat : \A m \in Nat :
       /\ Call(n) # Result(m)
       /\ Call(n) = Call(m) => n = m
       /\ Result(n) = Result(m) => n = m
  /\ \A n \in Nat : /\ Objective # Call(n) /\ Objective # Result(n)
                    /\ Instruction # Call(n) /\ Instruction # Result(n)
  /\ \A n \in Nat, s \in Steer : <<"steer", s>> # Call(n) /\ <<"steer", s>> # Result(n)
BY DEF Call, Result, Objective, Instruction

(* What is no call and no result.                                           *)
Plain(items) == \A n \in Nat : Call(n) \notin items /\ Result(n) \notin items

(* The objective, instructions and what the user says are neither.          *)
LEMMA SaidIsPlain ==
  /\ Plain({Instruction}) /\ Plain({Objective})
  /\ \A messages \in SUBSET Steer : Plain(Said(messages)) /\ Plain({Objective} \cup Said(messages))
BY ItemsDiffer DEF Plain, Said

(* What is said is told, and stays told.                                    *)
LEMMA SayKeepsTold ==
  ASSUME NEW d \in Talk, NEW given, NEW chain \in BOOLEAN, Kept(d, given, chain), Ready(d),
         NEW items \in SUBSET AnyItem, Plain(items), NEW new \in SUBSET items
  PROVE  /\ Kept(Say(d, items), given \cup new, chain) /\ Ready(Say(d, items))
         /\ Say(d, items) \in Talk
<1>1. /\ Say(d, items) \in Talk /\ Say(d, items).chained = d.chained
      /\ Say(d, items).previous = d.previous /\ Say(d, items).next = d.next \cup items
      /\ Say(d, items).transcript
           = IF d.chained THEN d.transcript ELSE d.transcript \cup items
  BY DEF Say, Talk
<1> DEFINE e == Say(d, items)
<1> HIDE DEF e
<1>2. /\ e.chained = d.chained /\ e.previous = d.previous /\ e.next = d.next \cup items
      /\ e.transcript = IF d.chained THEN d.transcript ELSE d.transcript \cup items
      /\ d.chained \in BOOLEAN
  BY <1>1 DEF e, Talk
<1>3. Paired(d.transcript) => Paired(d.transcript \cup items)
  BY DEF Paired, Plain
<1>4. Paired(Told(d)) => Paired(Told(e))
  BY <1>2 DEF Paired, Plain, Told
<1>5. Kept(e, given \cup new, chain)
  BY <1>2, <1>3 DEF Kept, Told
<1>6. Ready(e)
  BY <1>2, <1>4 DEF Ready
<1> QED
  BY <1>1, <1>5, <1>6 DEF e

(* A dialogue that is restarted can be sent.                                *)
LEMMA RestartKeepsTold ==
  ASSUME NEW d \in Talk, NEW given, NEW chain \in BOOLEAN, Kept(d, given, chain)
  PROVE  /\ Kept(Restarted(d), given, chain) /\ Ready(Restarted(d))
<1> DEFINE e == [d EXCEPT !.previous = NoResponse, !.chained = FALSE, !.next = d.transcript]
<1>1. /\ e \in Talk /\ e.chained = FALSE /\ e.previous = {} /\ e.next = d.transcript
      /\ e.transcript = d.transcript
  BY DEF Talk, NoResponse
<1>2. Restarted(d) = Say(e, {Instruction})
  BY DEF Restarted
<1> HIDE DEF e
<1>3. Kept(e, given, chain) /\ Ready(e)
  BY <1>1 DEF Kept, Ready
<1>4. {Instruction} \in SUBSET AnyItem /\ Plain({Instruction}) /\ {} \in SUBSET {Instruction}
  BY SaidIsPlain DEF AnyItem
<1>5. Kept(Say(e, {Instruction}), given \cup {}, chain) /\ Ready(Say(e, {Instruction}))
  BY <1>1, <1>3, <1>4, SayKeepsTold
<1>6. given \cup {} = given
  OBVIOUS
<1> QED
  BY <1>2, <1>5, <1>6

(* Calls are answered: those that stay open are the others.                 *)
LEMMA AnswersAreTold ==
  ASSUME NEW d \in Talk, NEW given, NEW chain \in BOOLEAN, Kept(d, given, chain),
         NEW ids \in SUBSET Nat, NEW rest
  PROVE  LET e == Answered(d, ids) IN
         /\ e \in Talk /\ e.chained = d.chained
         /\ Kept(e, given \cup {Result(n) : n \in ids}, chain)
         /\ d.chained /\ Awaits(Told(d), ids \cup rest) => Awaits(Told(e), rest)
<1> DEFINE e == Answered(d, ids)
           results == {Result(n) : n \in ids}
           both == {Call(n) : n \in ids} \cup results
<1>1. /\ e \in Talk /\ e.chained = d.chained /\ e.previous = d.previous
      /\ IF d.chained THEN e.next = d.next \cup results /\ e.transcript = d.transcript
         ELSE e.next = d.next /\ e.transcript = d.transcript \cup both
  <2>1. both \subseteq AnyItem /\ results \subseteq AnyItem
    BY DEF AnyItem
  <2> HIDE DEF results
  <2>2. e = IF d.chained THEN [d EXCEPT !.next = @ \cup results]
            ELSE [d EXCEPT !.transcript = @ \cup {Call(n) : n \in ids} \cup results]
    BY DEF Answered, results
  <2>3. d.transcript \cup {Call(n) : n \in ids} \cup results = d.transcript \cup both
    OBVIOUS
  <2> HIDE DEF e, both
  <2> QED
    BY <2>1, <2>2, <2>3 DEF Talk
<1>2. \A n \in Nat : /\ Result(n) \in results <=> n \in ids
                     /\ Call(n) \notin results
                     /\ Result(n) \in both <=> n \in ids
                     /\ Call(n) \in both <=> n \in ids
  BY ItemsDiffer
<1>3. results \subseteq both
  OBVIOUS
<1> HIDE DEF e, results, both
<1>4. Kept(e, given \cup results, chain)
  <2>1. Paired(d.transcript) => Paired(d.transcript \cup both)
    BY <1>2 DEF Paired
  <2> QED
    BY <1>1, <1>3, <2>1 DEF Kept, Told
<1>5. d.chained /\ Awaits(Told(d), ids \cup rest) => Awaits(Told(e), rest)
  BY <1>1, <1>2 DEF Awaits, Told
<1> QED
  BY <1>1, <1>4, <1>5 DEF e, results

(* When no call is open the dialogue can be sent.                           *)
LEMMA ContinuedIsReady ==
  ASSUME NEW d \in Talk, NEW given, NEW chain \in BOOLEAN, Kept(d, given, chain),
         d.chained => Awaits(Told(d), {})
  PROVE  Kept(Continued(d), given, chain) /\ Ready(Continued(d))
<1>1. CASE d.chained
  BY <1>1 DEF Continued, Ready, Paired, Awaits
<1>2. CASE ~d.chained
  <2> DEFINE e == [d EXCEPT !.previous = NoResponse, !.next = d.transcript]
  <2>1. /\ e.chained = d.chained /\ e.previous = {} /\ e.next = d.transcript
        /\ e.transcript = d.transcript
    BY DEF Talk, NoResponse
  <2>2. Continued(d) = e
    BY <1>2 DEF Continued
  <2> HIDE DEF e
  <2>3. Kept(e, given, chain) /\ Ready(e)
    BY <1>2, <2>1 DEF Kept, Ready
  <2> QED
    BY <2>2, <2>3
<1> QED
  BY <1>1, <1>2

(* The calls of a sequence, the first k and the others.                     *)
LEMMA OpenSplits ==
  ASSUME NEW s \in Seq(Nat), NEW k \in 0..Len(s)
  PROVE  OpenOf(s) = {s[i] : i \in 1..k} \cup OpenOf(SubSeq(s, k + 1, Len(s)))
<1> DEFINE t == SubSeq(s, k + 1, Len(s))
<1>1. /\ Len(s) \in Nat /\ k \in Nat /\ k <= Len(s) /\ DOMAIN s = 1..Len(s)
  BY LenProperties
<1>2. /\ t \in Seq(Nat) /\ Len(t) = Len(s) - k
      /\ \A i \in 1..Len(t) : t[i] = s[i + k]
  <2>1. k + 1 \in Int /\ Len(s) \in Int /\ \A i \in k + 1 .. Len(s) : s[i] \in Nat
    BY <1>1
  <2>2. /\ t \in Seq(Nat) /\ Len(t) = Len(s) - (k + 1) + 1
        /\ \A i \in 1..(Len(s) - (k + 1) + 1) : t[i] = s[(k + 1) + i - 1]
    BY <2>1, SubSeqProperties
  <2> HIDE DEF t
  <2>3. Len(t) = Len(s) - k /\ Len(t) = Len(s) - (k + 1) + 1
    BY <1>1, <2>2
  <2>4. ASSUME NEW i \in 1..Len(t) PROVE t[i] = s[i + k]
    <3>1. (k + 1) + i - 1 = i + k
      BY <1>1, <2>4
    <3>2. t[i] = s[(k + 1) + i - 1]
      BY ONLY <2>2, <2>3, <2>4
    <3> QED
      BY ONLY <3>1, <3>2
  <2> QED
    BY <2>2, <2>3, <2>4
<1>3. DOMAIN t = 1..(Len(s) - k) /\ \A i \in 1..(Len(s) - k) : t[i] = s[i + k]
  BY <1>2
<1> HIDE DEF t
<1>4. ASSUME NEW i \in 1..Len(s), i \notin 1..k
      PROVE  s[i] \in OpenOf(t)
  <2>1. i - k \in DOMAIN t /\ t[i - k] = s[i]
    BY <1>1, <1>3, <1>4
  <2> QED
    BY <2>1 DEF OpenOf
<1>5. ASSUME NEW i \in DOMAIN t
      PROVE  t[i] \in OpenOf(s)
  <2>1. i + k \in DOMAIN s /\ t[i] = s[i + k]
    BY <1>1, <1>3, <1>5
  <2> QED
    BY <2>1 DEF OpenOf
<1>6. {s[i] : i \in 1..k} \subseteq OpenOf(s)
  BY <1>1 DEF OpenOf
<1>7. OpenOf(s) \subseteq {s[i] : i \in 1..k} \cup OpenOf(t)
  BY <1>1, <1>4 DEF OpenOf
<1>8. OpenOf(t) \subseteq OpenOf(s)
  BY <1>5 DEF OpenOf
<1>9. OpenOf(s) = {s[i] : i \in 1..k} \cup OpenOf(t)
  BY <1>6, <1>7, <1>8
<1> QED
  BY <1>9 DEF t

(* The first call and the others.                                           *)
LEMMA OpenHead ==
  ASSUME NEW s \in Seq(Nat), s # <<>>
  PROVE  OpenOf(s) = {Head(s)} \cup OpenOf(Tail(s))
<1>1. Len(s) \in Nat /\ Head(s) = s[1] /\ DOMAIN s = 1..Len(s) /\ Len(s) # 0
  BY LenProperties, HeadTailProperties
<1>2. /\ Tail(s) \in Seq(Nat) /\ Len(Tail(s)) = Len(s) - 1
      /\ \A i \in 1..Len(Tail(s)) : Tail(s)[i] = s[i + 1]
  BY HeadTailProperties
<1> DEFINE t == Tail(s)
<1>3. DOMAIN t = 1..(Len(s) - 1) /\ \A i \in 1..(Len(s) - 1) : t[i] = s[i + 1]
  BY <1>2
<1> HIDE DEF t
<1>4. ASSUME NEW i \in 1..Len(s), i # 1 PROVE s[i] \in OpenOf(t)
  <2>1. i - 1 \in DOMAIN t /\ t[i - 1] = s[i]
    BY <1>1, <1>3, <1>4
  <2> QED
    BY <2>1 DEF OpenOf
<1>5. ASSUME NEW i \in DOMAIN t PROVE t[i] \in OpenOf(s)
  <2>1. i + 1 \in DOMAIN s /\ t[i] = s[i + 1]
    BY <1>1, <1>3, <1>5
  <2> QED
    BY <2>1 DEF OpenOf
<1>6. 1 \in 1..Len(s) /\ s[1] \in OpenOf(s)
  BY <1>1 DEF OpenOf
<1>7. OpenOf(t) \subseteq OpenOf(s)
  BY <1>5 DEF OpenOf
<1>8. OpenOf(s) \subseteq {s[1]} \cup OpenOf(t)
  BY <1>1, <1>4 DEF OpenOf
<1>9. OpenOf(s) = {s[1]} \cup OpenOf(t)
  BY <1>6, <1>7, <1>8
<1> QED
  BY <1>1, <1>9 DEF t


(* The calls are run: what a chained dialogue is told next has the results, *)
(* a transcript has calls and results.                                      *)
LEMMA RunTold ==
  ASSUME DialogueInv, talk # NoTalk, NEW d \in Talk, NEW rest \in Seq(Nat), NEW fresh,
         Kept(d, known \cup (IF phase = "approval" THEN {Result(Head(calls))} ELSE {}), begun),
         d.chained => Awaits(Told(d), OpenOf(rest)),
         RunCalls(d, rest, fresh), begun' = begun
  PROVE  TalkBooks'
<1> DEFINE given == known \cup (IF phase = "approval" THEN {Result(Head(calls))} ELSE {})
<1>1. PICK k \in 0..Len(rest) :
        LET ids == {rest[i] : i \in 1..k} IN
        /\ calls' = SubSeq(rest, k + 1, Len(rest))
        /\ known' = known \cup {Result(n) : n \in ids}
                          \cup (IF phase = "approval" THEN {Result(Head(calls))} ELSE {})
        /\ IF k = Len(rest)
             THEN /\ talk' = Continued(Answered(d, ids))
                  /\ steering' = fresh
                  /\ bus' = bus \ fresh
                  /\ NewBatch
             ELSE /\ talk' = Answered(d, ids)
                  /\ phase' \in {"approval", "stranded"}
                  /\ UNCHANGED <<steering, bus, live>>
  BY DEF RunCalls
<1> DEFINE ids == {rest[i] : i \in 1..k}
           e == Answered(d, ids)
<1>2. ids \in SUBSET Nat /\ k \in Nat /\ Len(rest) \in Nat
  BY LenProperties
<1>3. OpenOf(rest) = ids \cup OpenOf(calls')
  BY <1>1, OpenSplits
<1>4. known' = given \cup {Result(n) : n \in ids}
  BY <1>1
<1>5. begun \in BOOLEAN
  BY DEF DialogueInv
<1>6. Kept(d, given, begun)
  OBVIOUS
<1> HIDE DEF given, ids
<1>7. /\ e \in Talk /\ e.chained = d.chained
      /\ Kept(e, given \cup {Result(n) : n \in ids}, begun)
      /\ d.chained /\ Awaits(Told(d), ids \cup OpenOf(calls')) => Awaits(Told(e), OpenOf(calls'))
  BY <1>2, <1>5, <1>6, AnswersAreTold
<1>8. e.chained => Awaits(Told(e), OpenOf(calls'))
  BY <1>3, <1>7
<1>9. IF k = Len(rest) THEN talk' = Continued(e) /\ phase' = "queued"
      ELSE talk' = e /\ phase' \in {"approval", "stranded"}
  BY <1>1 DEF NewBatch, ids
<1> HIDE DEF e
<1>10. e # NoTalk
  BY <1>7, NoTalkIsNone
<1>11. CASE k = Len(rest)
  <2>1. OpenOf(calls') = {}
    <3>1. calls' = SubSeq(rest, k + 1, Len(rest)) /\ k + 1 \in Int /\ Len(rest) \in Int
      BY <1>1, <1>2
    <3>2. calls' = <<>>
      BY <1>2, <1>11, <3>1, SubSeqEmpty
    <3> QED
      BY <3>2 DEF OpenOf
  <2>2. Kept(talk', known', begun) /\ Ready(talk')
    BY <1>4, <1>5, <1>7, <1>8, <1>9, <1>11, <2>1, ContinuedIsReady
  <2>3. talk' # NoTalk
    <3>1. talk' \in Talk
      BY <1>7, <1>9, <1>11 DEF Continued, Talk, NoResponse
    <3> QED
      BY <3>1, NoTalkIsNone
  <2> QED
    BY <1>9, <1>11, <2>2, <2>3 DEF TalkBooks
<1>12. CASE k # Len(rest)
  <2>1. talk' = e /\ phase' \in {"approval", "stranded"}
    BY <1>9, <1>12
  <2> QED
    BY <1>4, <1>7, <1>8, <1>10, <2>1 DEF TalkBooks
<1> QED
  BY <1>11, <1>12

(* A chained dialogue goes on from the response, which remembers its calls. *)
LEMMA YieldTells == ASSUME DialogueInv, TalkBooks, Yield PROVE TalkBooks'
<1> DEFINE d == IF talk.chained THEN [talk EXCEPT !.previous = shown, !.next = {}] ELSE talk
<1>1. phase = "yielded" /\ RunCalls(d, calls, {}) /\ begun' = begun
  BY DEF Yield
<1>2. /\ talk # NoTalk /\ talk \in Talk /\ shown \in SUBSET AnyItem /\ calls \in Seq(Nat)
      /\ Kept(talk, known, begun)
      /\ talk.chained => Told(talk) \subseteq shown /\ Awaits(shown, OpenOf(calls))
  BY <1>1 DEF DialogueInv, TalkBooks
<1>3. /\ d \in Talk /\ d.chained = talk.chained /\ d.transcript = talk.transcript
      /\ talk.chained => Told(d) = shown
      /\ ~talk.chained => d = talk
  BY <1>2 DEF Talk, Told
<1> HIDE DEF d
<1>4. Kept(d, known, begun)
  BY <1>2, <1>3 DEF Kept
<1>5. d.chained => Awaits(Told(d), OpenOf(calls))
  BY <1>2, <1>3
<1>6. known \cup (IF phase = "approval" THEN {Result(Head(calls))} ELSE {}) = known
  BY <1>1
<1> QED
  BY <1>1, <1>2, <1>3, <1>4, <1>5, <1>6, RunTold

(* The call that waited for the user has its result.                        *)
LEMMA ApproveTells == ASSUME DialogueInv, TalkBooks, Approve PROVE TalkBooks'
<1> DEFINE d == Answered(talk, {Head(calls)})
           given == known \cup {Result(Head(calls))}
<1>1. phase = "approval" /\ RunCalls(d, Tail(calls), bus) /\ begun' = begun
  BY DEF Approve
<1>2. /\ talk # NoTalk /\ talk \in Talk /\ calls \in Seq(Nat) /\ calls # <<>>
      /\ Kept(talk, known, begun) /\ begun \in BOOLEAN
      /\ talk.chained => Awaits(Told(talk), OpenOf(calls))
  BY <1>1 DEF DialogueInv, TalkBooks
<1>3. Head(calls) \in Nat /\ Tail(calls) \in Seq(Nat) /\ {Head(calls)} \in SUBSET Nat
  BY <1>2
<1>4. OpenOf(calls) = {Head(calls)} \cup OpenOf(Tail(calls))
  BY <1>2, OpenHead
<1>5. /\ d \in Talk /\ d.chained = talk.chained
      /\ Kept(d, known \cup {Result(n) : n \in {Head(calls)}}, begun)
      /\ talk.chained /\ Awaits(Told(talk), {Head(calls)} \cup OpenOf(Tail(calls)))
           => Awaits(Told(d), OpenOf(Tail(calls)))
  BY <1>2, <1>3, AnswersAreTold
<1>6. {Result(n) : n \in {Head(calls)}} = {Result(Head(calls))}
  OBVIOUS
<1> HIDE DEF d
<1>7. Kept(d, given, begun)
  BY <1>5, <1>6
<1>8. d.chained => Awaits(Told(d), OpenOf(Tail(calls)))
  BY <1>2, <1>4, <1>5
<1>9. known \cup (IF phase = "approval" THEN {Result(Head(calls))} ELSE {}) = given
  BY <1>1
<1> HIDE DEF given
<1> QED
  BY <1>1, <1>2, <1>3, <1>5, <1>7, <1>8, <1>9, RunTold

(* A new dialogue is told its objective, and any what the user has said.    *)
LEMMA AskTells == ASSUME DialogueInv, TalkBooks, Ask PROVE TalkBooks'
<1> DEFINE messages == steering \cup live
           d == Opened(messages)
<1>1. /\ messages \in SUBSET Steer /\ begun \in BOOLEAN /\ begun' = begun /\ phase = "queued"
      /\ known' = known \cup Said(messages)
  BY DEF DialogueInv, Ask
<1>2. /\ Said(messages) \in SUBSET AnyItem /\ Plain(Said(messages))
      /\ Plain({Objective} \cup Said(messages))
  BY <1>1, SaidIsPlain DEF AnyItem, Said
<1>3. d \in Talk
  BY <1>1, OpenedCounts
<1> HIDE DEF messages
<1>4. Kept(d, known', begun) /\ Ready(d)
  <2>1. CASE talk = NoTalk
    <3>1. known' = Said(messages)
      BY <1>1, <2>1 DEF TalkBooks
    <3> DEFINE input == {Objective} \cup Said(messages)
    <3>2. /\ d.transcript = input /\ d.next = input /\ d.previous = {} /\ d.chained = begun
      BY <2>1 DEF Opened, NoResponse
    <3>3. Paired(input) /\ Said(messages) \subseteq input
      BY <1>2 DEF Paired, Plain
    <3> HIDE DEF d, input
    <3>4. Paired(Told(d))
      <4>1. Told(d) = input
        BY <3>2 DEF Told
      <4> QED
        BY <3>3, <4>1
    <3>5. known' \subseteq Told(d)
      BY <3>1, <3>2, <3>3 DEF Told
    <3> QED
      BY <1>1, <3>1, <3>2, <3>3, <3>4, <3>5 DEF Kept, Ready
  <2>2. CASE talk # NoTalk
    <3> DEFINE e == [talk EXCEPT !.max = IF limit > @ THEN limit ELSE @]
    <3>1. talk \in Talk /\ Kept(talk, known, begun) /\ Ready(talk) /\ limit \in Nat
      BY <1>1, <2>2, InstanceAssumption DEF TalkBooks, DialogueInv
    <3>2. /\ e \in Talk /\ e.transcript = talk.transcript /\ e.next = talk.next
          /\ e.previous = talk.previous /\ e.chained = talk.chained
      BY <3>1 DEF Talk
    <3>3. d = Say(e, Said(messages))
      BY <2>2 DEF Opened
    <3> HIDE DEF d, e
    <3>4. Kept(e, known, begun) /\ Ready(e)
      BY <3>1, <3>2 DEF Kept, Ready, Told
    <3> QED
      BY <1>1, <1>2, <3>2, <3>3, <3>4, SayKeepsTold
  <2> QED
    BY <2>1, <2>2
<1>5. d # NoTalk
  BY <1>3, NoTalkIsNone
<1>6. CASE d.turn >= d.max
  <2>1. talk' = d /\ phase' = "checkpoint"
    BY <1>6 DEF Ask, Checkpoint, messages
  <2> HIDE DEF d
  <2> QED
    BY <1>1, <1>4, <1>5, <2>1 DEF TalkBooks
<1>7. CASE ~(d.turn >= d.max)
  <2>1. talk' = Instructed(d) /\ phase' = "asking" /\ shown' = Told(talk')
    BY <1>7 DEF Ask, Told, messages
  <2>2. {Instruction} \in SUBSET AnyItem /\ Plain({Instruction}) /\ {} \in SUBSET {Instruction}
    BY SaidIsPlain DEF AnyItem
  <2> HIDE DEF d
  <2>3. /\ Kept(Say(d, {Instruction}), known' \cup {}, begun) /\ Ready(Say(d, {Instruction}))
        /\ Say(d, {Instruction}) \in Talk
    BY <1>1, <1>3, <1>4, <2>2, SayKeepsTold
  <2>4. known' \cup {} = known'
    OBVIOUS
  <2>5. talk' \in {d, Say(d, {Instruction})}
    BY <2>1 DEF Instructed
  <2>6. Kept(talk', known', begun) /\ Ready(talk') /\ talk' # NoTalk
    BY <1>4, <1>5, <2>3, <2>4, <2>5, NoTalkIsNone
  <2> QED
    BY <1>1, <2>1, <2>6 DEF TalkBooks
<1> QED
  BY <1>6, <1>7

(* The model's calls are shown by the response; calls that are turned down  *)
(* are not, the dialogue being restarted from its transcript.               *)
LEMMA AnswerToolsTells == ASSUME DialogueInv, TalkBooks, AnswerTools PROVE TalkBooks'
<1>1. PICK n \in 1..MaxBatch : \E b \in [1..n -> Tool] :
        LET d == [Counted(talk) EXCEPT !.recent = LastThree(@ \o b)]
            ids == [i \in DOMAIN b |-> issued + i]
        IN
        /\ phase = "asking"
        /\ IF Repeated(d.recent) THEN
             /\ IF d.stuck < MaxStuck
                  THEN Checkpoint(Restarted([d EXCEPT !.stuck = @ + 1]),
                                  "recoverable-stuck")
                  ELSE Checkpoint(Restarted(d), "stuck-exhausted")
             /\ UNCHANGED <<calls, shown>>
           ELSE IF d.used + Len(b) > MaxToolCalls THEN
             /\ Checkpoint(Restarted([d EXCEPT !.tools = FALSE]), "partial-budget")
             /\ UNCHANGED <<calls, shown>>
           ELSE
             /\ talk' = [d EXCEPT !.used = @ + Len(b)]
             /\ calls' = ids
             /\ shown' = shown \cup {Call(ids[i]) : i \in DOMAIN ids}
             /\ phase' = "yielded"
             /\ UNCHANGED verdict
        /\ UNCHANGED <<known, begun>>
  BY DEF AnswerTools
<1>2. PICK b \in [1..n -> Tool] :
        LET d == [Counted(talk) EXCEPT !.recent = LastThree(@ \o b)]
            ids == [i \in DOMAIN b |-> issued + i]
        IN
        /\ phase = "asking"
        /\ IF Repeated(d.recent) THEN
             /\ IF d.stuck < MaxStuck
                  THEN Checkpoint(Restarted([d EXCEPT !.stuck = @ + 1]),
                                  "recoverable-stuck")
                  ELSE Checkpoint(Restarted(d), "stuck-exhausted")
             /\ UNCHANGED <<calls, shown>>
           ELSE IF d.used + Len(b) > MaxToolCalls THEN
             /\ Checkpoint(Restarted([d EXCEPT !.tools = FALSE]), "partial-budget")
             /\ UNCHANGED <<calls, shown>>
           ELSE
             /\ talk' = [d EXCEPT !.used = @ + Len(b)]
             /\ calls' = ids
             /\ shown' = shown \cup {Call(ids[i]) : i \in DOMAIN ids}
             /\ phase' = "yielded"
             /\ UNCHANGED verdict
        /\ UNCHANGED <<known, begun>>
  BY <1>1
<1> DEFINE d == [Counted(talk) EXCEPT !.recent = LastThree(@ \o b)]
           ids == [i \in DOMAIN b |-> issued + i]
<1>3. /\ phase = "asking" /\ talk # NoTalk /\ talk \in Talk /\ talk.turn \in Nat
      /\ Kept(talk, known, begun) /\ Ready(talk) /\ shown = Told(talk)
      /\ begun \in BOOLEAN /\ begun' = begun /\ known' = known
  BY <1>2 DEF DialogueInv, TalkBooks, Talk
<1>4. n \in Nat /\ b \in Seq(Tool) /\ DOMAIN b = 1..n /\ issued \in Nat
  <2>1. n \in Nat /\ issued \in Nat
    <3>1. MaxBatch \in Nat /\ n \in 1..MaxBatch
      BY InstanceAssumption
    <3>2. issued \in Nat
      BY ONLY DialogueInv DEF DialogueInv
    <3> QED
      BY ONLY <3>1, <3>2
  <2> QED
    BY <2>1
<1>5. /\ d \in Talk /\ d.transcript = talk.transcript /\ d.next = talk.next
      /\ d.previous = talk.previous /\ d.chained = talk.chained
  <2>1. /\ Counted(talk) \in Talk /\ Counted(talk).transcript = talk.transcript
        /\ Counted(talk).next = talk.next /\ Counted(talk).previous = talk.previous
        /\ Counted(talk).chained = talk.chained /\ Counted(talk).recent = talk.recent
    BY ONLY SMTT(30), <1>3 DEF Counted, Talk
  <2>2. LastThree(talk.recent \o b) \in Seq(Tool)
    <3> DEFINE q == talk.recent \o b
    <3>1. q \in Seq(Tool)
      BY <1>3, <1>4 DEF Talk
    <3> HIDE DEF q
    <3>2. Len(q) \in Nat
      BY <3>1, LenProperties
    <3>3. Len(q) > 3 => SubSeq(q, Len(q) - 2, Len(q)) \in Seq(Tool)
      BY <3>1, <3>2, SubSeqProperties
    <3>4. LastThree(q) \in Seq(Tool)
      BY <3>1, <3>2, <3>3 DEF LastThree
    <3> QED
      BY <3>4 DEF q
  <2>3. d = [Counted(talk) EXCEPT !.recent = LastThree(talk.recent \o b)]
    BY <2>1
  <2> HIDE DEF d
  <2> QED
    BY <2>1, <2>2, <2>3 DEF Talk
<1> HIDE DEF d
<1>6. ASSUME NEW e \in Talk, NEW status, e.transcript = talk.transcript,
             e.next = talk.next, e.previous = talk.previous, e.chained = talk.chained,
             Checkpoint(Restarted(e), status)
      PROVE  TalkBooks'
  <2>1. talk' = Restarted(e) /\ phase' = "checkpoint"
    BY <1>6 DEF Checkpoint
  <2>2. Kept(e, known, begun)
    BY <1>3, <1>6 DEF Kept, Told
  <2>3. Kept(talk', known, begun) /\ Ready(talk')
    BY <1>3, <2>1, <2>2, RestartKeepsTold
  <2>4. talk' # NoTalk
    BY <2>1, RestartCounts, NoTalkIsNone DEF Same
  <2> QED
    BY <1>3, <2>1, <2>3, <2>4 DEF TalkBooks
<1>7. CASE Repeated(d.recent)
  <2> DEFINE e == [d EXCEPT !.stuck = @ + 1]
  <2>1. /\ e \in Talk /\ e.transcript = d.transcript /\ e.next = d.next
        /\ e.previous = d.previous /\ e.chained = d.chained
    <3>1. d.stuck + 1 \in Nat /\ d \in Talk
      BY <1>5 DEF Talk
    <3> QED
      BY <3>1 DEF Talk
  <2> QED
    BY <1>2, <1>5, <1>6, <1>7, <2>1 DEF d
<1>8. CASE ~Repeated(d.recent) /\ d.used + Len(b) > MaxToolCalls
  <2> DEFINE e == [d EXCEPT !.tools = FALSE]
  <2>1. /\ e \in Talk /\ e.transcript = d.transcript /\ e.next = d.next
        /\ e.previous = d.previous /\ e.chained = d.chained
    BY <1>5 DEF Talk
  <2> QED
    BY <1>2, <1>5, <1>6, <1>8, <2>1 DEF d
<1>9. CASE ~Repeated(d.recent) /\ ~(d.used + Len(b) > MaxToolCalls)
  <2>1. /\ talk' = [d EXCEPT !.used = @ + Len(b)] /\ calls' = ids
        /\ shown' = shown \cup {Call(ids[i]) : i \in DOMAIN ids} /\ phase' = "yielded"
    BY <1>2, <1>9 DEF d
  <2>2. /\ talk'.transcript = talk.transcript /\ talk'.next = talk.next
        /\ talk'.previous = talk.previous /\ talk'.chained = talk.chained
        /\ talk' # NoTalk
    <3>1. d.used + Len(b) \in Nat
      BY <1>4, <1>5 DEF Talk
    <3> DEFINE u == d.used + Len(b)
    <3>2. talk' = [d EXCEPT !.used = u]
      BY <2>1
    <3> HIDE DEF u
    <3>3. talk' \in Talk
      BY <1>5, <3>1, <3>2 DEF Talk, u
    <3> QED
      BY <1>5, <3>2, <3>3, NoTalkIsNone DEF Talk
  <2>3. Told(talk') = Told(talk)
    BY <2>2 DEF Told
  <2>4. Kept(talk', known, begun)
    BY <1>3, <2>2, <2>3 DEF Kept
  <2>5. /\ DOMAIN ids = 1..n /\ \A i \in 1..n : ids[i] = issued + i /\ ids[i] \in Nat
    BY <1>4
  <2> HIDE DEF ids
  <2>6. talk.chained => Awaits(shown', OpenOf(calls'))
    <3>1. SUFFICES ASSUME talk.chained, NEW m \in Nat
                   PROVE  Call(m) \in shown' <=> Result(m) \in shown' \/ m \in OpenOf(calls')
      BY DEF Awaits
    <3>2. Call(m) \in shown <=> Result(m) \in shown
      BY <1>3, <3>1 DEF Ready, Paired
    <3>3. Call(m) \in {Call(ids[i]) : i \in DOMAIN ids} <=> m \in OpenOf(ids)
      BY <2>5, ItemsDiffer DEF OpenOf
    <3>4. Result(m) \notin {Call(ids[i]) : i \in DOMAIN ids}
      BY <2>5, ItemsDiffer
    <3> QED
      BY <2>1, <3>2, <3>3, <3>4
  <2>7. Told(talk') \subseteq shown'
    BY <1>3, <2>1, <2>3
  <2> QED
    BY <1>3, <2>1, <2>2, <2>4, <2>6, <2>7 DEF TalkBooks
<1> QED
  BY <1>7, <1>8, <1>9

(* The other steps tell the model nothing.                                  *)
LEMMA QuietTells ==
  ASSUME DialogueInv, TalkBooks,
         AnswerText \/ Error \/ Extend \/ ApproveFails \/ Deny \/ SteerTeam
  PROVE  TalkBooks'
<1>1. begun' = begun /\ known' = known /\ shown' = shown /\ calls' = calls
  BY DEF AnswerText, Error, Extend, ApproveFails, Deny, SteerTeam
<1>2. CASE AnswerText
  <2>1. /\ talk' = Counted(talk) /\ phase = "asking" /\ phase' \in {"completed", "checkpoint"}
    BY <1>2 DEF AnswerText, Checkpoint
  <2>2. talk # NoTalk /\ talk \in Talk /\ Kept(talk, known, begun) /\ Ready(talk)
    BY <2>1 DEF DialogueInv, TalkBooks
  <2>3. /\ talk' \in Talk /\ talk'.transcript = talk.transcript /\ talk'.next = talk.next
        /\ talk'.previous = talk.previous /\ talk'.chained = talk.chained
    BY ONLY SMTT(30), <2>1, <2>2 DEF Counted, Talk
  <2>4. Kept(talk', known, begun) /\ Ready(talk')
    BY <2>2, <2>3 DEF Kept, Ready, Told
  <2> QED
    BY <1>1, <2>1, <2>3, <2>4, NoTalkIsNone DEF TalkBooks
<1>3. CASE Extend
  <2>1. /\ phase = "checkpoint" /\ phase' \in {"queued", "failed"}
        /\ talk' \in {talk, [talk EXCEPT !.max = NextLimit(verdict, talk.turn)]}
    BY <1>3 DEF Extend, NewBatch
  <2>2. talk # NoTalk /\ talk \in Talk /\ Kept(talk, known, begun) /\ Ready(talk)
    BY <2>1 DEF DialogueInv, TalkBooks
  <2>3. /\ talk'.transcript = talk.transcript /\ talk'.next = talk.next
        /\ talk'.previous = talk.previous /\ talk'.chained = talk.chained
    BY <2>1, <2>2 DEF Talk
  <2>4. Kept(talk', known, begun) /\ Ready(talk')
    BY <2>2, <2>3 DEF Kept, Ready, Told
  <2>5. talk' # NoTalk
    <3>1. "turn" \in DOMAIN talk'
      BY <2>1, <2>2 DEF Talk
    <3> QED
      BY <3>1 DEF NoTalk
  <2> QED
    BY <1>1, <2>1, <2>4, <2>5 DEF TalkBooks
<1>4. CASE Error
  BY <1>1, <1>4 DEF Error, TalkBooks
<1>5. CASE ApproveFails \/ Deny
  BY <1>1, <1>5 DEF ApproveFails, Deny, TalkBooks
<1>6. CASE SteerTeam
  BY <1>1, <1>6 DEF SteerTeam, TalkBooks
<1> QED
  BY <1>2, <1>3, <1>4, <1>5, <1>6

(* Every step of a dialogue.                                                *)
LEMMA TalkKeeps == ASSUME DialogueInv, TalkBooks, [Next]_vars PROVE TalkBooks'
<1>1. CASE UNCHANGED vars
  BY <1>1 DEF vars, TalkBooks
<1> QED
  BY <1>1, AskTells, AnswerToolsTells, QuietTells, YieldTells, ApproveTells
     DEF Next, Execute, Foreground, User

(* Nothing is known before the dialogue begins.                             *)
LEMMA TalkStarts == Init => TalkBooks
BY DEF Init, TalkBooks

(* What is sent is ready, and has what is known.                            *)
LEMMA TalkWithin == DialogueInv /\ TalkBooks => CallsAnswered /\ TranscriptRemembers
<1> SUFFICES ASSUME DialogueInv, TalkBooks, phase = "asking"
             PROVE  /\ \A n \in 1..MaxIssued : Call(n) \in shown <=> Result(n) \in shown
                    /\ talk.chained = begun => known \subseteq shown
  BY DEF CallsAnswered, TranscriptRemembers
<1>1. /\ talk \in Talk /\ Kept(talk, known, begun) /\ Ready(talk) /\ shown = Told(talk)
      /\ talk.chained \in BOOLEAN /\ begun \in BOOLEAN
  BY DEF DialogueInv, TalkBooks, Talk
<1>2. CASE talk.chained
  BY <1>1, <1>2 DEF Kept, Ready, Paired
<1>3. CASE ~talk.chained
  <2>1. shown = talk.transcript
    BY <1>1, <1>3 DEF Kept, Ready, Told
  <2> QED
    BY <1>1, <1>3, <2>1 DEF Kept, Paired
<1> QED
  BY <1>2, <1>3

-----------------------------------------------------------------------------
(* The runs of the instance, and what the budget keeps of their escrows: a  *)
(* row is sealed as it was closed, and no row that is not closed.           *)
Runs == UNION Crews

BudgetInv ==
  /\ Budget!TypeOK
  /\ Budget!EscrowHolds
  /\ \A r \in Runs :
       sealed[r] = IF escrow[r].status \in Budget!Closed THEN escrow[r]
                                                       ELSE Budget!NoEscrow

(* The tokens the rows of some runs have set aside, one by one.             *)
Units(table, runs) ==
  {u \in runs \X (1..MaxTotalTokens) : u[2] <= table[u[1]].tokens}

(* A set of numbers has a least one.                                        *)
LEMMA Least ==
  ASSUME NEW T, T \subseteq Nat, T # {}
  PROVE  \E x \in T : \A y \in T : x <= y
<1>1. PICK x \in T : \A y \in T : ~ (<<y, x>> \in OpToRel(<, Nat))
  BY NatLessThanWellFounded, WFMin, Zenon
<1>2. OpToRel(<, Nat) = {ss \in Nat \X Nat : ss[1] < ss[2]}
  BY Zenon DEF OpToRel
<1>3. \A y \in T : ~ (<<y, x>> \in {ss \in Nat \X Nat : ss[1] < ss[2]})
  BY <1>1, <1>2, Zenon
<1>4. ASSUME NEW y \in T PROVE x <= y
  <2>1. x \in Nat /\ y \in Nat
    OBVIOUS
  <2>2. ~ (<<y, x>> \in {ss \in Nat \X Nat : ss[1] < ss[2]})
    BY <1>3
  <2> QED
    BY <2>1, <2>2
<1> QED
  BY <1>4

(* Rows of tokens that a policy allows.                                     *)
Rowed(table, runs) == \A r \in runs : table[r].tokens \in 1..MaxTotalTokens

(* They are so many.                                                        *)
LEMMA UnitsFinite ==
  ASSUME NEW table, NEW runs \in SUBSET Runs
  PROVE  IsFiniteSet(Units(table, runs)) /\ Cardinality(Units(table, runs)) \in Nat
<1>1. IsFiniteSet(runs) /\ IsFiniteSet(1..MaxTotalTokens)
  <2>1. MaxTotalTokens \in Int /\ 1 \in Int /\ IsFiniteSet(Runs)
    BY InstanceAssumption DEF Runs
  <2> QED
    BY <2>1, FS_Subset, FS_Interval
<1>2. IsFiniteSet(runs \X (1..MaxTotalTokens))
  BY <1>1, FS_Product
<1>3. Units(table, runs) \subseteq runs \X (1..MaxTotalTokens)
  BY DEF Units
<1> QED
  BY <1>2, <1>3, FS_Subset, FS_CardinalityType

(* One run more has its tokens more.                                        *)
LEMMA UnitsAdd ==
  ASSUME NEW table, NEW runs \in SUBSET Runs, NEW r \in runs,
         table[r].tokens \in 1..MaxTotalTokens
  PROVE  Cardinality(Units(table, runs))
           = table[r].tokens + Cardinality(Units(table, runs \ {r}))
<1> DEFINE k == table[r].tokens
           own == Units(table, {r})
           rest == Units(table, runs \ {r})
           f == [i \in 1..k |-> <<r, i>>]
<1>1. IsFiniteSet(rest) /\ Cardinality(rest) \in Nat
  BY UnitsFinite
<1>2. k \in Nat /\ IsFiniteSet(1..k) /\ Cardinality(1..k) = k
  BY FS_Interval
<1>3. own = {<<r, i>> : i \in 1..k}
  BY InstanceAssumption DEF Units
<1>4. f \in Bijection(1..k, own)
  <2>1. f \in [1..k -> own] /\ \A i \in 1..k : f[i] = <<r, i>>
    BY <1>3
  <2> QED
    BY <1>3, <2>1 DEF Bijection, Injection, Surjection, IsInjective
<1>5. IsFiniteSet(own) /\ Cardinality(own) = k
  <2> HIDE DEF own, f, k
  <2>1. f \in Surjection(1..k, own) /\ f \in Injection(1..k, own)
    BY <1>4 DEF Bijection
  <2>2. IsFiniteSet(own) /\ (Cardinality(own) = Cardinality(1..k) <=> f \in Injection(1..k, own))
    BY <1>2, <2>1, FS_Surjection
  <2> QED
    BY <1>2, <2>1, <2>2
<1>6. Units(table, runs) = own \cup rest /\ own \cap rest = {}
  BY DEF Units
<1> HIDE DEF own, rest, k
<1>7. Cardinality({}) = 0
  BY FS_EmptySet
<1>8. Cardinality(own \cup rest) = Cardinality(own) + Cardinality(rest) - Cardinality(own \cap rest)
  BY <1>1, <1>5, FS_Union
<1>9. Cardinality(own \cap rest) = 0
  BY <1>6, <1>7
<1>10. Cardinality(Units(table, runs)) = Cardinality(own) + Cardinality(rest) - 0
  BY <1>6, <1>8, <1>9
<1> QED
  BY <1>1, <1>2, <1>5, <1>10 DEF k, rest

(* The sum of the model counts those units.                                 *)
LEMMA SumIsUnits ==
  ASSUME NEW table, NEW m, Rowed(table, Budget!Active(table, m))
  PROVE  Budget!TokensOf(table, m) = Cardinality(Units(table, Budget!Active(table, m)))
<1> DEFINE S == Budget!Active(table, m)
           pick(s) == CHOOSE x \in s : TRUE
           Sum(g) == g = [s \in SUBSET S |->
                            IF s = {} THEN 0
                            ELSE table[pick(s)].tokens + g[s \ {pick(s)}]]
           iter == CHOOSE g : Sum(g)
           count == [s \in SUBSET S |-> Cardinality(Units(table, s))]
<1>1. S \subseteq Runs /\ \A x \in S : table[x].tokens \in 1..MaxTotalTokens
  BY DEF Budget!Active, Runs, Rowed
<1>2. Budget!TokensOf(table, m) = iter[S]
  BY DEF Budget!TokensOf, Budget!MapThenSumSet, Budget!MapThenFoldSet
<1>3. \A s \in SUBSET S : s # {} => pick(s) \in s
  OBVIOUS
<1> HIDE DEF S, pick
<1>4. Cardinality(Units(table, {})) = 0
  <2>1. Units(table, {}) = {}
    BY DEF Units
  <2> QED
    BY <2>1, FS_EmptySet
<1>5. ASSUME NEW s \in SUBSET S, s # {}
      PROVE  Cardinality(Units(table, s))
               = table[pick(s)].tokens + Cardinality(Units(table, s \ {pick(s)}))
  <2>1. s \in SUBSET Runs /\ pick(s) \in s /\ table[pick(s)].tokens \in 1..MaxTotalTokens
    BY <1>1, <1>3, <1>5
  <2> QED
    BY <2>1, UnitsAdd
<1>6. Sum(count)
  BY <1>4, <1>5
<1>7. Sum(iter)
  BY <1>6
<1> HIDE DEF iter
<1>8. ASSUME NEW s \in SUBSET S PROVE iter[s] = Cardinality(Units(table, s))
  <2> DEFINE wrong == {u \in SUBSET S : iter[u] # Cardinality(Units(table, u))}
             sizes == {Cardinality(u) : u \in wrong}
  <2>1. \A u \in SUBSET S : IsFiniteSet(u) /\ Cardinality(u) \in Nat
    <3>1. IsFiniteSet(S)
      BY <1>1, InstanceAssumption, FS_Subset DEF Runs
    <3> QED
      BY <3>1, FS_Subset, FS_CardinalityType
  <2>2. SUFFICES ASSUME wrong # {} PROVE FALSE
    OBVIOUS
  <2>3. sizes \subseteq Nat /\ sizes # {}
    BY <2>1, <2>2
  <2>4. PICK n \in sizes : \A k \in sizes : n <= k
    BY <2>3, Least
  <2>5. PICK u \in wrong : Cardinality(u) = n
    BY <2>4
  <2>6. u \in SUBSET S /\ IsFiniteSet(u) /\ Cardinality(u) \in Nat
    BY <2>1, <2>5
  <2>7. u # {}
    BY <1>4, <1>7, <2>5
  <2> DEFINE x == pick(u)
  <2>8. x \in u /\ u \ {x} \in SUBSET S
    BY <1>3, <2>6, <2>7
  <2>9. Cardinality(u \ {x}) = Cardinality(u) - 1
    BY <2>6, <2>8, FS_RemoveElement
  <2>10. u \ {x} \notin wrong
    <3>1. n \in Nat /\ Cardinality(u \ {x}) = n - 1
      BY <2>5, <2>6, <2>9
    <3>2. ~ (n <= n - 1)
      BY <3>1
    <3>3. Cardinality(u \ {x}) \notin sizes
      BY <2>4, <3>1, <3>2
    <3> QED
      BY <3>3
  <2>11. iter[u \ {x}] = Cardinality(Units(table, u \ {x}))
    BY <2>8, <2>10
  <2>12. iter[u] = table[x].tokens + iter[u \ {x}]
    BY <1>7, <2>6, <2>7
  <2>13. Cardinality(Units(table, u)) = table[x].tokens + Cardinality(Units(table, u \ {x}))
    BY <1>5, <2>6, <2>7
  <2> QED
    BY <2>5, <2>11, <2>12, <2>13
<1>9. S \in SUBSET S
  OBVIOUS
<1> QED
  BY <1>2, <1>8, <1>9 DEF S

(* What a row may be, and what the limits say of some rows.                 *)
Row == Budget!Escrow \cup {Budget!NoEscrow}

Within(table, m) ==
  /\ Cardinality(Budget!Active(table, m)) <= MaxAgents
  /\ Budget!TokensOf(table, m) <= MaxTotalTokens
  /\ Cardinality(Budget!Active(table, m)) * RunToolCalls <= MissionToolCalls
  /\ Cardinality(Budget!Active(table, m)) * Runtime <= MaxRuntime

Paid(row) ==
  row # Budget!NoEscrow => row.spent <= row.tokens /\ row.used <= RunToolCalls

(* The limits are numbers.                                                  *)
LEMMA Numbers ==
  /\ {MaxAgents, MaxTotalTokens, MissionToolCalls, MaxRuntime, MaxClock,
      RunToolCalls, Runtime} \subseteq Nat
  /\ Tokens \subseteq 1..MaxTotalTokens /\ RunToolCalls <= MissionToolCalls
  /\ MaxAgents > 0 /\ IsFiniteSet(Runs)
BY InstanceAssumption DEF Runs

(* A run without a row is not one with a row.                               *)
LEMMA NoEscrowIsNone ==
  /\ Budget!NoEscrow.status = "none"
  /\ \A row \in Budget!Escrow : row # Budget!NoEscrow /\ row.status # "none"
<1>1. "none" \notin {"active"} \cup Budget!Closed
  BY DEF Budget!Closed
<1> QED
  BY <1>1 DEF Budget!NoEscrow, Budget!Escrow

(* The active runs of a mission are so many.                                *)
LEMMA ActiveFinite ==
  ASSUME NEW table, NEW m
  PROVE  /\ Budget!Active(table, m) \in SUBSET Runs
         /\ IsFiniteSet(Budget!Active(table, m))
         /\ Cardinality(Budget!Active(table, m)) \in Nat
<1>1. Budget!Active(table, m) \subseteq Runs
  BY DEF Budget!Active, Runs
<1> QED
  BY <1>1, Numbers, FS_Subset, FS_CardinalityType

(* An active row has tokens.                                                *)
LEMMA ActiveRowed ==
  ASSUME NEW table \in [Runs -> Row], NEW m
  PROVE  Rowed(table, Budget!Active(table, m))
<1>1. \A r \in Budget!Active(table, m) : r \in Runs /\ table[r].status = "active"
  BY DEF Budget!Active, Runs
<1>2. \A r \in Budget!Active(table, m) : table[r] \in Budget!Escrow
  BY <1>1, NoEscrowIsNone DEF Row
<1>3. \A r \in Budget!Active(table, m) : table[r].tokens \in Tokens
  BY <1>2 DEF Budget!Escrow
<1> QED
  BY <1>3, Numbers DEF Rowed

(* The budget counts as everyone else.                                      *)
LEMMA SameCount == \A S : Budget!Cardinality(S) = Cardinality(S)
BY Zenon DEF Cardinality, Budget!Cardinality, IsFiniteSet, Budget!IsFiniteSet

(* Fewer active rows of the same tokens are within the limits that held.    *)
LEMMA FewerWithin ==
  ASSUME NEW old \in [Runs -> Row], NEW table \in [Runs -> Row], NEW m, Within(old, m),
         Budget!Active(table, m) \subseteq Budget!Active(old, m),
         \A r \in Budget!Active(table, m) : table[r].tokens = old[r].tokens
  PROVE  Within(table, m)
<1> DEFINE A == Budget!Active(old, m)
           B == Budget!Active(table, m)
<1>1. /\ A \in SUBSET Runs /\ IsFiniteSet(A) /\ Cardinality(A) \in Nat
      /\ B \in SUBSET Runs /\ IsFiniteSet(B) /\ Cardinality(B) \in Nat
  BY ActiveFinite
<1>2. Cardinality(B) <= Cardinality(A)
  BY <1>1, FS_Subset
<1>3. Budget!TokensOf(old, m) = Cardinality(Units(old, A))
      /\ Budget!TokensOf(table, m) = Cardinality(Units(table, B))
  BY ActiveRowed, SumIsUnits
<1>4. Units(table, B) \subseteq Units(old, A)
  BY DEF Units
<1>5. Cardinality(Units(table, B)) <= Cardinality(Units(old, A))
      /\ Cardinality(Units(table, B)) \in Nat /\ Cardinality(Units(old, A)) \in Nat
  BY <1>1, <1>4, UnitsFinite, FS_Subset
<1>6. \A k \in Nat : Cardinality(B) * k <= Cardinality(A) * k /\ Cardinality(A) * k \in Nat
                    /\ Cardinality(B) * k \in Nat
  <2> DEFINE a == Cardinality(A)
             b == Cardinality(B)
  <2>1. a \in Nat /\ b \in Nat /\ b <= a
    BY <1>1, <1>2
  <2> HIDE DEF a, b
  <2>2. \A k \in Nat : b * k <= a * k /\ a * k \in Nat /\ b * k \in Nat
    BY <2>1
  <2> QED
    BY <2>2 DEF a, b
<1>7. /\ Cardinality(A) <= MaxAgents /\ Budget!TokensOf(old, m) <= MaxTotalTokens
      /\ Cardinality(A) * RunToolCalls <= MissionToolCalls
      /\ Cardinality(A) * Runtime <= MaxRuntime
  BY DEF Within
<1>8. /\ Cardinality(B) * RunToolCalls <= Cardinality(A) * RunToolCalls
      /\ Cardinality(A) * RunToolCalls \in Nat /\ Cardinality(B) * RunToolCalls \in Nat
      /\ Cardinality(B) * Runtime <= Cardinality(A) * Runtime
      /\ Cardinality(A) * Runtime \in Nat /\ Cardinality(B) * Runtime \in Nat
  BY <1>6, Numbers
<1> DEFINE ta == Cardinality(A) * RunToolCalls
           tb == Cardinality(B) * RunToolCalls
           ra == Cardinality(A) * Runtime
           rb == Cardinality(B) * Runtime
<1>9. ta \in Nat /\ tb \in Nat /\ ra \in Nat /\ rb \in Nat /\ tb <= ta /\ rb <= ra
      /\ ta <= MissionToolCalls /\ ra <= MaxRuntime
  BY <1>7, <1>8
<1> HIDE DEF ta, tb, ra, rb
<1>10. tb <= MissionToolCalls /\ rb <= MaxRuntime
  BY <1>9, Numbers
<1>11. Cardinality(B) <= MaxAgents /\ Budget!TokensOf(table, m) <= MaxTotalTokens
  BY <1>1, <1>2, <1>3, <1>5, <1>7, Numbers
<1> QED
  BY <1>10, <1>11 DEF Within, tb, rb

(* A write that leaves closed rows alone and keeps the limits.              *)
LEMMA WriteKeeps ==
  ASSUME BudgetInv, NEW table \in [Runs -> Row], Budget!Write(table), UNCHANGED clock,
         \A m \in Crews : Within(table, m), \A r \in Runs : Paid(table[r]),
         \A r \in Runs : escrow[r].status \in Budget!Closed => table[r] = escrow[r]
  PROVE  BudgetInv'
<1>1. /\ escrow' = table
      /\ sealed' = [r \in Runs |->
                      IF table[r].status \in Budget!Closed /\ sealed[r] = Budget!NoEscrow
                        THEN table[r] ELSE sealed[r]]
  BY DEF Budget!Write, Runs
<1>2. escrow \in [Runs -> Row] /\ sealed \in [Runs -> Row] /\ clock \in 0..MaxClock
  BY DEF BudgetInv, Budget!TypeOK, Runs, Row
<1>3. ASSUME NEW r \in Runs
      PROVE  sealed'[r] = IF table[r].status \in Budget!Closed THEN table[r]
                                                              ELSE Budget!NoEscrow
  <2>1. "none" \notin Budget!Closed /\ "active" \notin Budget!Closed
    BY DEF Budget!Closed
  <2>2. sealed[r] = IF escrow[r].status \in Budget!Closed THEN escrow[r] ELSE Budget!NoEscrow
    BY DEF BudgetInv
  <2>3. sealed'[r] = IF table[r].status \in Budget!Closed /\ sealed[r] = Budget!NoEscrow
                       THEN table[r] ELSE sealed[r]
    BY <1>1
  <2>4. escrow[r].status \in Budget!Closed => table[r] = escrow[r]
    OBVIOUS
  <2> QED
    BY <2>1, <2>2, <2>3, <2>4, NoEscrowIsNone
<1>4. escrow' \in [Runs -> Row] /\ sealed' \in [Runs -> Row] /\ clock' \in 0..MaxClock
  BY <1>1, <1>2
<1>5. Budget!TypeOK'
  BY <1>4 DEF Budget!TypeOK, Runs, Row
<1>6. \A r \in Runs :
        sealed'[r] = IF escrow'[r].status \in Budget!Closed THEN escrow'[r]
                                                          ELSE Budget!NoEscrow
  BY <1>1, <1>3
<1>7. \A r \in Runs : sealed'[r] # Budget!NoEscrow => escrow'[r] = sealed'[r]
  BY <1>6
<1>8. \A m \in Crews : Within(escrow', m)
  BY <1>1
<1>9. Budget!EscrowHolds'
  <2>1. \A r \in Runs : Paid(escrow'[r])
    BY <1>1
  <2>2. \A m \in Crews :
          /\ Cardinality(Budget!Active(escrow', m)) <= MaxAgents
          /\ Budget!TokensOf(escrow', m) <= MaxTotalTokens
          /\ Cardinality(Budget!Active(escrow', m)) * RunToolCalls <= MissionToolCalls
          /\ Cardinality(Budget!Active(escrow', m)) * Runtime <= MaxRuntime
    BY <1>8 DEF Within
  <2>3. \A r \in UNION Crews : escrow'[r] # Budget!NoEscrow =>
          escrow'[r].spent <= escrow'[r].tokens /\ escrow'[r].used <= RunToolCalls
    BY <2>1 DEF Paid, Runs
  <2>4. \A r \in UNION Crews : sealed'[r] # Budget!NoEscrow => escrow'[r] = sealed'[r]
    BY <1>7 DEF Runs
  <2> QED
    BY <2>2, <2>3, <2>4, SameCount, Zenon DEF Budget!EscrowHolds
<1> QED
  BY <1>5, <1>6, <1>9 DEF BudgetInv, Runs

(* The rows as they are are within the limits.                              *)
LEMMA NowWithin ==
  ASSUME BudgetInv
  PROVE  /\ escrow \in [Runs -> Row] /\ clock \in 0..MaxClock
         /\ \A m \in Crews : Within(escrow, m)
         /\ \A r \in Runs : Paid(escrow[r])
<1>1. escrow \in [Runs -> Row] /\ clock \in 0..MaxClock
  BY DEF BudgetInv, Budget!TypeOK, Runs, Row
<1>2. Budget!EscrowHolds
  BY DEF BudgetInv
<1>3. \A m \in Crews : Within(escrow, m)
  BY <1>2, SameCount, Zenon DEF Budget!EscrowHolds, Within
<1>4. \A r \in Runs : Paid(escrow[r])
  BY <1>2, Zenon DEF Budget!EscrowHolds, Paid, Runs
<1> QED
  BY <1>1, <1>3, <1>4

(* A row is closed as it is.                                                *)
LEMMA CloseKeeps ==
  ASSUME NEW row \in Budget!Escrow, NEW status \in Budget!Closed
  PROVE  /\ Budget!Close(row, status) \in Budget!Escrow
         /\ Budget!Close(row, status).status = status
         /\ Budget!Close(row, status).tokens = row.tokens
         /\ Budget!Close(row, status).spent = row.spent
         /\ Budget!Close(row, status).used = row.used
BY DEF Budget!Close, Budget!Escrow

(* Rows of which some active ones have been closed.                         *)
LEMMA ClosingKeeps ==
  ASSUME BudgetInv, NEW table \in [Runs -> Row],
         \A r \in Runs :
           \/ table[r] = escrow[r]
           \/ /\ escrow[r].status = "active"
              /\ \E status \in Budget!Closed : table[r] = Budget!Close(escrow[r], status)
  PROVE  /\ \A m \in Crews : Within(table, m)
         /\ \A r \in Runs : Paid(table[r])
         /\ \A r \in Runs : escrow[r].status \in Budget!Closed => table[r] = escrow[r]
<1>1. "active" \notin Budget!Closed /\ "none" \notin Budget!Closed
  BY DEF Budget!Closed
<1>2. \A r \in Runs : escrow[r] \in Row /\ Paid(escrow[r])
  BY NowWithin
<1>3. ASSUME NEW r \in Runs, table[r] # escrow[r]
      PROVE  /\ escrow[r].status = "active" /\ table[r].status \in Budget!Closed
             /\ table[r].spent = escrow[r].spent /\ table[r].tokens = escrow[r].tokens
             /\ table[r].used = escrow[r].used /\ escrow[r] # Budget!NoEscrow
  <2>1. escrow[r].status = "active"
    BY <1>3
  <2>2. PICK status \in Budget!Closed : table[r] = Budget!Close(escrow[r], status)
    BY <1>3
  <2>3. escrow[r] \in Budget!Escrow
    BY <1>2, <2>1, NoEscrowIsNone DEF Row
  <2> QED
    BY <2>1, <2>2, <2>3, CloseKeeps, NoEscrowIsNone
<1>4. \A r \in Runs : Paid(table[r])
  BY <1>2, <1>3 DEF Paid
<1>5. ASSUME NEW m \in Crews PROVE Within(table, m)
  <2>1. /\ Budget!Active(table, m) \subseteq Budget!Active(escrow, m)
        /\ \A r \in Budget!Active(table, m) : table[r].tokens = escrow[r].tokens
    BY <1>1, <1>3 DEF Budget!Active, Runs
  <2> QED
    BY <2>1, NowWithin, FewerWithin
<1> QED
  BY <1>1, <1>3, <1>4, <1>5

(* The rows at the head of reserve.                                         *)
LEMMA ExpiredRows ==
  ASSUME BudgetInv
  PROVE  /\ Budget!Expired \in [Runs -> Row]
         /\ \A r \in Runs :
              \/ Budget!Expired[r] = escrow[r]
              \/ /\ escrow[r].status = "active"
                 /\ \E status \in Budget!Closed :
                      Budget!Expired[r] = Budget!Close(escrow[r], status)
<1>1. escrow \in [Runs -> Row] /\ "expired" \in Budget!Closed
  BY NowWithin DEF Budget!Closed
<1>2. ASSUME NEW r \in Runs, escrow[r].status = "active"
      PROVE  Budget!Close(escrow[r], "expired") \in Row
  <2>1. escrow[r] \in Budget!Escrow
    BY <1>1, <1>2, NoEscrowIsNone DEF Row
  <2> QED
    BY <1>1, <2>1, CloseKeeps DEF Row
<1>3. Budget!Expired =
        [r \in Runs |->
           IF escrow[r].status = "active" /\ escrow[r].expires <= clock
             THEN Budget!Close(escrow[r], "expired") ELSE escrow[r]]
  BY DEF Budget!Expired, Runs
<1> QED
  BY <1>1, <1>2, <1>3

(* release, and the expiry of charge.                                       *)
LEMMA ClosedKeeps ==
  ASSUME BudgetInv, NEW r \in Runs, NEW status \in Budget!Closed,
         escrow[r].status = "active", UNCHANGED clock,
         Budget!Write([escrow EXCEPT ![r] = Budget!Close(escrow[r], status)])
  PROVE  BudgetInv'
<1> DEFINE table == [escrow EXCEPT ![r] = Budget!Close(escrow[r], status)]
<1>1. escrow \in [Runs -> Row]
  BY NowWithin
<1>2. escrow[r] \in Budget!Escrow
  BY <1>1, NoEscrowIsNone DEF Row
<1>3. Budget!Close(escrow[r], status) \in Row
  BY <1>2, CloseKeeps DEF Row
<1>4. table \in [Runs -> Row]
  BY <1>1, <1>3
<1>5. \A q \in Runs :
        \/ table[q] = escrow[q]
        \/ /\ escrow[q].status = "active"
           /\ \E s1 \in Budget!Closed : table[q] = Budget!Close(escrow[q], s1)
  BY <1>1
<1> HIDE DEF table
<1>6. /\ \A m \in Crews : Within(table, m)
      /\ \A q \in Runs : Paid(table[q])
      /\ \A q \in Runs : escrow[q].status \in Budget!Closed => table[q] = escrow[q]
  BY <1>4, <1>5, ClosingKeeps
<1> QED
  BY <1>4, <1>6, WriteKeeps DEF table

(* release closes what is active.                                           *)
LEMMA ReleaseKeeps ==
  ASSUME BudgetInv, NEW r \in Runs, Budget!Release(r) PROVE BudgetInv'
<1>1. PICK status \in Budget!Closed \ {"expired"} :
        /\ escrow[r].status = "active"
        /\ Budget!Write([escrow EXCEPT ![r] = Budget!Close(@, status)])
        /\ UNCHANGED clock
  BY DEF Budget!Release
<1> QED
  BY <1>1, ClosedKeeps

(* charge: nothing beyond what was reserved.                                *)
LEMMA ChargeKeeps ==
  ASSUME BudgetInv, NEW r \in Runs, Budget!Charge(r) PROVE BudgetInv'
<1>1. PICK tokens \in 0..MaxTotalTokens, tools \in 0..MissionToolCalls :
        /\ escrow[r].status = "active"
        /\ IF clock >= escrow[r].expires
             THEN Budget!Write([escrow EXCEPT ![r] = Budget!Close(@, "expired")])
             ELSE /\ escrow[r].spent + tokens <= escrow[r].tokens
                  /\ escrow[r].used + tools <= RunToolCalls
                  /\ Budget!Write([escrow EXCEPT ![r].spent = @ + tokens,
                                                 ![r].used = @ + tools])
        /\ UNCHANGED clock
  BY DEF Budget!Charge
<1>2. CASE clock >= escrow[r].expires
  <2>1. "expired" \in Budget!Closed
    BY DEF Budget!Closed
  <2> QED
    BY <1>1, <1>2, <2>1, ClosedKeeps
<1>3. CASE ~(clock >= escrow[r].expires)
  <2> DEFINE row == [escrow[r] EXCEPT !.spent = escrow[r].spent + tokens,
                                      !.used = escrow[r].used + tools]
             table == [escrow EXCEPT ![r] = row]
  <2>1. escrow \in [Runs -> Row]
    BY NowWithin
  <2>2. escrow[r] \in Budget!Escrow
    BY <1>1, <2>1, NoEscrowIsNone DEF Row
  <2>3. /\ escrow[r].tokens \in 1..MaxTotalTokens /\ escrow[r].spent \in 0..MaxTotalTokens
        /\ escrow[r].used \in 0..MissionToolCalls
    BY <2>2, Numbers DEF Budget!Escrow
  <2>4. /\ escrow[r].spent + tokens \in 0..MaxTotalTokens
        /\ escrow[r].used + tools \in 0..MissionToolCalls
    BY <1>1, <1>3, <2>3, Numbers
  <2>5. /\ row \in Budget!Escrow /\ row.status = "active" /\ row.tokens = escrow[r].tokens
        /\ row.spent <= row.tokens /\ row.used <= RunToolCalls
    BY <1>1, <1>3, <2>2, <2>4 DEF Budget!Escrow
  <2>6. [escrow EXCEPT ![r].spent = @ + tokens, ![r].used = @ + tools] = table
    BY <2>1
  <2>7. table \in [Runs -> Row] /\ table[r] = row /\ \A q \in Runs \ {r} : table[q] = escrow[q]
    BY <2>1, <2>5 DEF Row
  <2>8. Budget!Write(table) /\ UNCHANGED clock
    BY <1>1, <1>3, <2>6
  <2> HIDE DEF row, table
  <2>9. ASSUME NEW m \in Crews PROVE Within(table, m)
    <3>1. /\ Budget!Active(table, m) \subseteq Budget!Active(escrow, m)
          /\ \A q \in Budget!Active(table, m) : table[q].tokens = escrow[q].tokens
      BY <1>1, <2>5, <2>7 DEF Budget!Active, Runs
    <3> QED
      BY <2>1, <2>7, <3>1, NowWithin, FewerWithin
  <2>10. \A q \in Runs : Paid(table[q])
    BY <2>5, <2>7, NowWithin DEF Paid
  <2>11. "active" \notin Budget!Closed
    BY DEF Budget!Closed
  <2>12. \A q \in Runs : escrow[q].status \in Budget!Closed => table[q] = escrow[q]
    BY <1>1, <2>7, <2>11
  <2> QED
    BY <2>7, <2>8, <2>9, <2>10, <2>12, WriteKeeps
<1> QED
  BY <1>2, <1>3

(* reserve: what it adds fits, the rows whose time is over being closed     *)
(* before it is compared.                                                   *)
LEMMA ReserveKeeps ==
  ASSUME BudgetInv, NEW r \in Runs, Budget!Reserve(r) PROVE BudgetInv'
<1> DEFINE old == Budget!Expired
           m0 == CrewOf[r]
<1>1. PICK tokens \in Tokens :
        /\ IF escrow[r] # Budget!NoEscrow THEN
             Budget!Write(Budget!Expired)
           ELSE
             /\ Budget!Fits(Budget!Expired, r, tokens)
             /\ Budget!Write([Budget!Expired EXCEPT ![r] =
                   [status |-> "active", tokens |-> tokens, spent |-> 0,
                    used |-> 0, expires |-> clock + Runtime]])
        /\ UNCHANGED clock
  BY DEF Budget!Reserve
<1>2. old \in [Runs -> Row]
      /\ \A q \in Runs :
           \/ old[q] = escrow[q]
           \/ /\ escrow[q].status = "active"
              /\ \E status \in Budget!Closed : old[q] = Budget!Close(escrow[q], status)
  BY ExpiredRows
<1> HIDE DEF old
<1>3. /\ \A m \in Crews : Within(old, m)
      /\ \A q \in Runs : Paid(old[q])
      /\ \A q \in Runs : escrow[q].status \in Budget!Closed => old[q] = escrow[q]
  BY <1>2, ClosingKeeps
<1>4. CASE escrow[r] # Budget!NoEscrow
  <2>1. Budget!Write(old) /\ UNCHANGED clock
    BY <1>1, <1>4 DEF old
  <2> QED
    BY <1>2, <1>3, <2>1, WriteKeeps
<1>5. CASE escrow[r] = Budget!NoEscrow
  <2> DEFINE row == [status |-> "active", tokens |-> tokens, spent |-> 0,
                     used |-> 0, expires |-> clock + Runtime]
             table == [old EXCEPT ![r] = row]
             A == Budget!Active(old, m0)
  <2>1. Budget!Fits(old, r, tokens) /\ Budget!Write(table) /\ UNCHANGED clock
    BY <1>1, <1>5 DEF old
  <2>2. escrow[r].status = "none" /\ old[r] = escrow[r]
    BY <1>2, <1>5, NoEscrowIsNone
  <2>3. /\ row \in Budget!Escrow /\ row.status = "active" /\ row.tokens = tokens
        /\ Paid(row)
    <3>1. clock + Runtime \in 0..(MaxClock + Runtime)
      BY NowWithin, Numbers
    <3>2. 0 \in 0..MaxTotalTokens /\ 0 \in 0..MissionToolCalls /\ tokens \in 1..MaxTotalTokens
          /\ 0 <= RunToolCalls /\ 0 <= tokens
      BY Numbers
    <3> QED
      BY <3>1, <3>2 DEF Budget!Escrow, Paid
  <2> HIDE DEF row
  <2>4. table \in [Runs -> Row] /\ table[r] = row /\ \A q \in Runs \ {r} : table[q] = old[q]
    BY <1>2, <2>3 DEF Row
  <2> HIDE DEF table
  <2>5. ASSUME NEW m \in Crews, m # m0 PROVE Within(table, m)
    <3>1. /\ Budget!Active(table, m) \subseteq Budget!Active(old, m)
          /\ \A q \in Budget!Active(table, m) : table[q].tokens = old[q].tokens
      BY <2>4, <2>5 DEF Budget!Active, Runs
    <3> QED
      BY <1>2, <1>3, <2>4, <3>1, FewerWithin
  <2>6. Within(table, m0)
    <3>1. /\ Budget!Active(table, m0) = A \cup {r} /\ r \notin A
      BY <2>2, <2>3, <2>4 DEF Budget!Active, Runs
    <3>2. IsFiniteSet(A) /\ Cardinality(A) \in Nat /\ A \in SUBSET Runs
          /\ A \cup {r} \in SUBSET Runs
      BY ActiveFinite
    <3> HIDE DEF A
    <3>3. Cardinality(A \cup {r}) = Cardinality(A) + 1
      BY <3>1, <3>2, FS_AddElement
    <3>4. Budget!TokensOf(table, m0) = Cardinality(Units(table, A \cup {r}))
      BY <2>4, <3>1, ActiveRowed, SumIsUnits
    <3>5. Budget!TokensOf(old, m0) = Cardinality(Units(old, A))
      BY <1>2, ActiveRowed, SumIsUnits DEF A
    <3>6. Units(table, A) = Units(old, A)
      <4>1. \A q \in A : table[q] = old[q]
        BY <2>4, <3>1, <3>2
      <4> QED
        BY <4>1 DEF Units
    <3>7. Cardinality(Units(table, A \cup {r})) = tokens + Cardinality(Units(table, A))
      <4>1. (A \cup {r}) \ {r} = A /\ r \in A \cup {r}
        BY <3>1
      <4>2. table[r].tokens = tokens /\ tokens \in 1..MaxTotalTokens
        BY <2>3, <2>4, Numbers
      <4> QED
        BY <3>2, <4>1, <4>2, UnitsAdd
    <3>8. Cardinality(Units(old, A)) \in Nat /\ tokens \in Nat
      BY <3>2, UnitsFinite, Numbers
    <3>9. /\ Cardinality(A) < MaxAgents
          /\ Budget!TokensOf(old, m0) + tokens <= MaxTotalTokens
          /\ (Cardinality(A) + 1) * RunToolCalls <= MissionToolCalls
          /\ (Cardinality(A) + 1) * Runtime <= MaxRuntime
      BY <2>1, SameCount, Zenon DEF Budget!Fits, A
    <3>10. Budget!TokensOf(table, m0) <= MaxTotalTokens
      BY <3>4, <3>5, <3>6, <3>7, <3>8, <3>9, Numbers
    <3>11. Cardinality(A) + 1 <= MaxAgents
      BY <3>2, <3>9, Numbers
    <3> QED
      BY <3>1, <3>3, <3>9, <3>10, <3>11 DEF Within
  <2>7. \A m \in Crews : Within(table, m)
    BY <2>5, <2>6
  <2>8. \A q \in Runs : Paid(table[q])
    BY <1>3, <2>3, <2>4
  <2>9. \A q \in Runs : escrow[q].status \in Budget!Closed => table[q] = escrow[q]
    <3>1. "none" \notin Budget!Closed
      BY DEF Budget!Closed
    <3> QED
      BY <1>3, <2>2, <2>4, <3>1
  <2> QED
    BY <2>1, <2>4, <2>7, <2>8, <2>9, WriteKeeps
<1> QED
  BY <1>4, <1>5

(* Every step of the budget.                                                *)
LEMMA BudgetKeeps ==
  ASSUME BudgetInv, [Budget!Next]_budgetVars PROVE BudgetInv'
<1>1. CASE UNCHANGED budgetVars
  <2>1. escrow' = escrow /\ sealed' = sealed /\ clock' = clock
    BY <1>1 DEF budgetVars
  <2> QED
    BY <2>1 DEF BudgetInv, Budget!TypeOK, Budget!EscrowHolds
<1>2. CASE Budget!Tick
  <2>1. escrow' = escrow /\ sealed' = sealed /\ clock' = clock + 1 /\ clock < MaxClock
    BY <1>2 DEF Budget!Tick
  <2>2. clock \in 0..MaxClock
    BY NowWithin
  <2>3. clock' \in 0..MaxClock
    BY <2>1, <2>2, Numbers
  <2> QED
    BY <2>1, <2>3 DEF BudgetInv, Budget!TypeOK, Budget!EscrowHolds
<1>3. CASE \E r \in Runs : Budget!Reserve(r) \/ Budget!Charge(r) \/ Budget!Release(r)
  BY <1>3, ReserveKeeps, ChargeKeeps, ReleaseKeeps
<1> QED
  BY <1>1, <1>2, <1>3 DEF Budget!Next, Runs

(* No run has a row at the start.                                           *)
LEMMA BudgetStarts == Budget!Init => BudgetInv
<1> SUFFICES ASSUME Budget!Init PROVE BudgetInv
  OBVIOUS
<1>1. escrow = [r \in Runs |-> Budget!NoEscrow] /\ sealed = escrow /\ clock = 0
  BY DEF Budget!Init, Runs
<1>2. \A r \in Runs : escrow[r] = Budget!NoEscrow /\ sealed[r] = Budget!NoEscrow
                      /\ escrow[r].status = "none"
  BY <1>1, NoEscrowIsNone
<1>3. "none" \notin Budget!Closed /\ "active" \notin Budget!Closed
  BY DEF Budget!Closed
<1>4. escrow \in [Runs -> Row] /\ clock \in 0..MaxClock
  BY <1>1, Numbers DEF Row
<1>5. Budget!TypeOK
  BY <1>1, <1>4 DEF Budget!TypeOK, Runs, Row
<1>6. ASSUME NEW m \in Crews PROVE Within(escrow, m)
  <2>1. Budget!Active(escrow, m) = {}
    BY <1>2 DEF Budget!Active, Runs
  <2>2. Cardinality({}) = 0
    BY FS_EmptySet
  <2>3. Units(escrow, {}) = {}
    BY DEF Units
  <2>4. Budget!TokensOf(escrow, m) = 0
    <3>1. Budget!TokensOf(escrow, m) = Cardinality(Units(escrow, Budget!Active(escrow, m)))
      BY <1>4, ActiveRowed, SumIsUnits
    <3> QED
      BY <2>1, <2>2, <2>3, <3>1
  <2> QED
    BY <2>1, <2>2, <2>4, Numbers DEF Within
<1>7. Budget!EscrowHolds
  <2>1. \A r \in UNION Crews : escrow[r] # Budget!NoEscrow =>
          escrow[r].spent <= escrow[r].tokens /\ escrow[r].used <= RunToolCalls
    BY <1>2 DEF Runs
  <2>2. \A r \in UNION Crews : sealed[r] # Budget!NoEscrow => escrow[r] = sealed[r]
    BY <1>2 DEF Runs
  <2> QED
    BY <1>6, <2>1, <2>2, SameCount, Zenon DEF Budget!EscrowHolds, Within
<1> QED
  BY <1>2, <1>3, <1>5, <1>7 DEF BudgetInv

-----------------------------------------------------------------------------
(* What is known of the source files.  A call shows the server the text     *)
(* first, and its answer and its label are of the text shown last.          *)
SessionBooks ==
  /\ documents \in [Source -> Seq(Body)]
  /\ published \in [Source -> Nat] /\ cached \in [Source -> Nat]
  /\ \A f \in Source : cached[f] <= published[f] /\ published[f] <= Len(documents[f])

FactTypes ==
  /\ disk \in [Source -> Facts!Content] /\ stamp \in [Source -> 0..MaxWrite]
  /\ ask \in Facts!Question \cup {Nothing}
  /\ facts \in [Facts!Kind \X Source -> Facts!Fact \cup {Nothing}]
  /\ edit \in Facts!Edit \cup {Nothing}
  /\ rows \in [Source -> Facts!Row \cup {Nothing}]
  /\ update \in Facts!Update \cup {Nothing}
  /\ settled \in BOOLEAN /\ searched \in BOOLEAN /\ stops \in 0..MaxStop

AskBooks ==
  ask # Nothing =>
    /\ update = Nothing
    /\ documents[ask.file] # <<>>
    /\ ask.kind = "edit" => ask.phase = "asked"
    /\ ask.kind = "symbols" /\ ask.phase # "asked" => ask.of = Facts!Newest(ask.file)
    /\ ask.phase = "labelled" => ask.hash = Facts!Newest(ask.file)
    /\ ~ask.raced => disk[ask.file] = Facts!Newest(ask.file)

(* A row whose stamp is the file's has the file's text, and so has what an  *)
(* update has read of it.                                                   *)
RowBooks ==
  /\ \A f \in Source : rows[f] # Nothing =>
       /\ rows[f].stamp <= stamp[f]
       /\ rows[f].stamp = stamp[f] => rows[f].text = disk[f]
  /\ update # Nothing /\ update.text # Nothing => update.file # Nothing
  /\ update # Nothing /\ update.file # Nothing =>
       /\ update.stamp <= stamp[update.file]
       /\ update.text # Nothing /\ update.stamp = stamp[update.file]
            => update.text = disk[update.file]

InTime(f) == disk[f] \in Body => rows[f] # Nothing /\ rows[f].text = disk[f]

(* An update nobody has written during: what it has done is right.          *)
UpdateBooks ==
  settled /\ update # Nothing =>
    /\ update.seen = {f \in Source : disk[f] # Gone}
    /\ update.todo \subseteq update.seen
    /\ update.file # Nothing =>
         /\ update.file \in update.seen \ update.todo
         /\ update.stamp = stamp[update.file]
    /\ \A f \in update.seen \ update.todo : f # update.file => InTime(f)

FactsInv ==
  /\ FactTypes /\ SessionBooks /\ AskBooks /\ RowBooks /\ UpdateBooks
  /\ Facts!SymbolsFit /\ Facts!FoundFactsAreCurrent /\ Facts!EditFits
  /\ Facts!IndexCatchesUp

(* Nothing is no call, fact, edit, row or update, and no file or text.      *)
LEMMA NothingElse ==
  /\ MaxWrite \in Nat /\ MaxStop \in Nat
  /\ Gone \notin Body /\ Unfit \notin Body /\ Gone # Unfit
  /\ Nothing \notin Source /\ Nothing \notin Body /\ Nothing # Unfit
  /\ Nothing \notin Facts!Question /\ Nothing \notin Facts!Fact /\ Nothing \notin Facts!Edit
  /\ Nothing \notin Facts!Row /\ Nothing \notin Facts!Update
BY InstanceAssumption

(* Nobody has asked, and the index is empty.                                *)
LEMMA FactsStart == Facts!Init => FactsInv
<1> SUFFICES ASSUME Facts!Init PROVE FactsInv
  OBVIOUS
<1>1. /\ disk \in [Source -> Body] /\ stamp = [f \in Source |-> 0]
      /\ documents = [f \in Source |-> <<>>]
      /\ published = [f \in Source |-> 0] /\ cached = [f \in Source |-> 0]
      /\ ask = Nothing /\ edit = Nothing
      /\ facts = [k \in Facts!Kind \X Source |-> Nothing]
      /\ rows = [f \in Source |-> Nothing] /\ update = Nothing
      /\ settled = FALSE /\ searched = FALSE /\ stops = 0
  BY DEF Facts!Init, Facts!None
<1>2. FactTypes
  <2>1. disk \in [Source -> Facts!Content]
    BY <1>1 DEF Facts!Content
  <2>2. stamp \in [Source -> 0..MaxWrite] /\ 0 \in 0..MaxStop
    BY <1>1, NothingElse
  <2> QED
    BY <1>1, <2>1, <2>2 DEF FactTypes
<1>3. SessionBooks
  <2>1. <<>> \in Seq(Body) /\ Len(<<>>) = 0
    OBVIOUS
  <2> QED
    BY <1>1, <2>1 DEF SessionBooks
<1>4. AskBooks /\ RowBooks /\ UpdateBooks
  BY <1>1 DEF AskBooks, RowBooks, UpdateBooks
<1>5. /\ Facts!SymbolsFit /\ Facts!FoundFactsAreCurrent /\ Facts!EditFits
      /\ Facts!IndexCatchesUp
  <2>1. \A f \in Source : <<"symbols", f>> \in Facts!Kind \X Source
    BY DEF Facts!Kind
  <2> QED
    BY <1>1, <2>1 DEF Facts!SymbolsFit, Facts!FoundFactsAreCurrent, Facts!EditFits,
      Facts!IndexCatchesUp
<1> QED
  BY <1>2, <1>3, <1>4, <1>5 DEF FactsInv

(* A file is written: what was said of its old text is not settled, and the *)
(* call that is under way knows.                                            *)
LEMMA FileWritten ==
  ASSUME FactsInv, NEW f \in Source, NEW c \in Facts!Content, Facts!Write(f, c)
  PROVE  FactsInv'
<1> USE NothingElse
<1>1. /\ stamp[f] < MaxWrite /\ c # disk[f]
      /\ disk' = [disk EXCEPT ![f] = c]
      /\ stamp' = [stamp EXCEPT ![f] = @ + 1]
      /\ settled' = FALSE /\ searched' = FALSE
      /\ ask' = IF ask # Nothing THEN [ask EXCEPT !.raced = TRUE] ELSE Nothing
      /\ UNCHANGED <<documents, published, cached, edit, facts, rows, update, stops>>
  BY DEF Facts!Write, Facts!sessionVars, Facts!indexVars
<1>2. /\ disk \in [Source -> Facts!Content] /\ stamp \in [Source -> 0..MaxWrite]
      /\ ask \in Facts!Question \cup {Nothing}
  BY DEF FactsInv, FactTypes
<1>3. /\ disk' \in [Source -> Facts!Content]
      /\ stamp' \in [Source -> 0..MaxWrite] /\ stamp'[f] = stamp[f] + 1
      /\ \A g \in Source : g # f => stamp'[g] = stamp[g] /\ disk'[g] = disk[g]
  BY <1>1, <1>2
<1>4. ask # Nothing =>
        /\ ask' \in Facts!Question /\ ask'.raced /\ ask'.kind = ask.kind /\ ask'.file = ask.file
        /\ ask'.phase = ask.phase /\ ask'.of = ask.of /\ ask'.hash = ask.hash
  <2>1. ASSUME ask # Nothing PROVE ask' = [ask EXCEPT !.raced = TRUE] /\ ask \in Facts!Question
    BY <1>1, <1>2, <2>1
  <2>2. ASSUME ask # Nothing
        PROVE  \E v \in BOOLEAN : v /\ ask' = [ask EXCEPT !.raced = v]
    BY <2>1, <2>2, Zenon
  <2> QED
    BY <2>1, <2>2 DEF Facts!Question
<1>5. FactTypes' /\ SessionBooks'
  <2>1. ask' \in Facts!Question \cup {Nothing}
    BY <1>1, <1>4
  <2> QED
    BY <1>1, <1>3, <2>1 DEF FactsInv, FactTypes, SessionBooks
<1>6. AskBooks'
  BY <1>1, <1>4 DEF FactsInv, AskBooks, Facts!Newest
<1>7. RowBooks'
  <2>1. \A g \in Source : stamp[g] \in Nat /\ (rows[g] # Nothing => rows[g].stamp \in Nat)
    BY <1>2 DEF FactsInv, FactTypes, Facts!Row
  <2>2. \A g \in Source : rows'[g] # Nothing =>
          /\ rows'[g].stamp <= stamp'[g]
          /\ rows'[g].stamp = stamp'[g] => rows'[g].text = disk'[g]
    BY <1>1, <1>3, <2>1 DEF FactsInv, RowBooks
  <2>3. update # Nothing /\ update.file # Nothing =>
          update.file \in Source /\ update.stamp \in Nat
    BY DEF FactsInv, FactTypes, Facts!Update
  <2> QED
    BY <1>1, <1>3, <2>1, <2>2, <2>3 DEF FactsInv, RowBooks
<1>8. UpdateBooks' /\ Facts!FoundFactsAreCurrent' /\ Facts!IndexCatchesUp'
  BY <1>1 DEF UpdateBooks, Facts!FoundFactsAreCurrent, Facts!IndexCatchesUp
<1>9. Facts!SymbolsFit' /\ Facts!EditFits'
  BY <1>1 DEF FactsInv, Facts!SymbolsFit, Facts!EditFits
<1> QED
  BY <1>5, <1>6, <1>7, <1>8, <1>9 DEF FactsInv

(* The server publishes; or the process, or the server's session, ends.     *)
LEMMA SessionKeeps ==
  ASSUME FactsInv,
         \/ \E f \in Source, v \in 1..MaxWrite + 1 : Facts!Publish(f, v)
         \/ Facts!Kill \/ Facts!StopServer
  PROVE  FactsInv'
<1> USE NothingElse
<1>1. CASE \E f \in Source, v \in 1..MaxWrite + 1 : Facts!Publish(f, v)
  <2>1. PICK f \in Source, v \in 1..MaxWrite + 1 : Facts!Publish(f, v)
    BY <1>1
  <2>2. /\ v \in published[f] + 1 .. Len(documents[f])
        /\ published' = [published EXCEPT ![f] = v]
        /\ UNCHANGED <<disk, stamp, documents, cached, ask, edit, facts, rows, update,
                       settled, searched, stops>>
    BY <2>1 DEF Facts!Publish, Facts!indexVars
  <2>3. /\ documents[f] \in Seq(Body) /\ published \in [Source -> Nat]
        /\ cached \in [Source -> Nat]
        /\ cached[f] <= published[f] /\ published[f] <= Len(documents[f])
    BY DEF FactsInv, SessionBooks
  <2>4. v \in Nat /\ cached[f] <= v /\ v <= Len(documents[f])
    BY <2>2, <2>3
  <2>5. SessionBooks'
    BY <2>2, <2>3, <2>4 DEF FactsInv, SessionBooks
  <2>6. FactTypes' /\ AskBooks' /\ RowBooks' /\ UpdateBooks'
    BY <2>2 DEF FactsInv, FactTypes, AskBooks, RowBooks, UpdateBooks, InTime, Facts!Newest
  <2>7. /\ Facts!SymbolsFit' /\ Facts!FoundFactsAreCurrent' /\ Facts!EditFits'
        /\ Facts!IndexCatchesUp'
    BY <2>2 DEF FactsInv, Facts!SymbolsFit, Facts!FoundFactsAreCurrent, Facts!EditFits,
      Facts!IndexCatchesUp
  <2> QED
    BY <2>5, <2>6, <2>7 DEF FactsInv
<1>2. CASE Facts!Kill \/ Facts!StopServer
  <2>1. /\ documents' = [f \in Source |-> <<>>]
        /\ published' = [f \in Source |-> 0] /\ cached' = [f \in Source |-> 0]
        /\ UNCHANGED <<disk, stamp, facts, rows, searched>>
        /\ ask' = Nothing
        /\ edit' \in {edit, Nothing}
    BY <1>2 DEF Facts!Kill, Facts!StopServer, Facts!indexVars
  <2>2. /\ settled' \in BOOLEAN /\ stops' \in 0..MaxStop
        /\ \/ UNCHANGED <<update, settled>>
           \/ update' = Nothing /\ (settled' <=> settled /\ update = Nothing)
    <3>1. settled \in BOOLEAN /\ stops \in 0..MaxStop
      BY DEF FactsInv, FactTypes
    <3>2. CASE Facts!Kill
      <4>1. /\ stops' = stops + 1 /\ stops < MaxStop /\ update' = Nothing
            /\ settled' = (settled /\ update = Nothing)
        BY <3>2 DEF Facts!Kill
      <4>2. settled' \in BOOLEAN /\ (settled' <=> settled /\ update = Nothing)
        BY <4>1, Zenon
      <4> QED
        BY <3>1, <4>1, <4>2
    <3>3. CASE Facts!StopServer
      BY <3>1, <3>3 DEF Facts!StopServer
    <3> QED
      BY <1>2, <3>2, <3>3
  <2>3. SessionBooks'
    <3>1. <<>> \in Seq(Body) /\ Len(<<>>) = 0
      OBVIOUS
    <3> QED
      BY <2>1, <3>1 DEF SessionBooks
  <2>4. FactTypes' /\ AskBooks' /\ RowBooks' /\ UpdateBooks'
    BY <2>1, <2>2 DEF FactsInv, FactTypes, AskBooks, RowBooks, UpdateBooks, InTime
  <2>5. /\ Facts!SymbolsFit' /\ Facts!FoundFactsAreCurrent' /\ Facts!EditFits'
        /\ Facts!IndexCatchesUp'
    BY <2>1, <2>2 DEF FactsInv, Facts!SymbolsFit, Facts!FoundFactsAreCurrent, Facts!EditFits,
      Facts!IndexCatchesUp
  <2> QED
    BY <2>3, <2>4, <2>5 DEF FactsInv
<1> QED
  BY <1>1, <1>2

(* The steps of a call that leave the files and the index alone.            *)
LEMMA SameIndex ==
  ASSUME FactsInv,
         UNCHANGED <<disk, stamp, facts, rows, update, settled, searched, stops>>,
         ask' \in Facts!Question \cup {Nothing}, edit' \in Facts!Edit \cup {Nothing}
  PROVE  /\ FactTypes' /\ RowBooks' /\ UpdateBooks'
         /\ Facts!SymbolsFit' /\ Facts!FoundFactsAreCurrent' /\ Facts!IndexCatchesUp'
<1>1. FactTypes' /\ RowBooks' /\ UpdateBooks'
  BY DEF FactsInv, FactTypes, RowBooks, UpdateBooks, InTime
<1>2. /\ Facts!SymbolsFit' /\ Facts!FoundFactsAreCurrent' /\ Facts!IndexCatchesUp'
  BY DEF FactsInv, Facts!SymbolsFit, Facts!FoundFactsAreCurrent, Facts!IndexCatchesUp
<1> QED
  BY <1>1, <1>2

(* After sync_document the text the server has newest is the file's.        *)
LEMMA ShownIsNewest ==
  ASSUME FactsInv, NEW f \in Source, disk[f] \in Body
  PROVE  /\ Facts!Synced(f) \in Seq(Body) /\ Facts!Synced(f) # <<>>
         /\ Len(documents[f]) <= Len(Facts!Synced(f)) /\ Len(documents[f]) \in Nat
         /\ Facts!Synced(f)[Len(Facts!Synced(f))] = disk[f]
<1>1. documents[f] \in Seq(Body)
  BY DEF FactsInv, SessionBooks
<1>2. CASE documents[f] # <<>> /\ Facts!Newest(f) = disk[f]
  BY <1>1, <1>2 DEF Facts!Synced, Facts!Newest
<1>3. CASE ~(documents[f] # <<>> /\ Facts!Newest(f) = disk[f])
  <2> DEFINE d == documents[f]
             t == disk[f]
  <2>1. Facts!Synced(f) = Append(d, t)
    BY <1>3 DEF Facts!Synced
  <2>2. d \in Seq(Body) /\ t \in Body
    BY <1>1
  <2> HIDE DEF d, t
  <2>3. /\ Append(d, t) \in Seq(Body) /\ Len(Append(d, t)) = Len(d) + 1
        /\ Append(d, t)[Len(d) + 1] = t /\ Len(d) \in Nat
    BY <2>2, AppendProperties
  <2>4. Append(d, t) # <<>>
    BY <2>3
  <2> QED
    BY <2>1, <2>3, <2>4 DEF d, t
<1> QED
  BY <1>2, <1>3

(* A call begins.                                                           *)
LEMMA AskedKeeps ==
  ASSUME FactsInv, NEW k \in Facts!Kind \cup {"edit"}, NEW f \in Source, NEW g \in Source,
         Facts!Ask(k, f, g)
  PROVE  FactsInv'
<1> USE NothingElse
<1>1. /\ update = Nothing /\ disk[f] \in Body
      /\ documents' = [documents EXCEPT ![f] = Facts!Synced(f)]
      /\ ask' = [kind |-> k, file |-> f, other |-> g, phase |-> "asked",
                 of |-> Nothing, hash |-> Nothing, raced |-> FALSE]
      /\ UNCHANGED <<disk, stamp, published, cached, edit, facts, rows, update, settled,
                     searched, stops>>
  BY DEF Facts!Ask, Facts!indexVars
<1>2. ask' \in Facts!Question /\ edit' \in Facts!Edit \cup {Nothing}
  BY <1>1 DEF Facts!Question, FactsInv, FactTypes
<1>3. /\ documents \in [Source -> Seq(Body)] /\ published \in [Source -> Nat]
      /\ cached \in [Source -> Nat]
      /\ \A h \in Source : cached[h] <= published[h] /\ published[h] <= Len(documents[h])
  BY DEF FactsInv, SessionBooks
<1> DEFINE s == Facts!Synced(f)
<1>4. /\ s \in Seq(Body) /\ s # <<>> /\ Len(documents[f]) <= Len(s)
      /\ Len(documents[f]) \in Nat /\ Len(s) \in Nat /\ s[Len(s)] = disk[f]
  BY <1>1, ShownIsNewest
<1>5. documents' = [documents EXCEPT ![f] = s]
  BY <1>1
<1> HIDE DEF s
<1>6. documents' \in [Source -> Seq(Body)] /\ documents'[f] = s
      /\ \A h \in Source : h # f => documents'[h] = documents[h]
  BY <1>3, <1>4, <1>5
<1>7. SessionBooks'
  <2>1. published[f] <= Len(s)
    BY <1>3, <1>4
  <2> QED
    BY <1>1, <1>3, <1>6, <2>1 DEF SessionBooks
<1>8. AskBooks'
  BY <1>1, <1>4, <1>6 DEF AskBooks, Facts!Newest
<1>9. /\ FactTypes' /\ RowBooks' /\ UpdateBooks'
      /\ Facts!SymbolsFit' /\ Facts!FoundFactsAreCurrent' /\ Facts!IndexCatchesUp'
  BY <1>1, <1>2, SameIndex
<1>10. Facts!EditFits'
  BY <1>1 DEF FactsInv, Facts!EditFits
<1> QED
  BY <1>7, <1>8, <1>9, <1>10 DEF FactsInv

(* A call goes on or ends.                                                  *)
LEMMA AnswerKeeps ==
  ASSUME FactsInv, Facts!Symbols \/ Facts!Diagnostics \/ Facts!Label \/ Facts!Drop
  PROVE  FactsInv'
<1> USE NothingElse
<1>1. /\ ask # Nothing /\ cached' \in {cached, published}
      /\ UNCHANGED <<disk, stamp, documents, published, edit, facts, rows, update, settled,
                     searched, stops>>
  BY DEF Facts!Symbols, Facts!Diagnostics, Facts!Label, Facts!Drop, Facts!sessionVars,
    Facts!indexVars
<1>2. /\ documents \in [Source -> Seq(Body)] /\ published \in [Source -> Nat]
      /\ cached \in [Source -> Nat]
      /\ \A h \in Source : cached[h] <= published[h] /\ published[h] <= Len(documents[h])
  BY DEF FactsInv, SessionBooks
<1>3. SessionBooks'
  BY <1>1, <1>2 DEF SessionBooks
<1>4. /\ ask \in Facts!Question /\ ask.file \in Source /\ update = Nothing
      /\ documents[ask.file] # <<>> /\ documents[ask.file] \in Seq(Body)
      /\ ask.kind = "edit" => ask.phase = "asked"
      /\ ask.kind = "symbols" /\ ask.phase # "asked" => ask.of = Facts!Newest(ask.file)
      /\ ~ask.raced => disk[ask.file] = Facts!Newest(ask.file)
  BY <1>1, <1>2 DEF FactsInv, FactTypes, AskBooks, Facts!Question
<1>5. Facts!Newest(ask.file) \in Body
  BY <1>4 DEF Facts!Newest
<1>6. ask' \in Facts!Question \cup {Nothing} /\ AskBooks'
  <2>1. CASE Facts!Symbols
    <3>1. /\ ask.kind = "symbols"
          /\ ask' = [ask EXCEPT !.phase = "answered", !.of = Facts!Newest(ask.file)]
      BY <2>1 DEF Facts!Symbols
    <3>2. /\ ask' \in Facts!Question /\ ask'.kind = ask.kind /\ ask'.file = ask.file
          /\ ask'.phase = "answered" /\ ask'.of = Facts!Newest(ask.file)
          /\ ask'.raced = ask.raced
      BY <1>4, <1>5, <3>1 DEF Facts!Question
    <3> QED
      BY <1>1, <1>4, <3>1, <3>2 DEF AskBooks, Facts!Newest
  <2>2. CASE Facts!Diagnostics
    <3>1. /\ ask.kind = "diagnostics" /\ cached' = published
          /\ ask' = [ask EXCEPT !.phase = "answered",
                       !.of = IF cached'[ask.file] = 0 THEN Nothing
                              ELSE documents[ask.file][cached'[ask.file]]]
      BY <2>2 DEF Facts!Diagnostics
    <3>2. cached'[ask.file] # 0 => documents[ask.file][cached'[ask.file]] \in Body
      <4>1. cached'[ask.file] # 0 => cached'[ask.file] \in 1..Len(documents[ask.file])
        BY <1>2, <1>4, <3>1
      <4> QED
        BY <1>4, <4>1
    <3>3. /\ ask' \in Facts!Question /\ ask'.kind = ask.kind /\ ask'.file = ask.file
          /\ ask'.phase = "answered" /\ ask'.raced = ask.raced
      BY <1>4, <3>1, <3>2 DEF Facts!Question
    <3> QED
      BY <1>1, <1>4, <3>1, <3>3 DEF AskBooks, Facts!Newest
  <2>3. CASE Facts!Label
    <3>1. /\ ask.kind \in Facts!Kind /\ ask.phase = "answered"
          /\ ask' = [ask EXCEPT !.phase = "labelled", !.hash = Facts!Newest(ask.file)]
      BY <2>3 DEF Facts!Label
    <3>2. /\ ask' \in Facts!Question /\ ask'.kind = ask.kind /\ ask'.file = ask.file
          /\ ask'.phase = "labelled" /\ ask'.of = ask.of /\ ask'.hash = Facts!Newest(ask.file)
          /\ ask'.raced = ask.raced
      BY <1>4, <1>5, <3>1 DEF Facts!Question
    <3>3. ask'.kind # "edit"
      BY <3>1, <3>2 DEF Facts!Kind
    <3> QED
      BY <1>1, <1>4, <3>1, <3>2, <3>3 DEF AskBooks, Facts!Newest
  <2>4. CASE Facts!Drop
    BY <2>4 DEF Facts!Drop, AskBooks
  <2> QED
    BY <2>1, <2>2, <2>3, <2>4
<1>7. edit' \in Facts!Edit \cup {Nothing} /\ Facts!EditFits'
  BY <1>1 DEF FactsInv, FactTypes, Facts!EditFits
<1>8. /\ FactTypes' /\ RowBooks' /\ UpdateBooks'
      /\ Facts!SymbolsFit' /\ Facts!FoundFactsAreCurrent' /\ Facts!IndexCatchesUp'
  BY <1>1, <1>6, <1>7, SameIndex
<1> QED
  BY <1>3, <1>6, <1>7, <1>8 DEF FactsInv

(* A change is computed on the text the server has, which for the file of a *)
(* call that was not overtaken is the text the file has.                    *)
LEMMA ComputeKeeps ==
  ASSUME FactsInv, NEW f \in Source, Facts!Compute(f)
  PROVE  FactsInv'
<1> USE NothingElse
<1>1. PICK t \in Facts!MadeFor(f) :
        edit' = [before |-> disk[f], of |-> t, raced |-> ask.raced, source |-> f = ask.file]
  BY DEF Facts!Compute
<1>2. /\ ask # Nothing /\ disk[f] \in Body /\ ask' = Nothing
      /\ UNCHANGED <<disk, stamp, documents, published, cached, facts, rows, update, settled,
                     searched, stops>>
  BY DEF Facts!Compute, Facts!sessionVars, Facts!indexVars
<1>3. /\ ask \in Facts!Question /\ ask.file \in Source /\ ask.raced \in BOOLEAN
      /\ documents[ask.file] # <<>> /\ documents[f] \in Seq(Body)
      /\ ~ask.raced => disk[ask.file] = Facts!Newest(ask.file)
  BY <1>2 DEF FactsInv, FactTypes, AskBooks, SessionBooks, Facts!Question
<1>4. t \in Body /\ (documents[f] # <<>> => t = Facts!Newest(f))
  BY <1>3 DEF Facts!MadeFor, Facts!Newest
<1>5. PICK v \in BOOLEAN : v <=> f = ask.file
  OBVIOUS
<1>6. /\ edit'.before = disk[f] /\ edit'.of = t /\ (edit'.raced <=> ask.raced)
      /\ (edit'.source <=> f = ask.file) /\ edit' \in Facts!Edit
  <2>1. edit' = [before |-> disk[f], of |-> t, raced |-> ask.raced, source |-> v]
    BY <1>1, <1>5, Zenon
  <2> QED
    BY ONLY <1>2, <1>3, <1>4, <1>5, <2>1 DEF Facts!Edit
<1>7. Facts!EditFits'
  <2>1. ASSUME edit'.source, ~edit'.raced PROVE edit'.before = edit'.of
    BY <1>3, <1>4, <1>6, <2>1
  <2> QED
    BY <2>1 DEF Facts!EditFits
<1>8. SessionBooks' /\ AskBooks'
  BY <1>2 DEF FactsInv, SessionBooks, AskBooks
<1>9. /\ FactTypes' /\ RowBooks' /\ UpdateBooks'
      /\ Facts!SymbolsFit' /\ Facts!FoundFactsAreCurrent' /\ Facts!IndexCatchesUp'
  BY <1>2, <1>6, SameIndex
<1> QED
  BY <1>7, <1>8, <1>9 DEF FactsInv

(* The steps of the index that leave the calls alone.                       *)
LEMMA SameCalls ==
  ASSUME FactsInv, ask' \in {ask, Nothing}, update' = Nothing \/ ask = Nothing,
         UNCHANGED <<disk, documents, published, cached, edit>>
  PROVE  SessionBooks' /\ AskBooks' /\ Facts!EditFits'
<1>1. SessionBooks' /\ Facts!EditFits'
  BY DEF FactsInv, SessionBooks, Facts!EditFits
<1>2. AskBooks'
  BY DEF FactsInv, AskBooks, Facts!Newest
<1> QED
  BY <1>1, <1>2

(* The facts of a call are kept if its file has the text they are of.       *)
LEMMA IngestKeeps ==
  ASSUME FactsInv, Facts!Ingest PROVE FactsInv'
<1> USE NothingElse
<1> DEFINE f == ask.file
           kind == ask.kind
<1>1. /\ ask # Nothing /\ ask.phase = "labelled" /\ ask' = Nothing
      /\ facts' = [facts EXCEPT ![<<kind, f>>] =
           IF Facts!Binding(f) = {} THEN @
           ELSE IF ask.of = Nothing THEN Nothing
           ELSE [bound |-> CHOOSE t \in Facts!Binding(f) : TRUE, of |-> ask.of]]
      /\ UNCHANGED <<disk, stamp, documents, published, cached, edit, rows, update, settled,
                     searched, stops>>
  BY DEF Facts!Ingest, Facts!sessionVars
<1>2. /\ ask \in Facts!Question /\ f \in Source /\ ask.of \in Body \cup {Nothing}
      /\ update = Nothing /\ kind \in Facts!Kind \cup {"edit"} /\ kind # "edit"
      /\ ask.hash = Facts!Newest(f)
      /\ kind = "symbols" => ask.of = Facts!Newest(f)
  BY <1>1 DEF FactsInv, FactTypes, AskBooks, Facts!Question
<1>3. <<kind, f>> \in Facts!Kind \X Source
      /\ facts \in [Facts!Kind \X Source -> Facts!Fact \cup {Nothing}]
  BY <1>2 DEF FactsInv, FactTypes
<1>4. PICK v \in Facts!Fact \cup {Nothing} :
        /\ facts' = [facts EXCEPT ![<<kind, f>>] = v]
        /\ v # Nothing /\ v # facts[<<kind, f>>] =>
             /\ v.bound = disk[f] /\ (kind = "symbols" => v.of = v.bound)
  <2>1. CASE Facts!Binding(f) = {}
    <3>1. facts' = [facts EXCEPT ![<<kind, f>>] = facts[<<kind, f>>]]
      BY <1>1, <2>1
    <3>2. facts[<<kind, f>>] \in Facts!Fact \cup {Nothing}
      BY <1>3
    <3> QED
      BY <3>1, <3>2
  <2>2. CASE Facts!Binding(f) # {} /\ ask.of = Nothing
    <3>1. facts' = [facts EXCEPT ![<<kind, f>>] = Nothing]
      BY <1>1, <2>2
    <3> QED
      BY <3>1
  <2>3. CASE Facts!Binding(f) # {} /\ ask.of # Nothing
    <3> DEFINE b == CHOOSE t \in Facts!Binding(f) : TRUE
    <3>1. b \in Facts!Binding(f)
      BY <2>3
    <3>2. facts' = [facts EXCEPT ![<<kind, f>>] = [bound |-> b, of |-> ask.of]]
      BY <1>1, <2>3
    <3> HIDE DEF b
    <3>3. b \in Body /\ b = disk[f] /\ b = ask.hash
      BY <3>1 DEF Facts!Binding
    <3> DEFINE w == [bound |-> b, of |-> ask.of]
    <3>4. w \in Facts!Fact /\ w.bound = b /\ w.of = ask.of
      BY <1>2, <2>3, <3>3 DEF Facts!Fact
    <3>5. w.bound = disk[f] /\ (kind = "symbols" => w.of = w.bound)
      BY <1>2, <3>3, <3>4
    <3>6. facts' = [facts EXCEPT ![<<kind, f>>] = w]
      BY <3>2
    <3> HIDE DEF w, f, kind
    <3> QED
      BY <3>4, <3>5, <3>6
  <2> QED
    BY <2>1, <2>2, <2>3
<1> HIDE DEF f, kind
<1>5. /\ facts' \in [Facts!Kind \X Source -> Facts!Fact \cup {Nothing}]
      /\ facts'[<<kind, f>>] = v
      /\ \A k \in Facts!Kind \X Source : k # <<kind, f>> => facts'[k] = facts[k]
  BY <1>3, <1>4
<1>6. FactTypes' /\ RowBooks' /\ UpdateBooks' /\ Facts!IndexCatchesUp'
  BY <1>1, <1>5 DEF FactsInv, FactTypes, RowBooks, UpdateBooks, InTime, Facts!IndexCatchesUp
<1>7. Facts!SymbolsFit'
  <2>1. SUFFICES ASSUME NEW g \in Source, facts'[<<"symbols", g>>] # Nothing
                 PROVE  facts'[<<"symbols", g>>].of = facts'[<<"symbols", g>>].bound
    BY DEF Facts!SymbolsFit
  <2>2. <<"symbols", g>> \in Facts!Kind \X Source
    BY DEF Facts!Kind
  <2>3. facts[<<"symbols", g>>] # Nothing =>
          facts[<<"symbols", g>>].of = facts[<<"symbols", g>>].bound
    BY DEF FactsInv, Facts!SymbolsFit
  <2>4. CASE <<"symbols", g>> = <<kind, f>>
    <3>1. kind = "symbols" /\ facts'[<<"symbols", g>>] = v
      BY <1>5, <2>4
    <3> QED
      BY <1>4, <2>1, <2>3, <2>4, <3>1
  <2>5. CASE <<"symbols", g>> # <<kind, f>>
    BY <1>5, <2>1, <2>2, <2>3, <2>5
  <2> QED
    BY <2>4, <2>5
<1>8. Facts!FoundFactsAreCurrent'
  <2>1. SUFFICES ASSUME searched', NEW g \in Source, NEW k \in Facts!Kind,
                        facts'[<<k, g>>] # Nothing
                 PROVE  facts'[<<k, g>>].bound = disk'[g]
    BY DEF Facts!FoundFactsAreCurrent
  <2>2. /\ <<k, g>> \in Facts!Kind \X Source
        /\ facts[<<k, g>>] # Nothing => facts[<<k, g>>].bound = disk[g]
    BY <1>1, <2>1 DEF FactsInv, Facts!FoundFactsAreCurrent
  <2>3. CASE <<k, g>> = <<kind, f>>
    <3>1. g = f /\ facts'[<<k, g>>] = v
      BY <1>5, <2>3
    <3> QED
      BY <1>1, <1>4, <2>1, <2>2, <2>3, <3>1
  <2>4. CASE <<k, g>> # <<kind, f>>
    BY <1>1, <1>5, <2>1, <2>2, <2>4
  <2> QED
    BY <2>3, <2>4
<1>9. SessionBooks' /\ AskBooks' /\ Facts!EditFits'
  BY <1>1, <1>2, SameCalls
<1> QED
  BY <1>6, <1>7, <1>8, <1>9 DEF FactsInv

(* Facts are only removed: those that stay are as right as they were.       *)
LEMMA FewerFacts ==
  ASSUME FactsInv, facts' \in [Facts!Kind \X Source -> Facts!Fact \cup {Nothing}],
         \A k \in Facts!Kind \X Source : facts'[k] \in {facts[k], Nothing},
         UNCHANGED disk
  PROVE  /\ Facts!SymbolsFit' /\ (UNCHANGED searched => Facts!FoundFactsAreCurrent')
<1>1. \A f \in Source : <<"symbols", f>> \in Facts!Kind \X Source
  BY DEF Facts!Kind
<1>2. \A f \in Source, k \in Facts!Kind : <<k, f>> \in Facts!Kind \X Source
  OBVIOUS
<1>3. Facts!SymbolsFit'
  BY <1>1 DEF FactsInv, Facts!SymbolsFit
<1>4. ASSUME UNCHANGED searched PROVE Facts!FoundFactsAreCurrent'
  BY <1>2, <1>4 DEF FactsInv, Facts!FoundFactsAreCurrent
<1> QED
  BY <1>3, <1>4

(* A search removes facts of other texts; /index clear removes everything.  *)
LEMMA SearchKeeps ==
  ASSUME FactsInv, Facts!Search \/ Facts!Clear PROVE FactsInv'
<1> USE NothingElse
<1>1. /\ ask = Nothing /\ update = Nothing
      /\ UNCHANGED <<disk, stamp, documents, published, cached, ask, edit, update, stops>>
  BY DEF Facts!Search, Facts!Clear, Facts!sessionVars
<1>2. /\ facts \in [Facts!Kind \X Source -> Facts!Fact \cup {Nothing}]
      /\ searched \in BOOLEAN /\ settled \in BOOLEAN
      /\ rows \in [Source -> Facts!Row \cup {Nothing}]
  BY DEF FactsInv, FactTypes
<1>3. CASE Facts!Search
  <2>1. /\ facts' = [k \in Facts!Kind \X Source |-> Facts!Pruned(k[1], k[2])]
        /\ searched' = TRUE /\ UNCHANGED <<rows, settled>>
    BY <1>3 DEF Facts!Search
  <2>2. ASSUME NEW k \in Facts!Kind \X Source
        PROVE  /\ facts'[k] \in {facts[k], Nothing} /\ facts[k] \in Facts!Fact \cup {Nothing}
               /\ facts'[k] # Nothing => facts'[k].bound = disk[k[2]]
    <3>1. facts'[k] = Facts!Pruned(k[1], k[2]) /\ <<k[1], k[2]>> = k
      BY <2>1
    <3> QED
      BY <1>2, <3>1 DEF Facts!Pruned
  <2>3. facts' \in [Facts!Kind \X Source -> Facts!Fact \cup {Nothing}]
    BY <2>1, <2>2
  <2>4. Facts!SymbolsFit'
    BY <1>1, <2>2, <2>3, FewerFacts
  <2>5. Facts!FoundFactsAreCurrent'
    <3>1. \A f \in Source, k \in Facts!Kind :
            <<k, f>> \in Facts!Kind \X Source /\ <<k, f>>[2] = f
      OBVIOUS
    <3> QED
      BY <1>1, <2>2, <3>1 DEF Facts!FoundFactsAreCurrent
  <2>6. FactTypes' /\ RowBooks' /\ UpdateBooks' /\ Facts!IndexCatchesUp'
    BY <1>1, <2>1, <2>3 DEF FactsInv, FactTypes, RowBooks, UpdateBooks, Facts!IndexCatchesUp
  <2> QED
    BY <1>1, <2>4, <2>5, <2>6, SameCalls DEF FactsInv
<1>4. CASE Facts!Clear
  <2>1. /\ rows' = [f \in Source |-> Nothing]
        /\ facts' = [k \in Facts!Kind \X Source |-> Nothing]
        /\ settled' = FALSE /\ UNCHANGED searched
    BY <1>4 DEF Facts!Clear, Facts!None
  <2>2. Facts!SymbolsFit' /\ Facts!FoundFactsAreCurrent'
    <3>1. /\ facts' \in [Facts!Kind \X Source -> Facts!Fact \cup {Nothing}]
          /\ \A k \in Facts!Kind \X Source : facts'[k] \in {facts[k], Nothing}
      BY <2>1
    <3> QED
      BY <1>1, <2>1, <3>1, FewerFacts
  <2>3. FactTypes' /\ RowBooks' /\ UpdateBooks' /\ Facts!IndexCatchesUp'
    BY <1>1, <2>1 DEF FactsInv, FactTypes, RowBooks, UpdateBooks, Facts!IndexCatchesUp
  <2> QED
    BY <1>1, <2>2, <2>3, SameCalls DEF FactsInv
<1> QED
  BY <1>3, <1>4

(* The steps of an update that leave files, calls and index alone.          *)
LEMMA SameRows ==
  ASSUME FactsInv, update' \in Facts!Update \cup {Nothing}, settled' \in BOOLEAN,
         UNCHANGED <<disk, stamp, documents, published, cached, edit, ask, facts, rows,
                     searched, stops>>
  PROVE  /\ FactTypes'
         /\ \A f \in Source : rows'[f] # Nothing =>
              /\ rows'[f].stamp <= stamp'[f]
              /\ rows'[f].stamp = stamp'[f] => rows'[f].text = disk'[f]
         /\ Facts!SymbolsFit' /\ Facts!FoundFactsAreCurrent'
<1>1. FactTypes'
  BY DEF FactsInv, FactTypes
<1>2. /\ \A f \in Source : rows'[f] # Nothing =>
           /\ rows'[f].stamp <= stamp'[f]
           /\ rows'[f].stamp = stamp'[f] => rows'[f].text = disk'[f]
      /\ Facts!SymbolsFit' /\ Facts!FoundFactsAreCurrent'
  BY DEF FactsInv, RowBooks, Facts!SymbolsFit, Facts!FoundFactsAreCurrent
<1> QED
  BY <1>1, <1>2

(* An update begins with the files there are.                               *)
LEMMA BeginUpdateKeeps ==
  ASSUME FactsInv, Facts!BeginUpdate PROVE FactsInv'
<1> USE NothingElse
<1> DEFINE files == {f \in Source : disk[f] # Gone}
<1>1. /\ update = Nothing /\ ask = Nothing /\ settled' = TRUE
      /\ update' = [todo |-> files, seen |-> files, file |-> Nothing, stamp |-> 0,
                    text |-> Nothing]
      /\ UNCHANGED <<disk, stamp, documents, published, cached, edit, ask, facts, rows,
                     searched, stops>>
  BY DEF Facts!BeginUpdate, Facts!sessionVars, Facts!indexVars
<1>2. files \in SUBSET Source /\ 0 \in 0..MaxWrite
  OBVIOUS
<1> HIDE DEF files
<1>3. /\ update' \in Facts!Update /\ update'.file = Nothing /\ update'.text = Nothing
      /\ update'.seen = files /\ update'.todo = files
  BY <1>1, <1>2 DEF Facts!Update
<1>4. /\ FactTypes' /\ Facts!SymbolsFit' /\ Facts!FoundFactsAreCurrent'
      /\ \A f \in Source : rows'[f] # Nothing =>
           /\ rows'[f].stamp <= stamp'[f]
           /\ rows'[f].stamp = stamp'[f] => rows'[f].text = disk'[f]
  BY <1>1, <1>3, SameRows
<1>5. RowBooks'
  BY <1>3, <1>4 DEF RowBooks
<1>6. update' # Nothing
  BY <1>3
<1>7. UpdateBooks' /\ Facts!IndexCatchesUp'
  BY <1>1, <1>3, <1>6 DEF UpdateBooks, Facts!IndexCatchesUp, files
<1> QED
  BY <1>1, <1>4, <1>5, <1>7, SameCalls DEF FactsInv

(* A file is passed over when its row is of its time, and is to be read     *)
(* otherwise; one that is gone ends the update.                             *)
LEMMA StatKeeps ==
  ASSUME FactsInv, NEW f \in Source, Facts!Stat(f) PROVE FactsInv'
<1> USE NothingElse
<1>1. /\ update # Nothing /\ update.file = Nothing /\ f \in update.todo
      /\ UNCHANGED <<disk, stamp, documents, published, cached, edit, ask, facts, rows,
                     searched, stops>>
  BY DEF Facts!Stat, Facts!sessionVars, Facts!indexVars
<1>2. /\ update \in Facts!Update /\ update.text = Nothing /\ ask = Nothing
      /\ stamp \in [Source -> 0..MaxWrite] /\ settled \in BOOLEAN
      /\ disk[f] \in Facts!Content
  BY <1>1 DEF FactsInv, FactTypes, RowBooks, AskBooks
<1>3. CASE disk[f] = Gone
  <2>1. update' = Nothing /\ settled' = FALSE
    BY <1>3 DEF Facts!Stat
  <2>2. /\ FactTypes' /\ RowBooks' /\ Facts!SymbolsFit' /\ Facts!FoundFactsAreCurrent'
    BY <1>1, <2>1, SameRows DEF RowBooks
  <2>3. UpdateBooks' /\ Facts!IndexCatchesUp'
    BY <2>1 DEF UpdateBooks, Facts!IndexCatchesUp
  <2> QED
    BY <1>1, <1>2, <2>2, <2>3, SameCalls DEF FactsInv
<1>4. CASE disk[f] # Gone
  <2>1. /\ settled' = settled
        /\ \/ /\ rows[f] # Nothing /\ rows[f].stamp = stamp[f]
              /\ update' = [update EXCEPT !.todo = @ \ {f}]
           \/ update' = [update EXCEPT !.todo = @ \ {f}, !.file = f, !.stamp = stamp[f]]
    BY <1>4 DEF Facts!Stat
  <2>2. /\ update' \in Facts!Update /\ update'.todo = update.todo \ {f}
        /\ update'.seen = update.seen /\ update'.text = Nothing
        /\ \/ /\ rows[f] # Nothing /\ rows[f].stamp = stamp[f] /\ update'.file = Nothing
           \/ update'.file = f /\ update'.stamp = stamp[f]
    <3>1. CASE rows[f] # Nothing /\ rows[f].stamp = stamp[f]
               /\ update' = [update EXCEPT !.todo = @ \ {f}]
      BY <1>1, <1>2, <3>1 DEF Facts!Update
    <3>2. CASE update' = [update EXCEPT !.todo = @ \ {f}, !.file = f, !.stamp = stamp[f]]
      <4>1. stamp[f] \in 0..MaxWrite
        BY <1>2
      <4> QED
        BY <1>1, <1>2, <3>2, <4>1 DEF Facts!Update
    <3> QED
      BY <2>1, <3>1, <3>2
  <2>3. update' # Nothing
    BY <2>2
  <2>4. /\ FactTypes' /\ Facts!SymbolsFit' /\ Facts!FoundFactsAreCurrent'
        /\ \A g \in Source : rows'[g] # Nothing =>
             /\ rows'[g].stamp <= stamp'[g]
             /\ rows'[g].stamp = stamp'[g] => rows'[g].text = disk'[g]
    BY <1>1, <1>2, <2>1, <2>2, SameRows
  <2>5. RowBooks'
    BY <1>1, <1>2, <2>2, <2>4 DEF RowBooks
  <2>6. rows[f] # Nothing /\ rows[f].stamp = stamp[f] => InTime(f)
    BY DEF FactsInv, RowBooks, InTime
  <2>7. UpdateBooks'
    <3>1. ASSUME settled
          PROVE  /\ update.seen = {g \in Source : disk[g] # Gone}
                 /\ update.todo \subseteq update.seen
                 /\ \A g \in update.seen \ update.todo : InTime(g)
      BY <1>1, <3>1 DEF FactsInv, UpdateBooks
    <3>2. ASSUME NEW g \in Source PROVE InTime(g)' <=> InTime(g)
      BY <1>1 DEF InTime
    <3>3. ASSUME settled
          PROVE  /\ update'.seen = {g \in Source : disk'[g] # Gone}
                 /\ update'.todo \subseteq update'.seen
                 /\ update'.file # Nothing =>
                      /\ update'.file \in update'.seen \ update'.todo
                      /\ update'.stamp = stamp'[update'.file]
      BY <1>1, <1>4, <2>2, <3>1, <3>3
    <3>4. ASSUME settled, NEW g \in update'.seen \ update'.todo, g # update'.file
          PROVE  InTime(g)'
      <4>1. g \in Source
        BY <1>1, <3>3, <3>4
      <4>2. InTime(g)
        BY <2>2, <2>6, <3>1, <3>4
      <4> QED
        BY <3>2, <4>1, <4>2
    <3> QED
      BY <2>1, <3>3, <3>4 DEF UpdateBooks, InTime
  <2>8. Facts!IndexCatchesUp'
    BY <2>3 DEF Facts!IndexCatchesUp
  <2> QED
    BY <1>1, <1>2, <2>4, <2>5, <2>7, <2>8, SameCalls DEF FactsInv
<1> QED
  BY <1>3, <1>4

(* The file is read: its text, or it is gone and the update ends.           *)
LEMMA ReadFileKeeps ==
  ASSUME FactsInv, Facts!ReadFile PROVE FactsInv'
<1> USE NothingElse
<1>1. /\ update # Nothing /\ update.file # Nothing /\ update.text = Nothing
      /\ update' = IF disk[update.file] = Gone THEN Nothing
                   ELSE [update EXCEPT !.text = disk[update.file]]
      /\ settled' = (settled /\ disk[update.file] # Gone)
      /\ UNCHANGED <<disk, stamp, documents, published, cached, edit, ask, facts, rows,
                     searched, stops>>
  BY DEF Facts!ReadFile, Facts!sessionVars, Facts!indexVars
<1>2. /\ update \in Facts!Update /\ update.file \in Source /\ ask = Nothing
      /\ settled \in BOOLEAN /\ disk[update.file] \in Facts!Content
  BY <1>1 DEF FactsInv, FactTypes, AskBooks, Facts!Update
<1>3. /\ settled' \in BOOLEAN
      /\ settled' <=> settled /\ disk[update.file] # Gone
  BY <1>1, Zenon
<1>4. CASE disk[update.file] = Gone
  <2>1. update' = Nothing /\ settled' = FALSE
    BY <1>1, <1>3, <1>4
  <2>2. /\ FactTypes' /\ RowBooks' /\ Facts!SymbolsFit' /\ Facts!FoundFactsAreCurrent'
    BY <1>1, <2>1, SameRows DEF RowBooks
  <2>3. UpdateBooks' /\ Facts!IndexCatchesUp'
    BY <2>1 DEF UpdateBooks, Facts!IndexCatchesUp
  <2> QED
    BY <1>1, <1>2, <2>2, <2>3, SameCalls DEF FactsInv
<1>5. CASE disk[update.file] # Gone
  <2>1. update' = [update EXCEPT !.text = disk[update.file]] /\ settled' = settled
    BY <1>1, <1>2, <1>3, <1>5
  <2>2. disk[update.file] \in Body \cup {Unfit}
    BY <1>2, <1>5 DEF Facts!Content
  <2>3. /\ update' \in Facts!Update /\ update'.text = disk[update.file]
        /\ update'.file = update.file /\ update'.stamp = update.stamp
        /\ update'.seen = update.seen /\ update'.todo = update.todo
    BY <1>2, <2>1, <2>2 DEF Facts!Update
  <2>4. update' # Nothing
    BY <2>3
  <2>5. /\ FactTypes' /\ Facts!SymbolsFit' /\ Facts!FoundFactsAreCurrent'
        /\ \A g \in Source : rows'[g] # Nothing =>
             /\ rows'[g].stamp <= stamp'[g]
             /\ rows'[g].stamp = stamp'[g] => rows'[g].text = disk'[g]
    BY <1>1, <1>3, <2>3, SameRows
  <2>6. RowBooks'
    <3>1. update.stamp <= stamp[update.file]
      BY <1>1 DEF FactsInv, RowBooks
    <3> QED
      BY <1>1, <2>3, <2>5, <3>1 DEF RowBooks
  <2>7. UpdateBooks'
    BY <1>1, <2>1, <2>3 DEF FactsInv, UpdateBooks, InTime
  <2>8. Facts!IndexCatchesUp'
    BY <2>4 DEF Facts!IndexCatchesUp
  <2> QED
    BY <1>1, <1>2, <2>5, <2>6, <2>7, <2>8, SameCalls DEF FactsInv
<1> QED
  BY <1>4, <1>5

(* The row of the file is stored.  It is right unless the file was written  *)
(* after its time was taken, which the row does not hide.                   *)
LEMMA StoreKeeps ==
  ASSUME FactsInv, Facts!Store PROVE FactsInv'
<1> USE NothingElse
<1> DEFINE f == update.file
<1>1. /\ update # Nothing /\ update.text # Nothing
      /\ update' = [update EXCEPT !.file = Nothing, !.text = Nothing]
      /\ UNCHANGED <<disk, stamp, documents, published, cached, edit, ask, settled,
                     searched, stops>>
  BY DEF Facts!Store, Facts!sessionVars
<1>2. /\ update \in Facts!Update /\ f \in Source /\ ask = Nothing
      /\ update.text \in Body \cup {Unfit} /\ update.stamp \in 0..MaxWrite
      /\ update.stamp <= stamp[f] /\ stamp \in [Source -> 0..MaxWrite]
      /\ update.stamp = stamp[f] => update.text = disk[f]
      /\ rows \in [Source -> Facts!Row \cup {Nothing}]
      /\ facts \in [Facts!Kind \X Source -> Facts!Fact \cup {Nothing}]
  BY <1>1 DEF FactsInv, FactTypes, AskBooks, RowBooks, Facts!Update
<1>3. /\ update' \in Facts!Update /\ update'.file = Nothing /\ update'.text = Nothing
      /\ update'.seen = update.seen /\ update'.todo = update.todo
  BY <1>1, <1>2 DEF Facts!Update
<1>4. update' # Nothing
  BY <1>3
<1> HIDE DEF f
<1>5. /\ rows' \in [Source -> Facts!Row \cup {Nothing}]
      /\ \A g \in Source : g # f => rows'[g] = rows[g]
      /\ IF update.text = Unfit THEN rows'[f] = rows[f]
         ELSE /\ rows'[f] # Nothing /\ rows'[f].text = update.text
              /\ rows'[f].stamp = update.stamp
      /\ facts' \in [Facts!Kind \X Source -> Facts!Fact \cup {Nothing}]
      /\ \A k \in Facts!Kind \X Source : facts'[k] \in {facts[k], Nothing}
  <2>1. CASE update.text = Unfit
    BY <1>2, <2>1 DEF Facts!Store, Facts!indexVars
  <2>2. CASE update.text # Unfit
    <3>1. /\ rows' = [rows EXCEPT ![f] = [text |-> update.text, stamp |-> update.stamp]]
          /\ facts' = [k \in Facts!Kind \X Source |->
               IF k[2] = f /\ ~(rows[f] # Nothing /\ rows[f].text = update.text)
                  /\ facts[k] # Nothing /\ facts[k].bound # update.text
               THEN Nothing ELSE facts[k]]
      BY <2>2 DEF Facts!Store, Facts!Stamped, f
    <3> DEFINE row == [text |-> update.text, stamp |-> update.stamp]
    <3>2. row \in Facts!Row /\ row.text = update.text /\ row.stamp = update.stamp
      BY <1>2, <2>2 DEF Facts!Row
    <3>3. rows' = [rows EXCEPT ![f] = row]
      BY <3>1
    <3> HIDE DEF row
    <3>4. /\ rows' \in [Source -> Facts!Row \cup {Nothing}] /\ rows'[f] = row
          /\ \A g \in Source : g # f => rows'[g] = rows[g]
      BY <1>2, <3>2, <3>3
    <3>5. row # Nothing
      BY <3>2
    <3>6. /\ facts' \in [Facts!Kind \X Source -> Facts!Fact \cup {Nothing}]
          /\ \A k \in Facts!Kind \X Source : facts'[k] \in {facts[k], Nothing}
      BY <1>2, <3>1
    <3> QED
      BY <2>2, <3>2, <3>4, <3>5, <3>6
  <2> QED
    BY <2>1, <2>2
<1>6. FactTypes'
  BY <1>1, <1>3, <1>5 DEF FactsInv, FactTypes
<1>7. RowBooks'
  BY <1>1, <1>2, <1>3, <1>5 DEF FactsInv, RowBooks
<1>8. UpdateBooks'
  <2>1. ASSUME settled
        PROVE  /\ update.seen = {g \in Source : disk[g] # Gone}
               /\ update.todo \subseteq update.seen
               /\ \A g \in update.seen \ update.todo : g # f => InTime(g)
               /\ update.stamp = stamp[f]
    BY <1>1, <1>2, <2>1 DEF FactsInv, UpdateBooks, f
  <2>2. ASSUME settled, NEW g \in update.seen \ update.todo
        PROVE  disk'[g] \in Body => rows'[g] # Nothing /\ rows'[g].text = disk'[g]
    <3>1. CASE g = f
      BY <1>1, <1>2, <1>5, <2>1, <2>2, <3>1
    <3>2. CASE g # f
      <4>1. g \in Source /\ InTime(g)
        BY <2>1, <2>2, <3>2
      <4> QED
        BY <1>1, <1>5, <3>2, <4>1 DEF InTime
    <3> QED
      BY <3>1, <3>2
  <2> QED
    BY <1>1, <1>3, <2>1, <2>2 DEF UpdateBooks, InTime
<1>9. Facts!SymbolsFit' /\ Facts!FoundFactsAreCurrent'
  BY <1>1, <1>5, FewerFacts
<1>10. Facts!IndexCatchesUp'
  BY <1>4 DEF Facts!IndexCatchesUp
<1> QED
  BY <1>1, <1>2, <1>6, <1>7, <1>8, <1>9, <1>10, SameCalls DEF FactsInv

(* The rows of the files that were not seen are removed.                    *)
LEMMA EndUpdateKeeps ==
  ASSUME FactsInv, Facts!EndUpdate PROVE FactsInv'
<1> USE NothingElse
<1>1. /\ update # Nothing /\ update.file = Nothing /\ update.todo = {} /\ update' = Nothing
      /\ rows' = [f \in Source |-> IF f \in update.seen THEN rows[f] ELSE Nothing]
      /\ facts' = [k \in Facts!Kind \X Source |->
           IF k[2] \in update.seen \/ rows[k[2]] = Nothing THEN facts[k] ELSE Nothing]
      /\ UNCHANGED <<disk, stamp, documents, published, cached, edit, ask, settled,
                     searched, stops>>
  BY DEF Facts!EndUpdate, Facts!sessionVars, Facts!Swept
<1>2. /\ rows \in [Source -> Facts!Row \cup {Nothing}] /\ ask = Nothing
      /\ facts \in [Facts!Kind \X Source -> Facts!Fact \cup {Nothing}]
  BY <1>1 DEF FactsInv, FactTypes, AskBooks
<1>3. /\ rows' \in [Source -> Facts!Row \cup {Nothing}]
      /\ \A f \in Source : rows'[f] \in {rows[f], Nothing}
      /\ facts' \in [Facts!Kind \X Source -> Facts!Fact \cup {Nothing}]
      /\ \A k \in Facts!Kind \X Source : facts'[k] \in {facts[k], Nothing}
  BY <1>1, <1>2
<1>4. FactTypes'
  BY <1>1, <1>3 DEF FactsInv, FactTypes
<1>5. RowBooks' /\ UpdateBooks'
  BY <1>1, <1>3 DEF FactsInv, RowBooks, UpdateBooks
<1>6. Facts!IndexCatchesUp'
  <2>1. ASSUME settled
        PROVE  /\ update.seen = {g \in Source : disk[g] # Gone}
               /\ \A g \in update.seen : InTime(g)
    <3>1. /\ update.seen = {g \in Source : disk[g] # Gone}
          /\ \A g \in update.seen \ update.todo : g # update.file => InTime(g)
      BY <1>1, <2>1 DEF FactsInv, UpdateBooks
    <3> QED
      BY <1>1, <3>1
  <2>2. ASSUME settled, NEW f \in Source
        PROVE  /\ disk[f] \in Body => rows'[f] # Nothing /\ rows'[f].text = disk[f]
               /\ disk[f] = Gone => rows'[f] = Nothing
    <3>1. disk[f] \in Body => disk[f] # Gone
      OBVIOUS
    <3> QED
      BY <1>1, <2>1, <2>2, <3>1 DEF InTime
  <2> QED
    BY <1>1, <2>2 DEF Facts!IndexCatchesUp
<1>7. Facts!SymbolsFit' /\ Facts!FoundFactsAreCurrent'
  BY <1>1, <1>3, FewerFacts
<1> QED
  BY <1>1, <1>2, <1>4, <1>5, <1>6, <1>7, SameCalls DEF FactsInv

(* Every step of what is known of the files.                                *)
LEMMA FactsKeep ==
  ASSUME FactsInv, Facts!Next \/ UNCHANGED factVars PROVE FactsInv'
<1>1. CASE UNCHANGED factVars
  BY <1>1 DEF factVars, FactsInv, FactTypes, SessionBooks, AskBooks, RowBooks, UpdateBooks,
    InTime, Facts!Newest, Facts!SymbolsFit, Facts!FoundFactsAreCurrent, Facts!EditFits,
    Facts!IndexCatchesUp
<1>2. CASE \/ \E k \in Facts!Kind, f \in Source : Facts!Ask(k, f, f)
           \/ \E f, g \in Source : Facts!Ask("edit", f, g)
  BY <1>2, AskedKeeps
<1>3. CASE \E f \in Source, c \in Facts!Content : Facts!Write(f, c)
  BY <1>3, FileWritten
<1>4. CASE \E f \in Source : Facts!Compute(f) \/ Facts!Stat(f)
  BY <1>4, ComputeKeeps, StatKeeps
<1> QED
  BY <1>1, <1>2, <1>3, <1>4, SessionKeeps, AnswerKeeps, IngestKeeps, SearchKeeps,
     BeginUpdateKeeps, ReadFileKeeps, StoreKeeps, EndUpdateKeeps
     DEF Facts!Next

-----------------------------------------------------------------------------
(* The parts together.                                                      *)
AgentsInv == ConsoleInv /\ DialogueInv /\ TalkBooks /\ BudgetInv /\ FactsInv

(* All parts begin as they should.                                          *)
LEMMA AgentsStart == AllInit => AgentsInv
BY ConsoleStarts, DialogueStarts, TalkStarts, BudgetStarts, FactsStart DEF AllInit, AgentsInv

(* A step of one part leaves the others alone.                              *)
LEMMA AgentsKeep == AgentsInv /\ [AllNext]_allVars => AgentsInv'
<1> SUFFICES ASSUME AgentsInv, [AllNext]_allVars PROVE AgentsInv'
  OBVIOUS
<1>1. [Next]_vars
  BY DEF AllNext, allVars, Only
<1>2. [Budget!Next]_budgetVars
  BY DEF AllNext, allVars, Only
<1>3. Terminal!Next \/ UNCHANGED consoleVars
  BY DEF AllNext, allVars, Only
<1>4. ConsoleInv'
  <2>1. CASE UNCHANGED consoleVars
    BY <2>1 DEF consoleVars, ConsoleInv, AgentsInv
  <2> QED
    BY <1>3, <2>1, ConsoleKeeps DEF AgentsInv
<1>5. Facts!Next \/ UNCHANGED factVars
  BY DEF AllNext, allVars, Only
<1>6. DialogueInv' /\ TalkBooks'
  BY <1>1, DialogueKeeps, TalkKeeps DEF AgentsInv
<1>7. BudgetInv' /\ FactsInv'
  BY <1>2, <1>5, BudgetKeeps, FactsKeep DEF AgentsInv
<1> QED
  BY <1>4, <1>6, <1>7 DEF AgentsInv

(* What the parts keep, in every behaviour of any instance.                 *)
THEOREM AgentsInvariance == AllSpec => []AgentsInv
BY AgentsStart, AgentsKeep, PTL DEF AllSpec

(* A model is never shown a call without its result nor a result without    *)
(* its call, and a dialogue that is still what it began as shows it every   *)
(* result and every steering message, through rejected calls, checkpoints   *)
(* and approvals in the middle of a batch (harness-agent, worker.rs);       *)
(* symbols are of the text they are bound to, a search finds facts of the   *)
(* texts the files have, an edit is applied to the text it was made for,    *)
(* and an update nobody wrote during leaves the index right, whenever files *)
(* are written and the process is killed (harness-memory, harness-lsp).     *)
THEOREM ToldRightSafe == AllSpec => []ModelsAreToldRight
<1>1. AgentsInv => ModelsAreToldRight
  BY TalkWithin DEF AgentsInv, FactsInv, ModelsAreToldRight
<1> QED
  BY <1>1, AgentsInvariance, PTL

(* The limits of a profile hold through extensions, strategy recoveries and *)
(* batches of calls, and those of a mission whichever of its runs reserve,  *)
(* expire, are charged or come back (harness-agent, budget.rs).             *)
THEOREM LimitsSafe == AllSpec => []LimitsHold
<1>1. AgentsInv => LimitsHold
  BY DialogueWithin DEF AgentsInv, LimitsHold, BudgetInv
<1> QED
  BY <1>1, AgentsInvariance, PTL

(* While a thread has the application nobody else uses it, an answer goes   *)
(* to the question shown, and the program ends with nothing in the          *)
(* background, whatever is typed, answered, cancelled or polled             *)
(* (harness-terminal, tui.rs; harness, main.rs).                            *)
THEOREM ConsoleSafe == AllSpec => []ConsoleHolds
<1>1. ConsoleInv => ConsoleHolds
  BY DEF ConsoleInv, ConsoleHolds, Terminal!LentIsUntouched, Terminal!AnswersGoHome,
         Terminal!ExitLosesNothing, Terminal!Single, Terminal!background
<1> QED
  BY <1>1, AgentsInvariance, PTL DEF AgentsInv
=============================================================================
