----------------------------- MODULE MCDelivery ------------------------------
(* What is handed over and answered, on small instances.  Outbox: two       *)
(* runners and two effects.  Rpc: a caller of a server process, with a      *)
(* queue of one notification and pipes that hold one message.  HttpSession: *)
(* two calls over HTTP whose streams break off.  ModelTurn: two turns of a  *)
(* model in each of the three protocols, with two tool calls to a response. *)
(* The parts do not share state; a behaviour moves the one that `part'      *)
(* names, so that their state spaces add up.                                *)
EXTENDS Outbox

CONSTANTS Caller, NoCaller, Reader, MaxCall, MaxNote, MaxQueue, Room,
          MaxPost, MaxMessage, MaxResume,
          Dialects, Parts, MaxCallIndex, MaxText, MaxTurn, MaxMore, Channel

VARIABLES
  part,
  next, pending, step, mine, turn, slot, took, holder, input, work, output,
  child, reader, queue, seen, noted, heard, closing,
  posted, stage, body, fresh, last, tries, sent, answer, session, opened, shut,
  dialect, said, link, parser, queued, channel, thread, state, turns, more,
  text, calls, finish, told, cancelled

Calls == INSTANCE Rpc
Http == INSTANCE HttpSession WITH result <- answer
Model == INSTANCE ModelTurn WITH phase <- state, turn <- turns, seen <- finish

ASSUME InstanceAssumption ==
  /\ {MaxCall, MaxNote, MaxPost, MaxMessage, MaxResume} \subseteq Nat
  /\ {MaxCallIndex, MaxText, MaxMore} \subseteq Nat
  /\ {MaxQueue, Room, Parts, MaxTurn, Channel} \subseteq Nat \ {0}
  /\ Dialects \subseteq {"chat", "responses", "messages"}

callVars == <<next, pending, step, mine, turn, slot, took, holder, input, work,
              output, child, reader, queue, seen, noted, heard, closing>>
httpVars == <<posted, stage, body, fresh, last, tries, sent, answer, session,
              opened, shut>>
modelVars == <<dialect, said, link, parser, queued, channel, thread, state,
               turns, more, text, calls, finish, told, cancelled>>

AllInit ==
  /\ part \in {"outbox", "calls", "http", "model"}
  /\ Init /\ Calls!Init /\ Http!Init /\ Model!Init
  /\ part # "model" => dialect = "chat"

Only(p) == part = p /\ UNCHANGED part

AllNext ==
  \/ Only("outbox") /\ Next /\ UNCHANGED <<callVars, httpVars, modelVars>>
  \/ Only("calls") /\ Calls!Next /\ UNCHANGED <<vars, httpVars, modelVars>>
  \/ Only("http") /\ Http!Next /\ UNCHANGED <<vars, callVars, modelVars>>
  \/ Only("model") /\ Model!Next /\ UNCHANGED <<vars, callVars, httpVars>>

(* The fairness of FairSpec, and that of Rpc: none of these steps can       *)
(* happen while a behaviour moves another part.                             *)
AllSpec ==
  /\ AllInit /\ [][AllNext]_<<part, vars, callVars, httpVars, modelVars>>
  /\ \A r \in Runner : WF_vars(Step(r))
  /\ \A e \in Effect : WF_vars(LapseOrphan(e))
  /\ Calls!Fairness

(* A call returns its own answer or an error, leaves nothing behind, and    *)
(* the newest notification is kept; over HTTP an answer is the call's own,  *)
(* though streams share one memory of events; a run acts on whole responses *)
(* of its model only.  See Rpc, HttpSession and ModelTurn.                  *)
CallsHold ==
  /\ part = "calls" =>
       Calls!TypeOK /\ Calls!AnswersFit /\ Calls!NothingLeaks /\ Calls!NewestIsKept
  /\ part = "http" => Http!TypeOK /\ Http!AnswerIsOwn
  /\ part = "model" =>
       Model!TypeOK /\ Model!CallsAreWhole /\ Model!TextIsWhole

(* Every effect is settled, every call returns and every transport closes   *)
(* in the end, and a turn and its thread never wait for each other: see the *)
(* modules Outbox, Rpc and ModelTurn.                                       *)
DeliveryEnds ==
  /\ EverythingSettles
  /\ Calls!CallsReturn
  /\ [](part = "model" => Model!NobodyIsStuck)
=============================================================================
