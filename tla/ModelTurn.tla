------------------------------ MODULE ModelTurn ------------------------------
(***************************************************************************)
(* The turns of the foreground's model (harness-application,               *)
(* execute_model) over the streams of the three protocols: chat            *)
(* completions (harness-provider-compatible), responses                    *)
(* (harness-provider-openai) and messages (harness-provider-anthropic).    *)
(*                                                                         *)
(* A turn opens a stream.  A thread sends the request, reads the body event *)
(* by event, translates each into events of the model, and passes these    *)
(* through a channel of bounded size; the turn takes them, gives up at the *)
(* first error, and decides when the channel ends.  The provider sends what *)
(* its protocol allows, in any interleaving; its connection may break, it  *)
(* may report an error or write what is no event, and the user may cancel. *)
(*                                                                         *)
(* The arguments of a call are Parts pieces; they are valid once all of    *)
(* them are there in order.  Texts are counted.                            *)
(***************************************************************************)
EXTENDS Naturals, Sequences, FiniteSets

CONSTANTS
  Dialects,     \* the protocols a behaviour may use
  Parts,        \* pieces of the arguments of a call, in chat and messages
  MaxCallIndex, \* tool calls of one response
  MaxText,      \* texts of one response
  MaxTurn,      \* turns of a run (8)
  MaxMore,      \* continuations of an output cut short (2)
  Channel       \* size of the channel (128)

CallIndex == 1..MaxCallIndex

VARIABLES
  dialect,
  said,       \* what the provider has sent of this response
  link,       \* the connection, see Link
  parser,     \* the state of the parser
  queued,     \* events translated, not yet in the channel
  channel,
  thread,     \* "none", "running", "ended"
  phase,      \* where the run is
  turn, more, \* turns and continuations so far
  text,       \* texts of the whole run so far
  calls,      \* calls of this turn
  seen,       \* "none", "stop" or "length": how the stream completed
  told,       \* history: texts of the responses that came to their end
  cancelled

stream == <<said, link>>
worker == <<parser, queued, thread>>
run == <<phase, turn, more, text, calls, seen, told>>
vars == <<dialect, stream, worker, channel, run, cancelled>>

Phase == {"next", "reading", "batch", "done", "failed"}

Link == {"none", "asked",
         "open",           \* the provider may send
         "ended", "broken",
         "drained"}        \* the thread has read to the end

Event(k, i) == [kind |-> k, of |-> i]
Err == Event("error", 0)

Blank == [texts |-> 0, parts |-> [i \in CallIndex |-> 0], begun |-> {}, whole |-> {},
          end |-> "none", counted |-> FALSE]
Fresh == [over |-> FALSE, held |-> [i \in CallIndex |-> 0], known |-> {}, emitted |-> {}, end |-> "none", counted |-> FALSE]

TypeOK ==
  /\ dialect \in Dialects
  /\ said.texts \in 0..MaxText
  /\ said.whole \subseteq said.begun
  /\ said.begun \subseteq CallIndex
  /\ link \in Link
  /\ parser.known \subseteq CallIndex
  /\ Len(channel) <= Channel
  /\ thread \in {"none", "running", "ended"}
  /\ phase \in Phase
  /\ turn \in 0..MaxTurn
  /\ more \in 0..MaxMore
  /\ seen \in {"none", "stop", "length"}
  /\ cancelled \in BOOLEAN

Init ==
  /\ dialect \in Dialects
  /\ said = Blank /\ link = "none"
  /\ parser = Fresh /\ queued = <<>> /\ thread = "none"
  /\ channel = <<>>
  /\ phase = "next" /\ turn = 0 /\ more = 0 /\ text = 0 /\ calls = <<>>
  /\ seen = "none" /\ told = 0
  /\ cancelled = FALSE

-----------------------------------------------------------------------------
(* The provider.  Its response is whole when it says so; when it is cut    *)
(* short for length, calls may be left in the middle.                      *)

Begins(i) == i \notin said.begun /\ \A j \in CallIndex : j < i => j \in said.begun

Finished == \A i \in said.begun : i \in said.whole

(* In chat completions the pieces of calls may alternate, and the first    *)
(* piece names the call.                                                   *)
SendsInChat(m) ==
  \/ /\ m.kind = "args" /\ m.of \in CallIndex
     /\ said.end = "none"
     /\ Begins(m.of) \/ m.of \in said.begun \ said.whole
     /\ said' = [said EXCEPT
                  !.begun = @ \cup {m.of}, !.parts[m.of] = @ + 1,
                  !.whole = IF said.parts[m.of] + 1 = Parts THEN @ \cup {m.of} ELSE @]
  \/ /\ m = Event("usage", 0)
     /\ said.end # "none" /\ ~said.counted
     /\ said' = [said EXCEPT !.counted = TRUE]
  \/ /\ m = Event("end", 0)
     /\ said.counted
     /\ UNCHANGED said

(* An item of a response is added, its arguments are done, and it is done. *)
SendsResponse(m) ==
  /\ said.end = "none"
  /\ m.of \in CallIndex
  /\ \/ m.kind = "call" /\ Begins(m.of) /\ said' = [said EXCEPT !.begun = @ \cup {m.of}]
     \/ /\ m.kind = "args" /\ m.of \in said.begun /\ said.parts[m.of] = 0
        /\ said' = [said EXCEPT !.parts[m.of] = 1]
     \/ /\ m.kind = "close" /\ said.parts[m.of] = 1 /\ m.of \notin said.whole
        /\ said' = [said EXCEPT !.whole = @ \cup {m.of}]

(* A message sends one block after the other.                              *)
SendsMessage(m) ==
  \/ /\ said.end = "none"
     /\ m.of \in CallIndex
     /\ \/ /\ m.kind = "call" /\ Begins(m.of) /\ Finished
           /\ said' = [said EXCEPT !.begun = @ \cup {m.of}]
        \/ /\ m.kind = "args" /\ m.of \in said.begun /\ said.parts[m.of] < Parts
           /\ said' = [said EXCEPT !.parts[m.of] = @ + 1]
        \/ /\ m.kind = "close" /\ said.parts[m.of] = Parts /\ m.of \notin said.whole
           /\ said' = [said EXCEPT !.whole = @ \cup {m.of}]
  \/ m = Event("end", 0) /\ said.end # "none" /\ UNCHANGED said

(* The next event of the body: of the call, text, the reason why the       *)
(* response ends, an error of the provider, or what is no event.           *)
Sends(m) ==
  \/ dialect = "chat" /\ SendsInChat(m)
  \/ dialect = "responses" /\ SendsResponse(m)
  \/ dialect = "messages" /\ SendsMessage(m)
  \/ /\ m = Event("text", 0)
     /\ said.end = "none" /\ said.texts < MaxText
     /\ said' = [said EXCEPT !.texts = @ + 1]
  \/ /\ m \in {Event("stop", 0), Event("length", 0)}
     /\ said.end = "none"
     /\ m.kind = "stop" => Finished
     /\ said' = [said EXCEPT !.end = m.kind]
  \/ m \in {Event("failure", 0), Event("junk", 0)} /\ UNCHANGED said

WireEvent == [kind : {"text", "call", "args", "close", "stop", "length", "usage", "end",
                      "failure", "junk"},
              of : 0..MaxCallIndex]

(* The connection closes, or cannot be read any more: when the provider    *)
(* has said all, early, or at the latest after the time a request is given. *)
ConnectionEnds ==
  /\ link = "open"
  /\ link' \in {"ended", "broken"}
  /\ UNCHANGED <<dialect, said, worker, channel, run, cancelled>>

-----------------------------------------------------------------------------
(* The parsers: the state after an event, and what it is translated to.    *)

Result(st, out) == [state |-> st, out |-> out]
One(st, k, i) == Result(st, <<Event(k, i)>>)
Silent(st) == Result(st, <<>>)
Failed(st) == One(st, "error", 0)

(* The calls held, in the order of their index: they begin in that order.  *)
Listed(st) ==
  [i \in 1..Cardinality(st.known) |-> IF st.held[i] = Parts THEN Event("call", i) ELSE Err]

(* ChatCompletionsSseStream::finish: the calls, the usage the request asks *)
(* for, and the completion.                                                *)
ChatFinish(st, end) ==
  IF st.over THEN Silent(st)
  ELSE Result([st EXCEPT !.over = TRUE],
              Listed(st) \o
              <<IF st.counted THEN Event("usage", 0) ELSE Err, Event(end, 0)>>)

ChatEvent(st, m) ==
  CASE m.kind = "args" -> Silent([st EXCEPT !.known = @ \cup {m.of}, !.held[m.of] = @ + 1])
    [] m.kind = "text" -> One(st, "text", 0)
    [] m.kind \in {"stop", "length"} -> Silent([st EXCEPT !.end = m.kind])
    [] m.kind = "usage" -> Silent([st EXCEPT !.counted = TRUE])
    [] m.kind = "end" -> ChatFinish(st, IF st.end = "none" THEN "stop" ELSE st.end)
    [] m.kind = "failure" -> Failed([st EXCEPT !.over = TRUE])
    [] m.kind = "junk" -> Failed(st)

(* Faulty: a call is passed on whenever its arguments are told.            *)
EmitTwice(st, i) == One([st EXCEPT !.emitted = @ \cup {i}], "call", i)

(* tool_call_event: a call comes twice, and is passed on once.             *)
Emit(st, i) ==
  IF i \in st.emitted THEN Silent(st)
  ELSE One([st EXCEPT !.emitted = @ \cup {i}], "call", i)

(* parse_event                                                             *)
ResponsesEvent(st, m) ==
  CASE m.kind = "call" -> Silent([st EXCEPT !.known = @ \cup {m.of}])
    [] m.kind = "args" ->
         IF m.of \in st.known THEN Emit([st EXCEPT !.known = @ \ {m.of}], m.of) ELSE Failed(st)
    [] m.kind = "close" -> Emit(st, m.of)
    [] m.kind = "text" -> One(st, "text", 0)
    [] m.kind \in {"stop", "length"} ->
         IF st.over THEN Failed(st)
         ELSE Result([st EXCEPT !.over = TRUE], <<Event("usage", 0), Event(m.kind, 0)>>)
    [] m.kind = "failure" -> Failed([st EXCEPT !.over = TRUE])
    [] m.kind = "junk" -> Failed(st)

(* AnthropicSseStream::flush and finish                                    *)
MessagesEvent(st, m) ==
  CASE m.kind = "call" -> Silent([st EXCEPT !.known = @ \cup {m.of}])
    [] m.kind = "args" ->
         Silent(IF m.of \in st.known THEN [st EXCEPT !.held[m.of] = @ + 1] ELSE st)
    [] m.kind = "close" ->
         IF m.of \notin st.known THEN Silent(st)
         ELSE One([st EXCEPT !.known = @ \ {m.of}],
                   IF st.held[m.of] = Parts THEN "call" ELSE "error", m.of)
    [] m.kind = "text" -> One(st, "text", 0)
    [] m.kind \in {"stop", "length"} -> Silent([st EXCEPT !.end = m.kind])
    [] m.kind = "end" ->
         IF st.over THEN Silent(st)
         ELSE Result([st EXCEPT !.over = TRUE],
                     <<Event("usage", 0), Event(IF st.end = "none" THEN "stop" ELSE st.end, 0)>>)
    [] m.kind = "failure" -> Failed([st EXCEPT !.over = TRUE])
    [] m.kind = "junk" -> Failed(st)

Parse(st, m) ==
  CASE dialect = "chat" -> ChatEvent(st, m)
    [] dialect = "responses" -> ResponsesEvent(st, m)
    [] dialect = "messages" -> MessagesEvent(st, m)

(* At the end of the body.  A chat that has told why it finished counts as *)
(* finished.                                                               *)
ParseEnd(st) ==
  LET r == IF dialect = "chat" /\ st.end # "none" THEN ChatFinish(st, st.end) ELSE Silent(st)
  IN IF r.out = <<>> /\ ~st.over THEN Failed(st) ELSE r

-----------------------------------------------------------------------------
(* The thread                                                              *)

Request ==
  /\ link = "asked"
  /\ \/ link' = "open" /\ UNCHANGED queued
     \/ link' = "drained" /\ queued' = <<Err>>   \* not sent, or another status
  /\ UNCHANGED <<dialect, said, parser, thread, channel, run, cancelled>>

Reading == thread = "running" /\ queued = <<>> /\ link \in {"open", "ended", "broken"}

ReadEvent ==
  /\ Reading
  /\ ~cancelled
  /\ link = "open"
  /\ \E m \in WireEvent :
       /\ Sends(m)
       /\ LET r == Parse(parser, m) IN parser' = r.state /\ queued' = r.out
  /\ UNCHANGED <<dialect, link, thread, channel, run, cancelled>>

(* What is left of an event the connection was cut in is read first.       *)
ReadEnd ==
  /\ Reading
  /\ ~cancelled
  /\ \/ /\ link = "ended"
        /\ link' = "drained"
        /\ \E cut \in BOOLEAN :
             LET rest == IF cut THEN Failed(parser) ELSE Silent(parser)
                 r == ParseEnd(rest.state)
             IN parser' = r.state /\ queued' = rest.out \o r.out
     \/ /\ link = "broken"
        /\ queued' = <<Err>>
        /\ UNCHANGED <<link, parser>>
  /\ UNCHANGED <<dialect, said, thread, channel, run, cancelled>>

ReadCancelled ==
  /\ Reading
  /\ cancelled
  /\ queued' = <<Err>>
  /\ UNCHANGED <<dialect, stream, parser, thread, channel, run, cancelled>>

(* The thread ends, and its connection with it.                            *)
End ==
  /\ thread' = "ended" /\ queued' = <<>> /\ parser' = Fresh
  /\ link' = "none"

(* Faulty: the thread waits for room when nobody takes from the channel.   *)
PassOnly ==
  /\ thread = "running"
  /\ queued # <<>>
  /\ Len(channel) < Channel
  /\ channel' = Append(channel, Head(queued))
  /\ IF cancelled THEN End
       ELSE queued' = Tail(queued) /\ UNCHANGED <<parser, thread, link>>
  /\ UNCHANGED <<dialect, said, run, cancelled>>

(* The next event goes into the channel, unless the turn has dropped it.   *)
Pass ==
  /\ thread = "running"
  /\ queued # <<>>
  /\ \/ /\ phase = "reading"
        /\ Len(channel) < Channel
        /\ channel' = Append(channel, Head(queued))
        /\ IF cancelled THEN End
             ELSE queued' = Tail(queued) /\ UNCHANGED <<parser, thread, link>>
     \/ phase # "reading" /\ End /\ UNCHANGED channel
  /\ UNCHANGED <<dialect, said, run, cancelled>>

ThreadEnds ==
  /\ thread = "running"
  /\ queued = <<>>
  /\ link = "drained"
  /\ End
  /\ UNCHANGED <<dialect, said, channel, run, cancelled>>

-----------------------------------------------------------------------------
(* The run                                                                 *)

(* The run ends with an error; what it had is dropped.                     *)
GiveUp ==
  /\ phase' = "failed"
  /\ turn' = 0 /\ more' = 0
  /\ text' = 0 /\ calls' = <<>> /\ seen' = "none" /\ told' = 0

(* A turn begins: the run is cancelled, the route refuses (no model, no    *)
(* key, more than the model can do), or the stream is opened.              *)
Begin ==
  /\ phase = "next"
  /\ \/ GiveUp /\ UNCHANGED <<stream, worker, channel>>
     \/ /\ ~cancelled
        /\ phase' = "reading"
        /\ calls' = <<>> /\ seen' = "none" /\ UNCHANGED <<turn, more, text, told>>
        /\ said' = Blank /\ link' = "asked"
        /\ parser' = Fresh /\ queued' = <<>> /\ thread' = "running"
        /\ channel' = <<>>
  /\ UNCHANGED <<dialect, cancelled>>

(* An event is taken: an error, or a budget that is used up, ends the run. *)
Take ==
  /\ phase = "reading"
  /\ ~cancelled
  /\ channel # <<>>
  /\ channel' = Tail(channel)
  /\ LET m == Head(channel) IN
     \/ /\ m.kind = "text"
        /\ text' = text + 1
        /\ UNCHANGED <<phase, turn, more, calls, seen, told>>
     \/ /\ m.kind = "call"
        /\ calls' = Append(calls, m.of)
        /\ UNCHANGED <<phase, turn, more, text, seen, told>>
     \/ /\ m.kind \in {"stop", "length"}
        /\ seen' = m.kind
        /\ UNCHANGED <<phase, turn, more, text, calls, told>>
     \/ /\ m.kind = "usage"
        /\ UNCHANGED <<phase, turn, more, text, calls, seen, told>>
     \/ /\ m.kind \in {"error", "call", "usage"}
        /\ GiveUp
  /\ UNCHANGED <<dialect, stream, worker, cancelled>>

HearCancel ==
  /\ phase = "reading"
  /\ cancelled
  /\ GiveUp
  /\ UNCHANGED <<dialect, stream, worker, channel, cancelled>>

Completed == seen = "stop"

(* The output was cut short: the run asks for the rest, unless a call was  *)
(* among it, the run has asked too often, or this was its last turn.       *)
Continued ==
  /\ seen = "length"
  /\ calls = <<>>
  /\ more < MaxMore
  /\ turn + 1 < MaxTurn

(* The stream has ended: calls are run, or there is an answer, or the run  *)
(* fails.                                                                  *)
EndOfStream ==
  /\ phase = "reading"
  /\ ~cancelled
  /\ channel = <<>>
  /\ thread = "ended"
  /\ \/ /\ turn' = turn + 1
        /\ \/ Completed /\ calls # <<>> /\ phase' = "batch" /\ UNCHANGED more
           \/ Completed /\ calls = <<>> /\ text > 0 /\ phase' = "done" /\ UNCHANGED more
           \/ Continued /\ phase' = "next" /\ more' = more + 1
        /\ told' = told + said.texts
        /\ UNCHANGED <<text, calls, seen>>
     \/ /\ ~Continued
        /\ ~Completed \/ (calls = <<>> /\ text = 0)
        /\ GiveUp
  /\ UNCHANGED <<dialect, stream, worker, channel, cancelled>>

(* The calls have been run, or one of them ended the run.                  *)
Batch ==
  /\ phase = "batch"
  /\ \/ GiveUp
     \/ turn < MaxTurn /\ phase' = "next" /\ UNCHANGED <<turn, more, text, calls, seen, told>>
  /\ UNCHANGED <<dialect, stream, worker, channel, cancelled>>

Cancel ==
  /\ ~cancelled
  /\ phase \in {"next", "reading", "batch"}
  /\ cancelled' = TRUE
  /\ UNCHANGED <<dialect, stream, worker, channel, run>>

ThreadStep == Request \/ ReadEvent \/ ReadEnd \/ ReadCancelled \/ Pass \/ ThreadEnds
RunStep == Begin \/ Take \/ HearCancel \/ EndOfStream \/ Batch

Next ==
  \/ ConnectionEnds
  \/ ThreadStep
  \/ RunStep \/ Cancel

Spec == Init /\ [][Next]_vars

-----------------------------------------------------------------------------
(* The calls the run carries out are the calls of a response that came to  *)
(* its end, all of them, each once and with all of its arguments, however  *)
(* its pieces were interleaved, repeated or cut.                           *)
CallsAreWhole ==
  phase = "batch" =>
    /\ said.end = "stop"
    /\ {calls[i] : i \in DOMAIN calls} = said.begun
    /\ Len(calls) = Cardinality(said.begun)
    /\ Finished

(* No text is lost or doubled: between turns the output is what all the    *)
(* responses have said.                                                    *)
TextIsWhole == phase \in {"next", "batch", "done"} => text = told

(* A turn that reads and its thread never wait for each other: one of them *)
(* can go on, or the connection is still open and has its time; also when  *)
(* the turn has given up while the channel was full.                       *)
NobodyIsStuck ==
  phase = "reading" \/ thread = "running" =>
    link = "open" \/ ENABLED (ThreadStep \/ Take \/ HearCancel \/ EndOfStream)
=============================================================================
