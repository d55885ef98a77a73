---------------------------- MODULE HttpSession -----------------------------
(***************************************************************************)
(* Calls to a server of the model context protocol over HTTP               *)
(* (harness-mcp, http.rs).  A call is posted; its answer comes as the body *)
(* of the response, or as an event in a stream of events.  A stream that   *)
(* ends before the answer is resumed, at most three times, by naming the   *)
(* last event received; the transport remembers one such event for all its *)
(* streams, so a stream that ended before its first numbered event is      *)
(* resumed by an event of an older one, and the server goes on with that   *)
(* one.  A call is posted once and never repeated.                         *)
(*                                                                         *)
(* The manager makes one call at a time.  Stream 0 is the one the server   *)
(* opens for its own messages; stream i belongs to call i.                 *)
(***************************************************************************)
EXTENDS Naturals, Sequences

CONSTANTS
  MaxPost,     \* bound on calls
  MaxMessage,  \* bound on messages of one stream
  MaxResume    \* MAX_RESUME_ATTEMPTS

Post == 1..MaxPost
Streams == 0..MaxPost

VARIABLES
  posted,   \* the calls posted so far
  stage,    \* "idle", "read", "resume"
  body,     \* the stream read and how far
  fresh,    \* the last numbered event of this body, or NoEvent
  last,     \* the event the transport remembers
  tries,    \* resumptions left
  sent,     \* sent[s]: what the server has sent on stream s
  result,   \* what the last call returned
  session,  \* the transport knows the server's session
  opened,   \* the server has a session open
  shut      \* the transport is closed

vars == <<posted, stage, body, fresh, last, tries, sent, result, session, opened, shut>>
link == <<session, opened, shut>>

Note == 0
NoEvent == [on |-> 0, at |-> 0]
Failed == MaxPost + 1

TypeOK ==
  /\ posted \in 0..MaxPost
  /\ stage \in {"idle", "read", "resume"}
  /\ body \in [on : Streams, at : 0..MaxMessage]
  /\ fresh \in [on : Streams, at : 0..MaxMessage]
  /\ last \in [on : Streams, at : 0..MaxMessage]
  /\ tries \in 0..MaxResume
  /\ \A s \in Streams : Len(sent[s]) <= MaxMessage
  /\ result \in 0..Failed
  /\ session \in BOOLEAN /\ opened \in BOOLEAN /\ shut \in BOOLEAN

Init ==
  /\ posted = 0
  /\ stage = "idle"
  /\ body = NoEvent
  /\ fresh = NoEvent
  /\ last = NoEvent
  /\ tries = 0
  /\ sent = [s \in Streams |-> <<>>]
  /\ result = 0
  /\ session = FALSE
  /\ opened = FALSE
  /\ shut = FALSE

(* A call is posted; the response names the session.                       *)
Send ==
  /\ stage = "idle"
  /\ ~shut
  /\ posted < MaxPost
  /\ posted' = posted + 1
  /\ opened' = TRUE
  /\ session' = TRUE
  /\ \/ \* the response holds the answer
        /\ result' = posted'
        /\ UNCHANGED <<stage, body, fresh, tries>>
     \/ \* it opens a stream of events
        /\ stage' = "read"
        /\ body' = [on |-> posted', at |-> 0]
        /\ fresh' = NoEvent
        /\ tries' = MaxResume
        /\ result' = 0
     \/ \* authorization required, another status, another content
        /\ result' = Failed
        /\ UNCHANGED <<stage, body, fresh, tries>>
  /\ UNCHANGED <<last, sent, shut>>

(* The post, or its response, is lost.                                     *)
SendFails ==
  /\ stage = "idle"
  /\ ~shut
  /\ posted < MaxPost
  /\ posted' = posted + 1
  /\ result' = Failed
  /\ UNCHANGED <<stage, body, fresh, last, tries, sent, link>>

(* The server goes on with a stream: a message of its own, or the answer.  *)
Serve(s) ==
  /\ s <= posted
  /\ Len(sent[s]) < MaxMessage
  /\ \A i \in DOMAIN sent[s] : sent[s][i] = Note
  /\ \E m \in {Note, s} : sent' = [sent EXCEPT ![s] = Append(@, m)]
  /\ UNCHANGED <<posted, stage, body, fresh, last, tries, result, link>>

(* Faulty: any answer.                                                     *)
AnswersAny(m) == m # Note

(* parse_response: the answer to this call, and no other.                  *)
Answers(m) == m = posted

(* The next event of the body, numbered or not.                            *)
Read ==
  /\ stage = "read"
  /\ body.at < Len(sent[body.on])
  /\ body' = [body EXCEPT !.at = @ + 1]
  /\ fresh' \in {fresh, body'}
  /\ LET m == sent[body.on][body'.at] IN
     IF Answers(m)
       THEN /\ result' = m
            /\ stage' = "idle"
            /\ last' = IF fresh' = NoEvent THEN last ELSE fresh'
       ELSE UNCHANGED <<result, stage, last>>
  /\ UNCHANGED <<posted, tries, sent, link>>

(* The event of the body that is cut off by its end.                       *)
CutOff ==
  IF body.at < Len(sent[body.on]) THEN {[body EXCEPT !.at = @ + 1]} ELSE {}

(* The stream ends before the answer.  An event cut off after its number   *)
(* is remembered as if it had been read, and the stream resumed after it.  *)
StreamEnds ==
  /\ stage = "read"
  /\ \E e \in {fresh} \cup CutOff : last' = IF e = NoEvent THEN last ELSE e
  /\ IF tries = 0
       THEN result' = Failed /\ stage' = "idle"
       ELSE stage' = "resume" /\ UNCHANGED result
  /\ UNCHANGED <<posted, body, fresh, tries, sent, link>>

(* It cannot be read, or holds what is no message: the event it had come   *)
(* to is not remembered.                                                   *)
StreamBreaks ==
  /\ stage = "read"
  /\ result' = Failed
  /\ stage' = "idle"
  /\ UNCHANGED <<posted, body, fresh, last, tries, sent, link>>

Resume ==
  /\ stage = "resume"
  /\ tries' = tries - 1
  /\ \/ /\ body' = last
        /\ fresh' = NoEvent
        /\ stage' = "read"
        /\ UNCHANGED result
     \/ \* refused
        /\ result' = Failed
        /\ stage' = "idle"
        /\ UNCHANGED <<body, fresh>>
  /\ UNCHANGED <<posted, last, sent, link>>

(* Notifications are polled for by resuming as well; all events there are  *)
(* are taken.                                                              *)
Poll ==
  /\ stage = "idle"
  /\ last' \in {last, [last EXCEPT !.at = Len(sent[last.on])]}
  /\ UNCHANGED <<posted, stage, body, fresh, tries, sent, result, link>>

(* The session is given back to the server, or the request to do so fails. *)
Close ==
  /\ stage = "idle"
  /\ ~shut
  /\ shut' = TRUE
  /\ session' = FALSE
  /\ opened' \in {opened, opened /\ ~session}
  /\ UNCHANGED <<posted, stage, body, fresh, last, tries, sent, result>>

Next ==
  \/ Send \/ SendFails
  \/ \E s \in Streams : Serve(s)
  \/ Read \/ StreamEnds \/ StreamBreaks \/ Resume
  \/ Poll \/ Close

Spec == Init /\ [][Next]_vars

-----------------------------------------------------------------------------
(* A call returns its own answer or an error, also when its stream was     *)
(* resumed by an event of an older stream, on which the answer of an older *)
(* call is still to come; and it never returns before its stream has it.   *)
AnswerIsOwn ==
  stage = "idle" /\ result \in Post => result = posted
=============================================================================
