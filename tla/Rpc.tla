-------------------------------- MODULE Rpc ---------------------------------
(***************************************************************************)
(* Calls to a server process over its standard input and output: the       *)
(* transport of language servers (harness-lsp, transport.rs) and, without  *)
(* requests from the server, of the model context protocol (harness-mcp,   *)
(* stdio.rs; legacy.rs does the same over a stream of events).             *)
(*                                                                         *)
(* Each call takes the next number and leaves a sender under it in the     *)
(* table of pending calls; a reader thread takes the sender out and hands  *)
(* it the answer.  A call that waits too long takes its own sender out and *)
(* tells the server; an answer that comes after that finds nobody.  When   *)
(* the output ends, cannot be read, or the transport is closed, every      *)
(* pending call fails.  The reader also answers the server's own requests, *)
(* for which it must wait its turn at the input like a caller.             *)
(*                                                                         *)
(* Pipes hold Room messages.  The server reads, answers in any order, or   *)
(* not at all, notifies, asks, writes what is not a message, and exits.    *)
(***************************************************************************)
EXTENDS Naturals, Sequences, FiniteSets

CONSTANTS
  Caller,
  NoCaller, Reader,
  MaxCall,    \* bound on calls
  MaxNote,    \* bound on notifications and on requests of the server
  MaxQueue,   \* notifications kept (1024)
  Room        \* messages a pipe holds

Id == 1..MaxCall

VARIABLES
  next,      \* the number of the next call
  pending,   \* the callers a sender is left for, by number
  step,      \* step[c]: where caller c is
  mine,      \* mine[c]: the number of its call
  turn,      \* history: turn[c]: how many calls there were with this one
  slot,      \* slot[c]: what its channel holds
  took,      \* took[c]: what its last call returned
  holder,    \* who holds the lock of the input
  input,     \* the pipe to the server
  work,      \* calls the server has read and not answered
  output,    \* the pipe from the server
  child,     \* the server process is up
  reader,    \* "reading", "asked" by the server, or "ended"
  queue,     \* notifications kept for the next poll
  seen,      \* the last notification polled
  noted,     \* notifications and requests the server has made
  heard,     \* history: the last notification the reader has read
  closing    \* "open", "flagged", "shut" (the input is gone), "closed"

callers == <<next, step, mine, turn, took>>
server == <<work, child, noted>>
notes == <<queue, seen, heard>>
vars == <<callers, pending, slot, holder, input, server, output, reader, notes, closing>>

(* Messages: an answer carries the number of the call, and what was asked. *)
Message(k, i, t) == [kind |-> k, of |-> i, what |-> t]
Note(n) == Message("note", n, 0)
Ask == Message("ask", 0, 0)
Junk == Message("junk", 0, 0)
Other == Message("other", 0, 0)

Nothing == 0
Failure == MaxCall + 1

TypeOK ==
  /\ next \in 1..(MaxCall + 1)
  /\ pending \in SUBSET (Id \X Caller)
  /\ step \in [Caller -> {"idle", "send", "write", "wait", "late", "cancel", "notify"}]
  /\ mine \in [Caller -> 0..MaxCall]
  /\ turn \in [Caller -> 0..MaxCall]
  /\ slot \in [Caller -> Nothing..Failure]
  /\ took \in [Caller -> Nothing..Failure]
  /\ holder \in Caller \cup {NoCaller, Reader}
  /\ Len(input) <= Room /\ Len(output) <= Room
  /\ work \subseteq Id \X Id
  /\ child \in BOOLEAN
  /\ reader \in {"reading", "asked", "answer", "ended"}
  /\ Len(queue) <= MaxQueue
  /\ closing \in {"open", "flagged", "shut", "closed"}

Init ==
  /\ next = 1
  /\ pending = {}
  /\ step = [c \in Caller |-> "idle"]
  /\ mine = [c \in Caller |-> 0]
  /\ turn = [c \in Caller |-> 0]
  /\ slot = [c \in Caller |-> Nothing]
  /\ took = [c \in Caller |-> Nothing]
  /\ holder = NoCaller
  /\ input = <<>>
  /\ work = {}
  /\ output = <<>>
  /\ child = TRUE
  /\ reader = "reading"
  /\ queue = <<>>
  /\ seen = 0
  /\ noted = 0
  /\ heard = 0
  /\ closing = "open"

Go(c, s) == step' = [step EXCEPT ![c] = s]
Without(i) == {e \in pending : e[1] # i}

(* fail_all: every pending call gets an error.                             *)
FailAll ==
  /\ pending' = {}
  /\ slot' = [c \in Caller |-> IF \E e \in pending : e[2] = c THEN Failure ELSE slot[c]]

-----------------------------------------------------------------------------
(* A call                                                                  *)

(* Faulty: numbers are used again once nothing is pending under them.      *)
CallLowest(c) ==
  /\ step[c] = "idle"
  /\ next <= MaxCall
  /\ next' = next + 1
  /\ turn' = [turn EXCEPT ![c] = next]
  /\ LET i == CHOOSE j \in Id : /\ \A e \in pending : e[1] # j
                                /\ \A k \in 1..(j - 1) : \E e \in pending : e[1] = k
     IN mine' = [mine EXCEPT ![c] = i] /\ pending' = pending \cup {<<i, c>>}
  /\ slot' = [slot EXCEPT ![c] = Nothing]
  /\ Go(c, "send")
  /\ UNCHANGED <<took, holder, input, server, output, reader, notes, closing>>

Call(c) ==
  /\ step[c] = "idle"
  /\ next <= MaxCall
  /\ next' = next + 1
  /\ turn' = [turn EXCEPT ![c] = next]
  /\ mine' = [mine EXCEPT ![c] = next]
  /\ pending' = pending \cup {<<next, c>>}
  /\ slot' = [slot EXCEPT ![c] = Nothing]
  /\ Go(c, "send")
  /\ UNCHANGED <<took, holder, input, server, output, reader, notes, closing>>

(* It takes the lock of the input, unless the transport is closed.         *)
Acquire(c) ==
  /\ step[c] = "send"
  /\ closing = "open"
  /\ holder = NoCaller
  /\ holder' = c
  /\ Go(c, "write")
  /\ UNCHANGED <<next, mine, turn, took, pending, slot, input, server, output,
                 reader, notes, closing>>

Write(c) ==
  /\ step[c] = "write"
  /\ child
  /\ Len(input) < Room
  /\ input' = Append(input, Message("request", mine[c], turn[c]))
  /\ holder' = NoCaller
  /\ Go(c, "wait")
  /\ UNCHANGED <<next, mine, turn, took, pending, slot, server, output,
                 reader, notes, closing>>

Unsent(c) ==
  /\ \/ step[c] = "send" /\ closing # "open" /\ UNCHANGED holder
     \/ step[c] = "write" /\ ~child /\ holder' = NoCaller
  /\ pending' = Without(mine[c])
  /\ took' = [took EXCEPT ![c] = Failure]
  /\ Go(c, "idle")
  /\ UNCHANGED <<next, mine, turn, slot, input, server, output, reader, notes,
                 closing>>

Receive(c) ==
  /\ step[c] = "wait"
  /\ slot[c] # Nothing
  /\ took' = [took EXCEPT ![c] = slot[c]]
  /\ Go(c, "idle")
  /\ UNCHANGED <<next, mine, turn, pending, slot, holder, input, server,
                 output, reader, notes, closing>>

(* Faulty: a call waits for its answer however long it takes.              *)
WaitOn(c) ==
  /\ step[c] = "wait"
  /\ slot[c] = Nothing
  /\ closing = "closed"
  /\ Go(c, "late")
  /\ UNCHANGED <<next, mine, turn, took, pending, slot, holder, input, server,
                 output, reader,
                 notes, closing>>

TimeOut(c) ==
  /\ step[c] = "wait"
  /\ slot[c] = Nothing
  /\ Go(c, "late")
  /\ UNCHANGED <<next, mine, turn, took, pending, slot, holder, input, server,
                 output, reader,
                 notes, closing>>

(* Faulty: the sender of a call that timed out stays in the table.         *)
KeepSender(c) ==
  /\ step[c] = "late"
  /\ Go(c, "cancel")
  /\ UNCHANGED <<next, mine, turn, took, pending, slot, holder, input, server,
                 output, reader,
                 notes, closing>>

DropSender(c) ==
  /\ step[c] = "late"
  /\ pending' = Without(mine[c])
  /\ Go(c, "cancel")
  /\ UNCHANGED <<next, mine, turn, took, slot, holder, input, server, output,
                 reader, notes, closing>>

(* The server is told, if it can be.                                       *)
AcquireToCancel(c) ==
  /\ step[c] = "cancel"
  /\ closing = "open"
  /\ holder = NoCaller
  /\ holder' = c
  /\ Go(c, "notify")
  /\ UNCHANGED <<next, mine, turn, took, pending, slot, input, server, output,
                 reader, notes, closing>>

Cancel(c) ==
  /\ \/ step[c] = "cancel" /\ closing # "open" /\ UNCHANGED <<holder, input>>
     \/ /\ step[c] = "notify"
        /\ holder' = NoCaller
        /\ \/ ~child /\ UNCHANGED input
           \/ child /\ Len(input) < Room /\ input' = Append(input, Other)
  /\ took' = [took EXCEPT ![c] = Failure]
  /\ Go(c, "idle")
  /\ UNCHANGED <<next, mine, turn, pending, slot, server, output, reader,
                 notes, closing>>

(* Notifications are taken by the next poll, all of them.                  *)
Poll ==
  /\ queue # <<>>
  /\ seen' = queue[Len(queue)]
  /\ queue' = <<>>
  /\ UNCHANGED <<callers, pending, slot, holder, input, server, output,
                 reader, heard, closing>>

-----------------------------------------------------------------------------
(* The server                                                              *)

ServerReads ==
  /\ child
  /\ input # <<>>
  /\ input' = Tail(input)
  /\ work' = IF Head(input).kind = "request"
               THEN work \cup {<<Head(input).of, Head(input).what>>} ELSE work
  /\ UNCHANGED <<callers, pending, slot, holder, child, noted, output, reader,
                 notes, closing>>

ServerWrites ==
  /\ child
  /\ Len(output) < Room
  /\ \/ \E w \in work :
          /\ output' = Append(output, Message("answer", w[1], w[2]))
          /\ work' = work \ {w}
          /\ UNCHANGED noted
     \/ /\ noted < MaxNote
        /\ noted' = noted + 1
        /\ output' \in {Append(output, m) : m \in {Note(noted'), Ask, Junk}}
        /\ UNCHANGED work
  /\ UNCHANGED <<callers, pending, slot, holder, input, child, reader, notes,
                 closing>>

ServerExits ==
  /\ child
  /\ child' = FALSE
  /\ UNCHANGED <<callers, pending, slot, holder, input, work, noted, output,
                 reader, notes,
                 closing>>

-----------------------------------------------------------------------------
(* The reader thread                                                       *)

ReadAnswer ==
  /\ reader = "reading"
  /\ output # <<>>
  /\ Head(output).kind = "answer"
  /\ output' = Tail(output)
  /\ LET m == Head(output) IN
     /\ pending' = Without(m.of)
     /\ slot' = [c \in Caller |-> IF <<m.of, c>> \in pending THEN m.what ELSE slot[c]]
  /\ UNCHANGED <<callers, holder, input, server, reader, notes, closing>>

(* Faulty: a notification is dropped when the queue is full.               *)
DropNewest ==
  /\ reader = "reading"
  /\ output # <<>>
  /\ Head(output).kind = "note"
  /\ output' = Tail(output)
  /\ heard' = Head(output).of
  /\ queue' = IF Len(queue) = MaxQueue THEN queue ELSE Append(queue, Head(output).of)
  /\ UNCHANGED <<callers, pending, slot, holder, input, server, reader, seen,
                 closing>>

(* A full queue loses the oldest.                                          *)
ReadNote ==
  /\ reader = "reading"
  /\ output # <<>>
  /\ Head(output).kind = "note"
  /\ output' = Tail(output)
  /\ heard' = Head(output).of
  /\ queue' = Append(IF Len(queue) = MaxQueue THEN Tail(queue) ELSE queue, Head(output).of)
  /\ UNCHANGED <<callers, pending, slot, holder, input, server, reader, seen,
                 closing>>

(* What is no message at all ends the reader; what is none of the protocol *)
(* fails the calls and is skipped.                                         *)
ReadJunk ==
  /\ reader = "reading"
  /\ output # <<>>
  /\ Head(output).kind = "junk"
  /\ output' = Tail(output)
  /\ FailAll
  /\ reader' \in {"reading", "ended"}
  /\ UNCHANGED <<callers, holder, input, server, notes, closing>>

(* A request of the server: the reader stops reading until it has          *)
(* answered it.                                                            *)
ReadAsk ==
  /\ reader = "reading"
  /\ output # <<>>
  /\ Head(output).kind = "ask"
  /\ output' = Tail(output)
  /\ reader' = "asked"
  /\ UNCHANGED <<callers, pending, slot, holder, input, server, notes, closing>>

ReaderAcquires ==
  /\ reader = "asked"
  /\ holder = NoCaller
  /\ IF closing \in {"shut", "closed"}
       THEN reader' = "reading" /\ UNCHANGED holder
       ELSE reader' = "answer" /\ holder' = Reader
  /\ UNCHANGED <<callers, pending, slot, input, server, output, notes, closing>>

ReaderAnswers ==
  /\ reader = "answer"
  /\ \/ ~child /\ UNCHANGED input
     \/ child /\ Len(input) < Room /\ input' = Append(input, Other)
  /\ reader' = "reading"
  /\ holder' = NoCaller
  /\ UNCHANGED <<callers, pending, slot, server, output, notes, closing>>

(* The output has ended.                                                   *)
ReadEnd ==
  /\ reader = "reading"
  /\ output = <<>>
  /\ ~child
  /\ FailAll
  /\ reader' = "ended"
  /\ UNCHANGED <<callers, holder, input, server, output, notes, closing>>

-----------------------------------------------------------------------------
(* Closing: no more calls, then no more input, then the server has half a  *)
(* second to exit before it is killed.                                     *)

Close ==
  /\ closing = "open"
  /\ closing' = "flagged"
  /\ UNCHANGED <<callers, pending, slot, holder, input, server, output,
                 reader, notes>>

ShutInput ==
  /\ closing = "flagged"
  /\ holder = NoCaller
  /\ closing' = "shut"
  /\ UNCHANGED <<callers, pending, slot, holder, input, server, output,
                 reader, notes>>

Closed ==
  /\ closing = "shut"
  /\ closing' = "closed"
  /\ child' = FALSE
  /\ FailAll
  /\ UNCHANGED <<callers, holder, input, work, noted, output, reader, notes>>

CallStep(c) ==
  \/ Acquire(c) \/ Write(c) \/ Unsent(c) \/ Receive(c) \/ TimeOut(c) \/ DropSender(c)
  \/ AcquireToCancel(c) \/ Cancel(c)

ReaderStep ==
  \/ ReadAnswer \/ ReadNote \/ ReadJunk \/ ReadAsk \/ ReaderAcquires \/ ReaderAnswers
  \/ ReadEnd

Next ==
  \/ \E c \in Caller : Call(c) \/ CallStep(c)
  \/ Poll
  \/ ServerReads \/ ServerWrites \/ ServerExits
  \/ ReaderStep
  \/ Close \/ ShutInput \/ Closed

(* A thread that can go on does; a lock is not withheld from one who waits *)
(* for it for ever; a call that waits for an answer times out; a server    *)
(* that is up reads its input.                                             *)
Fairness ==
  /\ \A c \in Caller : /\ WF_vars(Write(c) \/ Unsent(c) \/ Receive(c) \/ TimeOut(c) \/
                                  DropSender(c) \/ Cancel(c))
                       /\ SF_vars(Acquire(c))
                       /\ SF_vars(AcquireToCancel(c))
  /\ WF_vars(ReaderAnswers)
  /\ SF_vars(ReaderAcquires)
  /\ WF_vars(ServerReads)
  /\ SF_vars(ShutInput)
  /\ WF_vars(Closed)

Spec == Init /\ [][Next]_vars /\ Fairness

-----------------------------------------------------------------------------
(* A call that returns an answer returns the answer to what it asked,      *)
(* whatever was answered late, out of order or twice in between.           *)
AnswersFit == \A c \in Caller : took[c] \in Id /\ step[c] = "idle" => took[c] = turn[c]

(* The table of pending calls holds only calls that are under way: none    *)
(* that returned, one way or the other, leaves its sender behind.          *)
NothingLeaks == \A e \in pending : mine[e[2]] = e[1] /\ step[e[2]] # "idle"

(* Of the notifications the newest is never lost: it waits for the poll,   *)
(* or has been polled.                                                     *)
NewestIsKept == heard # 0 => seen = heard \/ (queue # <<>> /\ queue[Len(queue)] = heard)

(* Every call returns, and so does the closing of the transport.           *)
CallsReturn ==
  /\ \A c \in Caller : step[c] # "idle" ~> step[c] = "idle"
  /\ closing = "flagged" ~> closing = "closed"
=============================================================================
