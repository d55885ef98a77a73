---------------------------- MODULE StoreWorker -----------------------------
(***************************************************************************)
(* A handle on the project's database (harness-storage, sqlite_store.rs).  *)
(*                                                                         *)
(* Each handle has a thread of its own that owns the connection.  It first *)
(* brings the schema up to date, in one transaction per version, and       *)
(* reports that it is ready; then it takes the commands of the handle one  *)
(* by one.  A caller of any of the ports sends its command with a channel  *)
(* for one answer and waits for it.                                        *)
(*                                                                         *)
(* A program has two handles on one file (kernel and tool journal), and    *)
(* the list of sessions shown at the start opens a third, of a program     *)
(* that does not hold the lock of the project: so several threads may      *)
(* migrate one file.  The version is read before the transaction begins.   *)
(*                                                                         *)
(* What a command does to the tables is in Outbox, EventStore,             *)
(* ContextSeries and ToolApproval: here it takes effect or is refused.     *)
(* The thread has no panic of its own; Panic is one of the libraries.      *)
(***************************************************************************)
EXTENDS Naturals, Sequences, FiniteSets, Functions

CONSTANTS
  Store,      \* the handles
  Process,    \* the handles that die together
  NoStore,
  Call,       \* calls of the ports, each with its channel
  NoCall,
  Latest,     \* SCHEMA_VERSION
  MaxUpset    \* bound on kills and panics

(* What is asked of an instance.                                           *)
StoreAssumption ==
  /\ NoStore \notin Store /\ NoCall \notin Call
  /\ Process \subseteq SUBSET Store
  /\ Latest \in Nat \ {0} /\ MaxUpset \in Nat

VARIABLES
  schema,   \* durable: the tables by version, the history, user_version
  writer,   \* the handle inside the transaction of a migration
  draft,    \* the schema that transaction sees
  stage,    \* stage[s]: where the thread of handle s is
  seen,     \* seen[s]: the version its migration goes by
  handle,   \* handle[s]: "closed", "waiting" to be opened, "open"
  queue,    \* queue[s]: the calls sent to its thread
  hand,     \* hand[s]: the call its thread works on
  result,   \* result[s]: what came of it
  via,      \* via[k]: the handle call k was sent to
  slot,     \* slot[k]: what the channel of call k holds
  told,     \* told[k]: what its caller knows
  done,     \* history: done[k]: how often it took effect
  upsets

migration == <<schema, writer, draft, seen>>
calls == <<queue, hand, result, via, slot, told, done>>
vars == <<migration, stage, handle, calls, upsets>>

Version == 0..(Latest + 1)
Schema == [tables : SUBSET Version, recorded : SUBSET Version, version : Version]
InTransaction == {"creating", "recording", "marking", "committing"}
Stage == {"off", "reading", "checking", "serving", "dead"} \cup InTransaction

TypeOK ==
  /\ schema \in Schema /\ draft \in Schema
  /\ writer \in Store \cup {NoStore}
  /\ stage \in [Store -> Stage]
  /\ seen \in [Store -> Version]
  /\ handle \in [Store -> {"closed", "waiting", "open"}]
  /\ queue \in [Store -> Seq(Call)]
  /\ hand \in [Store -> Call \cup {NoCall}]
  /\ result \in [Store -> {"none", "ok", "refused"}]
  /\ via \in [Call -> Store \cup {NoStore}]
  /\ slot \in [Call -> {"empty", "ok", "refused", "gone"}]
  /\ told \in [Call -> {"new", "waiting", "ok", "refused", "closed", "lost"}]
  /\ done \in [Call -> Nat]
  /\ upsets \in 0..MaxUpset

(* The database of an earlier version of the program, of this one or of a  *)
(* later one.                                                              *)
Whole(v) == [tables |-> 1..v, recorded |-> 1..v, version |-> v]

Init ==
  /\ \E v \in Version : schema = Whole(v)
  /\ draft = schema
  /\ writer = NoStore
  /\ stage = [s \in Store |-> "off"]
  /\ seen = [s \in Store |-> 0]
  /\ handle = [s \in Store |-> "closed"]
  /\ queue = [s \in Store |-> <<>>]
  /\ hand = [s \in Store |-> NoCall]
  /\ result = [s \in Store |-> "none"]
  /\ via = [k \in Call |-> NoStore]
  /\ slot = [k \in Call |-> "empty"]
  /\ told = [k \in Call |-> "new"]
  /\ done = [k \in Call |-> 0]
  /\ upsets = 0

-----------------------------------------------------------------------------
(* Opening: SqliteKernelStore::open waits for what the thread reports.     *)
Open(s) ==
  /\ handle[s] = "closed"
  /\ handle' = [handle EXCEPT ![s] = "waiting"]
  /\ stage' = [stage EXCEPT ![s] = "reading"]
  /\ UNCHANGED <<migration, calls, upsets>>

ReadVersion(s) ==
  /\ stage[s] = "reading"
  /\ seen' = [seen EXCEPT ![s] = schema.version]
  /\ stage' = [stage EXCEPT ![s] = "checking"]
  /\ UNCHANGED <<schema, writer, draft, handle, calls, upsets>>

Begin(s) ==
  /\ stage[s] = "checking" /\ seen[s] < Latest /\ writer = NoStore
  /\ writer' = s
  /\ draft' = schema
  /\ stage' = [stage EXCEPT ![s] = "creating"]
  /\ UNCHANGED <<schema, seen, handle, calls, upsets>>

(* A statement of the transaction; the tables must not be there yet.        *)
Statement(s, from, to) ==
  /\ stage[s] = from
  /\ stage' = [stage EXCEPT ![s] = to]
  /\ UNCHANGED <<writer, seen, handle, calls, upsets>>

CreateTables(s) ==
  /\ Statement(s, "creating", "recording")
  /\ seen[s] + 1 \notin draft.tables
  /\ draft' = [draft EXCEPT !.tables = @ \cup {seen[s] + 1}]
  /\ UNCHANGED schema

RecordMigration(s) ==
  /\ Statement(s, "recording", "marking")
  /\ draft' = [draft EXCEPT !.recorded = @ \cup {seen[s] + 1}]
  /\ UNCHANGED schema

(* Faulty: the version is set outside the transaction.                      *)
MarkAtOnce(s) ==
  /\ Statement(s, "marking", "committing")
  /\ draft' = [draft EXCEPT !.version = seen[s] + 1]
  /\ schema' = [schema EXCEPT !.version = seen[s] + 1]

Mark(s) ==
  /\ Statement(s, "marking", "committing")
  /\ draft' = [draft EXCEPT !.version = seen[s] + 1]
  /\ UNCHANGED schema

Commit(s) ==
  /\ stage[s] = "committing"
  /\ schema' = draft
  /\ writer' = NoStore
  /\ seen' = [seen EXCEPT ![s] = @ + 1]
  /\ stage' = [stage EXCEPT ![s] = "checking"]
  /\ UNCHANGED <<draft, handle, calls, upsets>>

(* The transaction of thread s, if it is in one, is rolled back.            *)
RolledBack(s) == IF writer = s THEN NoStore ELSE writer

(* An error of the database, a lock that stays taken, tables another       *)
(* thread has made meanwhile, or the database of a later program.           *)
OpenFails(s) ==
  /\ \/ stage[s] = "reading"
     \/ stage[s] = "checking" /\ (seen[s] > Latest \/ seen[s] < Latest)
     \/ stage[s] \in InTransaction
  /\ writer' = RolledBack(s)
  /\ stage' = [stage EXCEPT ![s] = "off"]
  /\ handle' = [handle EXCEPT ![s] = "closed"]
  /\ UNCHANGED <<schema, draft, seen, calls, upsets>>

Ready(s) ==
  /\ stage[s] = "checking" /\ seen[s] = Latest
  /\ stage' = [stage EXCEPT ![s] = "serving"]
  /\ handle' = [handle EXCEPT ![s] = "open"]
  /\ UNCHANGED <<migration, calls, upsets>>

-----------------------------------------------------------------------------
(* Calling: a command and its channel are sent; a thread that has ended     *)
(* takes nothing.                                                           *)
Send(k, s) ==
  /\ told[k] = "new" /\ handle[s] = "open" /\ stage[s] = "serving"
  /\ told' = [told EXCEPT ![k] = "waiting"]
  /\ via' = [via EXCEPT ![k] = s]
  /\ queue' = [queue EXCEPT ![s] = Append(@, k)]
  /\ UNCHANGED <<migration, stage, handle, hand, result, slot, done, upsets>>

SendFails(k, s) ==
  /\ told[k] = "new" /\ handle[s] = "open" /\ stage[s] = "dead"
  /\ told' = [told EXCEPT ![k] = "closed"]
  /\ UNCHANGED <<migration, stage, handle, queue, hand, result, via, slot, done, upsets>>

Take(s) ==
  /\ stage[s] = "serving" /\ hand[s] = NoCall /\ queue[s] # <<>>
  /\ hand' = [hand EXCEPT ![s] = Head(queue[s])]
  /\ queue' = [queue EXCEPT ![s] = Tail(@)]
  /\ UNCHANGED <<migration, stage, handle, result, via, slot, told, done, upsets>>

(* The command in hand is carried out, in a transaction: not while another  *)
(* thread has one open, but it may be refused then, or for its own reasons. *)
Execute(s) ==
  /\ stage[s] = "serving" /\ hand[s] # NoCall /\ result[s] = "none"
  /\ \/ /\ writer = NoStore
        /\ done' = [done EXCEPT ![hand[s]] = @ + 1]
        /\ result' = [result EXCEPT ![s] = "ok"]
     \/ /\ result' = [result EXCEPT ![s] = "refused"]
        /\ UNCHANGED done
  /\ UNCHANGED <<migration, stage, handle, queue, hand, via, slot, told, upsets>>

Answer(s) ==
  /\ result[s] # "none"
  /\ slot' = [slot EXCEPT ![hand[s]] = result[s]]
  /\ hand' = [hand EXCEPT ![s] = NoCall]
  /\ result' = [result EXCEPT ![s] = "none"]
  /\ UNCHANGED <<migration, stage, handle, queue, via, told, done, upsets>>

(* The caller goes on: with its answer, or with an error when the channel   *)
(* was dropped without one.                                                 *)
Receive(k) ==
  /\ told[k] = "waiting" /\ slot[k] # "empty"
  /\ told' = [told EXCEPT ![k] = IF slot[k] = "gone" THEN "lost" ELSE slot[k]]
  /\ UNCHANGED <<migration, stage, handle, queue, hand, result, via, slot, done, upsets>>

(* The handle is dropped, which its users only do when none of them waits;  *)
(* the thread is told to stop and waited for.                               *)
Close(s) ==
  /\ handle[s] = "open"
  /\ \A k \in Call : via[k] = s => told[k] # "waiting"
  /\ stage[s] = "serving" => hand[s] = NoCall
  /\ handle' = [handle EXCEPT ![s] = "closed"]
  /\ stage' = [stage EXCEPT ![s] = "off"]
  /\ UNCHANGED <<migration, calls, upsets>>

-----------------------------------------------------------------------------
(* The calls thread s holds the channels of.                                *)
Held(s) == Range(queue[s]) \cup ({hand[s]} \ {NoCall})

(* Faulty: only the call in hand learns that its thread is gone.            *)
HungUpInHand(s) == {hand[s]} \ {NoCall}

(* The calls whose channels are dropped when thread s ends.                 *)
HungUp(s) == Held(s)

Panic(s) ==
  /\ upsets < MaxUpset /\ stage[s] = "serving" /\ hand[s] # NoCall
  /\ stage' = [stage EXCEPT ![s] = "dead"]
  /\ slot' = [k \in Call |-> IF k \in HungUp(s) THEN "gone" ELSE slot[k]]
  /\ queue' = [queue EXCEPT ![s] = <<>>]
  /\ hand' = [hand EXCEPT ![s] = NoCall]
  /\ result' = [result EXCEPT ![s] = "none"]
  /\ upsets' = upsets + 1
  /\ UNCHANGED <<migration, handle, via, told, done>>

(* A process dies with its handles, their threads and their callers.        *)
Kill(p) ==
  /\ upsets < MaxUpset
  /\ \E s \in p : handle[s] # "closed"
  /\ writer' = IF writer \in p THEN NoStore ELSE writer
  /\ stage' = [s \in Store |-> IF s \in p THEN "off" ELSE stage[s]]
  /\ handle' = [s \in Store |-> IF s \in p THEN "closed" ELSE handle[s]]
  /\ queue' = [s \in Store |-> IF s \in p THEN <<>> ELSE queue[s]]
  /\ hand' = [s \in Store |-> IF s \in p THEN NoCall ELSE hand[s]]
  /\ result' = [s \in Store |-> IF s \in p THEN "none" ELSE result[s]]
  /\ told' = [k \in Call |->
       IF told[k] = "waiting" /\ via[k] \in p THEN "lost" ELSE told[k]]
  /\ upsets' = upsets + 1
  /\ UNCHANGED <<schema, draft, seen, via, slot, done>>

Next ==
  \/ \E s \in Store :
       \/ Open(s) \/ ReadVersion(s) \/ Begin(s) \/ CreateTables(s)
       \/ RecordMigration(s) \/ Mark(s) \/ Commit(s) \/ OpenFails(s) \/ Ready(s)
       \/ Take(s) \/ Execute(s) \/ Answer(s) \/ Close(s) \/ Panic(s)
  \/ \E k \in Call, s \in Store : Send(k, s) \/ SendFails(k, s)
  \/ \E k \in Call : Receive(k)
  \/ \E p \in Process : Kill(p)

Spec == Init /\ [][Next]_vars

-----------------------------------------------------------------------------
(* The file always has the schema of one version, tables and history, also  *)
(* when two programs migrate it at once or one dies at it: a migration is   *)
(* done whole and once.                                                     *)
SchemaIsWhole == schema = Whole(schema.version)

(* Who has the handle works on the schema it was written for.               *)
OpenIsCurrent == \A s \in Store : handle[s] = "open" => schema.version = Latest

(* A command takes effect at most once; who is told that it did, or that it *)
(* did not, is told the truth, and who is told nothing may find either.     *)
AnswersAreTrue ==
  \A k \in Call :
    /\ done[k] <= 1
    /\ told[k] = "ok" => done[k] = 1
    /\ told[k] \in {"new", "refused", "closed"} => done[k] = 0

(* Who waits has an answer to come: its command is with a thread that is    *)
(* serving, or its channel says how it ended.                               *)
NobodyIsForgotten ==
  \A k \in Call : told[k] = "waiting" =>
    slot[k] # "empty" \/ (stage[via[k]] = "serving" /\ k \in Held(via[k]))
=============================================================================
