----------------------------- MODULE EventStore -----------------------------
(***************************************************************************)
(* The event store (harness-storage, sqlite_store.rs) and the callers that *)
(* recover an aggregate, decide a command and commit its events under the  *)
(* version they decided on.  One thread executes all requests in order, so *)
(* every request is one step, and a caller's own work between two requests *)
(* is what can be overtaken: it reads the snapshot, later the events after *)
(* it, replays them, decides, and later commits.                           *)
(*                                                                         *)
(* The aggregate is a session; missions go through the same code with the  *)
(* rows of the outbox in the same transaction (module Outbox).  The events *)
(* are immutable, so a caller's copy of the tail is the log up to `upto'.  *)
(***************************************************************************)
EXTENDS SessionCommands, Sequences

CONSTANTS
  Caller,      \* callers of the store
  MaxVersion,  \* bound on the events of the aggregate
  MaxCrash     \* how often the process is killed

ASSUME EventStoreAssumption == MaxVersion \in Nat /\ MaxCrash \in Nat

VARIABLES
  log,      \* rows of aggregate_events in the order of their versions
  snapshot, \* the row of aggregate_snapshots, the empty state if there is none
  pc,       \* what a caller is about to do: "idle", "tail", "replay", "decide"
  held,     \* the state a caller has recovered so far
  upto,     \* the version a caller's tail ends with
  trail,    \* history: trail[n + 1] is the state after the first n events
  crashes

vars == <<log, snapshot, pc, held, upto, trail, crashes>>

Init ==
  /\ log = <<>>
  /\ snapshot = Empty
  /\ pc = [p \in Caller |-> "idle"]
  /\ held = [p \in Caller |-> Empty]
  /\ upto = [p \in Caller |-> 0]
  /\ trail = <<Empty>>
  /\ crashes = 0

-----------------------------------------------------------------------------
(* Recovery of a caller                                                    *)

LoadSnapshot(p) ==
  /\ pc[p] = "idle"
  /\ pc' = [pc EXCEPT ![p] = "tail"]
  /\ held' = [held EXCEPT ![p] = snapshot]
  /\ UNCHANGED <<log, snapshot, upto, trail, crashes>>

(* load_events: everything after the version of the snapshot.              *)
LoadTail(p) ==
  /\ pc[p] = "tail"
  /\ pc' = [pc EXCEPT ![p] = "replay"]
  /\ upto' = [upto EXCEPT ![p] = Len(log)]
  /\ UNCHANGED <<log, snapshot, held, trail, crashes>>

(* Faulty: the event the state already has is read once more. *)
NextEventAgain(s) == log[IF s.version = 0 THEN 1 ELSE s.version]

NextEvent(s) == log[s.version + 1]

Replay(p) ==
  /\ pc[p] = "replay"
  /\ IF held[p].version < upto[p]
     THEN /\ held' = [held EXCEPT ![p] = Apply(@, NextEvent(@))]
          /\ UNCHANGED pc
     ELSE /\ pc' = [pc EXCEPT ![p] = "decide"]
          /\ UNCHANGED held
  /\ UNCHANGED <<log, snapshot, upto, trail, crashes>>

-----------------------------------------------------------------------------
(* Faulty: only a caller that is ahead is refused. *)
VersionHoldsLoosely(s) == Len(log) >= s.version

(* commit_aggregate: the transaction begins with the version check, and    *)
(* the events get the versions that follow it.                             *)
VersionHolds(s) == Len(log) = s.version

Append1(p, c) ==
  /\ VersionHolds(held[p])
  /\ log' = Append(log, c)
  /\ trail' = Append(trail, Apply(held[p], c))

Append2(p, c, d) ==
  LET s == Apply(held[p], c) IN
  /\ VersionHolds(held[p])
  /\ log' = log \o <<c, d>>
  /\ trail' = trail \o <<s, Apply(s, d)>>

(* apply_session_command: the command is judged against the state that was *)
(* recovered.                                                              *)
Commit(p, c) ==
  /\ pc[p] = "decide"
  /\ c.type # "fork"
  /\ Accepts(held[p], c)
  /\ held[p].version < MaxVersion
  /\ Append1(p, c)
  /\ pc' = [pc EXCEPT ![p] = "idle"]
  /\ UNCHANGED <<snapshot, held, upto, crashes>>

(* fork_session: the child is created with what it takes over at once.     *)
CommitFork(p, d) ==
  LET c == [type |-> "fork"] IN
  /\ pc[p] = "decide"
  /\ Accepts(held[p], c)
  /\ d.type \in {"revise", "append", "select"}
  /\ Accepts(Apply(held[p], c), d)
  /\ held[p].version + 1 < MaxVersion
  /\ Append2(p, c, d)
  /\ pc' = [pc EXCEPT ![p] = "idle"]
  /\ UNCHANGED <<snapshot, held, upto, crashes>>

(* The store refuses a stale version, or the caller refuses the command:   *)
(* nothing is written and the error goes to whoever asked.                 *)
GiveUp(p) ==
  /\ pc[p] = "decide"
  /\ pc' = [pc EXCEPT ![p] = "idle"]
  /\ UNCHANGED <<log, snapshot, held, upto, trail, crashes>>

(* The upsert of a snapshot keeps the newer one.                           *)
Newer(s) == s.version >= snapshot.version

SaveSnapshot(p) ==
  /\ pc[p] = "decide"
  /\ held[p] # Empty
  /\ snapshot' = IF Newer(held[p]) THEN held[p] ELSE snapshot
  /\ pc' = [pc EXCEPT ![p] = "idle"]
  /\ UNCHANGED <<log, held, upto, trail, crashes>>

(* The process is killed; the database stays as the last transaction left  *)
(* it.  A caller that dies after its commit has not heard of it.           *)
Crash ==
  /\ crashes < MaxCrash
  /\ crashes' = crashes + 1
  /\ pc' = [p \in Caller |-> "idle"]
  /\ held' = [p \in Caller |-> Empty]
  /\ upto' = [p \in Caller |-> 0]
  /\ UNCHANGED <<log, snapshot, trail>>

Next ==
  \/ \E p \in Caller :
       \/ LoadSnapshot(p) \/ LoadTail(p) \/ Replay(p)
       \/ GiveUp(p) \/ SaveSnapshot(p)
       \/ \E c \in Command : Commit(p, c) \/ CommitFork(p, c)
  \/ Crash

Spec == Init /\ [][Next]_vars

-----------------------------------------------------------------------------
State ==
  [version : 0..MaxVersion, status : {"new", "active"}, forked : BOOLEAN,
   goal : Goal \cup {NoGoal}, revisions : SUBSET Goal, locked : BOOLEAN,
   chosen : Choice \cup {"none"}, transcript : SUBSET Message]

(* Database and callers stay within their types.                           *)
TypeOK ==
  /\ log \in Seq(Command)
  /\ snapshot \in State
  /\ pc \in [Caller -> {"idle", "tail", "replay", "decide"}]
  /\ held \in [Caller -> State]
  /\ upto \in [Caller -> 0..MaxVersion]
  /\ trail \in Seq(State)
  /\ crashes \in 0..MaxCrash

(* However old the snapshot, and whatever is committed or saved between    *)
(* the two reads of a recovery: a caller recovers a state the aggregate    *)
(* has had, the one after exactly the events it counts, and the snapshot   *)
(* is such a state too.                                                    *)
RecoveryIsExact ==
  LET Was(s) == s.version < Len(trail) /\ s = trail[s.version + 1] IN
  /\ Was(snapshot)
  /\ \A p \in Caller : pc[p] # "idle" => Was(held[p])

-----------------------------------------------------------------------------
S == INSTANCE Session WITH session <- trail[Len(trail)]

(* Callers that overtake each other, save old snapshots and die between    *)
(* two requests look like one session obeying one command at a time: no    *)
(* update is lost and none is decided on a state that has passed.          *)
ImplementsSession == S!SessionSpec
=============================================================================
