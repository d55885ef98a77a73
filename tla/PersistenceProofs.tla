------------------------- MODULE PersistenceProofs --------------------------
(***************************************************************************)
(* Proofs about what a project keeps (modules EventStore and MCPersistence *)
(* with the components it instantiates), for any bounds, sessions, items,  *)
(* records, files, servers and callers.                                    *)
(*                                                                         *)
(* Each component has an invariant of its own, with a lemma for its start  *)
(* (..Begin), for its steps (..Step), for the steps of the others (..Stay)   *)
(* and for what it shows (..Show):                                        *)
(*   store    the versions of the log are its places, so a state that      *)
(*            counts n events and is a state the aggregate has had is the  *)
(*            one after the first n; a replay goes from one to the next,   *)
(*            and a commit is decided on the newest;                       *)
(*   context  the stages of one command tell what is still owed: as long   *)
(*            as one is to come, its effect may be missing;                *)
(*   window   what a compaction may give up is never what is required, and  *)
(*            what was said is told by its item or by a summary; items     *)
(*            leave the window in one order, and the cost of the rest,     *)
(*            counted token by token, says how far;                        *)
(*   memory   at most one generation is in force, with vectors of the      *)
(*            profile that made it and of records that are kept; what a    *)
(*            call has not left to do is done;                             *)
(*   restore  for each step of the swap, which files are there and to what *)
(*            the journal leads back;                                      *)
(*   login    a code, a client and a grant belong to the flow that asked;  *)
(*   handles  proved in module StoreWorkerProofs, for its own constants.   *)
(* The last section puts them together.                                    *)
(***************************************************************************)
EXTENDS MCPersistence, FiniteSetTheorems, SequenceTheorems, NaturalsInduction,
        WellFoundedInduction, TLAPS

-----------------------------------------------------------------------------
(* The event store and its callers.                                          *)

(* The history is the log, replayed: it has one state more, begins with    *)
(* the empty one, and each is what the event made of the one before.       *)
HistoryIsLog ==
  /\ Len(trail) = Len(log) + 1
  /\ trail[1] = Empty
  /\ \A i \in 1..Len(log) : trail[i + 1] = Apply(trail[i], log[i])
  /\ \A i \in 1..Len(trail) : trail[i].version = i - 1

(* No caller's copy of the log is longer than the log.                     *)
TailIsOld == \A p \in Caller : upto[p] <= Len(log)

StoreInv == TypeOK /\ HistoryIsLog /\ TailIsOld /\ RecoveryIsExact

-----------------------------------------------------------------------------
(* An event makes of a state one that counts one event more.               *)
LEMMA ApplyType ==
  ASSUME NEW s \in State, NEW c \in Command, s.version < MaxVersion
  PROVE  Apply(s, c) \in State /\ Apply(s, c).version = s.version + 1
<1> DEFINE n == [s EXCEPT !.version = @ + 1]
<1>1. n \in State /\ n.version = s.version + 1
  BY EventStoreAssumption DEF State
<1> HIDE DEF n
<1>2. CASE c.type = "create"
  <2>1. Apply(s, c) = [n EXCEPT !.status = "active"]
    BY <1>2 DEF Apply, n
  <2> QED BY <1>1, <2>1 DEF State
<1>3. CASE c.type = "fork"
  <2>1. Apply(s, c) = [n EXCEPT !.status = "active", !.forked = TRUE]
    BY <1>3 DEF Apply, n
  <2> QED BY <1>1, <2>1 DEF State
<1>4. CASE c.type = "revise"
  <2>1. c.goal \in Goal
    BY <1>4 DEF Command
  <2>2. Apply(s, c) = [n EXCEPT !.goal = c.goal, !.revisions = @ \cup {c.goal}]
    BY <1>4 DEF Apply, n
  <2>3. n.revisions \cup {c.goal} \in SUBSET Goal
    BY <1>1, <2>1 DEF State
  <2> QED BY <1>1, <2>1, <2>2, <2>3 DEF State
<1>5. CASE c.type = "clear"
  <2>1. Apply(s, c) = [n EXCEPT !.goal = NoGoal]
    BY <1>5 DEF Apply, n
  <2> QED BY <1>1, <2>1 DEF State
<1>6. CASE c.type = "lock"
  <2>1. c.locked \in BOOLEAN
    BY <1>6 DEF Command
  <2>2. Apply(s, c) = [n EXCEPT !.locked = c.locked]
    BY <1>6 DEF Apply, n
  <2> QED BY <1>1, <2>1, <2>2 DEF State
<1>7. CASE c.type = "select"
  <2>1. c.choice \in Choice
    BY <1>7 DEF Command
  <2>2. Apply(s, c) = [n EXCEPT !.chosen = c.choice]
    BY <1>7 DEF Apply, n
  <2> QED BY <1>1, <2>1, <2>2 DEF State
<1>8. CASE c.type = "append"
  <2>1. c.message \in Message
    BY <1>8 DEF Command
  <2>2. Apply(s, c) = [n EXCEPT !.transcript = @ \cup {c.message}]
    BY <1>8 DEF Apply, n
  <2> QED BY <1>1, <2>1, <2>2 DEF State
<1>9. c.type \in {"create", "fork", "revise", "clear", "lock", "select", "append"}
  BY DEF Command
<1> QED BY <1>2, <1>3, <1>4, <1>5, <1>6, <1>7, <1>8, <1>9

(* The empty state is a state.                                             *)
LEMMA EmptyType == Empty \in State
BY EventStoreAssumption DEF Empty, State

(* The log is never longer than the bound.                                 *)
LEMMA LogIsBounded ==
  ASSUME StoreInv PROVE Len(log) \in 0..MaxVersion
<1>1. trail[Len(trail)] \in State /\ Len(trail) \in Nat /\ Len(trail) >= 1
  BY DEF StoreInv, TypeOK, HistoryIsLog
<1>2. trail[Len(trail)].version = Len(trail) - 1
  BY <1>1 DEF StoreInv, HistoryIsLog
<1> QED BY <1>1, <1>2, EventStoreAssumption DEF StoreInv, TypeOK, HistoryIsLog, State

(* A caller that decides on a state whose version is the length of the log *)
(* decides on the newest state.                                            *)
LEMMA DecidesOnNewest ==
  ASSUME StoreInv, NEW p \in Caller, pc[p] = "decide", VersionHolds(held[p])
  PROVE  held[p] = trail[Len(trail)]
BY DEF StoreInv, TypeOK, HistoryIsLog, RecoveryIsExact, VersionHolds

(* What has been recovered stays exact when the history only grows.        *)
LEMMA RecoveryOutlastsGrowth ==
  ASSUME TypeOK, RecoveryIsExact, TypeOK', Len(trail') >= Len(trail),
         \A i \in 1..Len(trail) : trail'[i] = trail[i],
         UNCHANGED <<snapshot, held>>,
         \A p \in Caller : pc'[p] # "idle" => pc[p] # "idle"
  PROVE  RecoveryIsExact'
<1>1. Len(trail) \in Nat /\ Len(trail') \in Nat
  BY DEF TypeOK
<1>2. snapshot.version \in Nat /\ \A p \in Caller : held[p].version \in Nat
  BY EventStoreAssumption DEF TypeOK, State
<1> QED BY <1>1, <1>2 DEF RecoveryIsExact

-----------------------------------------------------------------------------
(* The store begins with an empty log.                                     *)
LEMMA StoreBegin == Init => StoreInv
<1> SUFFICES ASSUME Init PROVE StoreInv
  OBVIOUS
<1>1. TypeOK
  BY EmptyType, EventStoreAssumption DEF Init, TypeOK
<1>2. Empty.version = 0
  BY DEF Empty
<1>3. HistoryIsLog /\ RecoveryIsExact
  BY <1>2 DEF Init, HistoryIsLog, RecoveryIsExact
<1>4. TailIsOld
  BY DEF Init, TailIsOld
<1> QED BY <1>1, <1>3, <1>4 DEF StoreInv

(* Every step of a caller, and a crash.                                    *)
LEMMA StoreStep == StoreInv /\ [Next]_vars => StoreInv'
<1> SUFFICES ASSUME StoreInv, [Next]_vars PROVE StoreInv'
  OBVIOUS
<1>1. CASE UNCHANGED vars
  BY <1>1 DEF StoreInv, TypeOK, HistoryIsLog, TailIsOld, RecoveryIsExact, vars
<1>2. ASSUME NEW p \in Caller, LoadSnapshot(p) PROVE StoreInv'
  BY <1>2 DEF StoreInv, TypeOK, HistoryIsLog, TailIsOld, RecoveryIsExact, LoadSnapshot
<1>3. ASSUME NEW p \in Caller, LoadTail(p) PROVE StoreInv'
  BY <1>3, LogIsBounded
  DEF StoreInv, TypeOK, HistoryIsLog, TailIsOld, RecoveryIsExact, LoadTail
<1>4. ASSUME NEW p \in Caller, Replay(p) PROVE StoreInv'
  <2>1. CASE held[p].version < upto[p]
    <3> DEFINE v == held[p].version
               next == Apply(held[p], NextEvent(held[p]))
    <3>1. held[p] \in State /\ v \in Nat /\ v < Len(log) /\ v < MaxVersion
      BY <2>1, LogIsBounded, EventStoreAssumption DEF StoreInv, TypeOK, TailIsOld, State
    <3>2. NextEvent(held[p]) \in Command
      BY <3>1 DEF StoreInv, TypeOK, NextEvent
    <3>3. next \in State /\ next.version = v + 1
      BY <3>1, <3>2, ApplyType
    <3>4. held[p] = trail[v + 1] /\ v + 1 \in 1..Len(log)
      BY <1>4, <3>1 DEF StoreInv, TypeOK, RecoveryIsExact, Replay
    <3>5. next = trail[v + 2]
      BY SMTT(30), <3>4 DEF StoreInv, HistoryIsLog, NextEvent
    <3>6. held' = [held EXCEPT ![p] = next]
      BY <1>4, <2>1 DEF Replay
    <3> HIDE DEF next
    <3>7. UNCHANGED <<log, snapshot, pc, upto, trail, crashes>>
      BY <1>4, <2>1 DEF Replay
    <3>8. TypeOK' /\ HistoryIsLog' /\ TailIsOld'
      BY <3>3, <3>6, <3>7 DEF StoreInv, TypeOK, HistoryIsLog, TailIsOld
    <3>9. next.version < Len(trail) /\ next = trail[next.version + 1]
      BY SMTT(30), <3>1, <3>3, <3>5 DEF StoreInv, TypeOK, HistoryIsLog
    <3>10. RecoveryIsExact'
      BY <3>6, <3>7, <3>9 DEF StoreInv, TypeOK, RecoveryIsExact
    <3> QED BY <3>8, <3>10 DEF StoreInv
  <2>2. CASE ~(held[p].version < upto[p])
    BY <1>4, <2>2
    DEF StoreInv, TypeOK, HistoryIsLog, TailIsOld, RecoveryIsExact, Replay
  <2> QED BY <2>1, <2>2
<1>5. ASSUME NEW p \in Caller, GiveUp(p) PROVE StoreInv'
  BY <1>5 DEF StoreInv, TypeOK, HistoryIsLog, TailIsOld, RecoveryIsExact, GiveUp
<1>6. ASSUME NEW p \in Caller, SaveSnapshot(p) PROVE StoreInv'
  BY <1>6
  DEF StoreInv, TypeOK, HistoryIsLog, TailIsOld, RecoveryIsExact, SaveSnapshot
<1>7. ASSUME NEW p \in Caller, NEW c \in Command, Commit(p, c) PROVE StoreInv'
  <2> DEFINE s == Apply(held[p], c)
  <2>1. held[p] \in State /\ held[p] = trail[Len(trail)] /\ held[p].version = Len(log)
    BY <1>7, DecidesOnNewest DEF Commit, Append1, VersionHolds, StoreInv, TypeOK
  <2>2. s \in State /\ s.version = Len(log) + 1
    BY <1>7, <2>1, ApplyType DEF Commit
  <2>3. /\ log' = Append(log, c) /\ trail' = Append(trail, s)
        /\ pc' = [pc EXCEPT ![p] = "idle"]
        /\ UNCHANGED <<snapshot, held, upto, crashes>>
    BY <1>7 DEF Commit, Append1
  <2>4. trail[Len(trail)] = trail[Len(log) + 1] /\ s = Apply(trail[Len(log) + 1], c)
    BY <2>1 DEF StoreInv, HistoryIsLog
  <2> HIDE DEF s
  <2>5. TypeOK'
    BY <2>2, <2>3 DEF StoreInv, TypeOK
  <2>6. HistoryIsLog'
    BY <2>2, <2>3, <2>4 DEF StoreInv, TypeOK, HistoryIsLog
  <2>7. TailIsOld'
    BY <2>3 DEF StoreInv, TypeOK, TailIsOld
  <2>8. RecoveryIsExact'
    BY <2>3, <2>5, RecoveryOutlastsGrowth DEF StoreInv, TypeOK
  <2> QED BY <2>5, <2>6, <2>7, <2>8 DEF StoreInv
<1>8. ASSUME NEW p \in Caller, NEW d \in Command, CommitFork(p, d) PROVE StoreInv'
  <2> DEFINE c == [type |-> "fork"]
             s == Apply(held[p], c)
             r == Apply(s, d)
  <2>1. held[p] \in State /\ held[p] = trail[Len(trail)] /\ held[p].version = Len(log)
    BY <1>8, DecidesOnNewest DEF CommitFork, Append2, VersionHolds, StoreInv, TypeOK
  <2>2. c \in Command
    BY DEF Command
  <2>3. s \in State /\ s.version = Len(log) + 1
    <3>1. held[p].version < MaxVersion
      BY <1>8, <2>1, EventStoreAssumption DEF CommitFork, State
    <3> QED BY <2>1, <2>2, <3>1, ApplyType
  <2>4. r \in State /\ r.version = Len(log) + 2
    BY <1>8, <2>1, <2>3, ApplyType DEF CommitFork
  <2>5. /\ log' = log \o <<c, d>> /\ trail' = trail \o <<s, r>>
        /\ pc' = [pc EXCEPT ![p] = "idle"]
        /\ UNCHANGED <<snapshot, held, upto, crashes>>
    BY <1>8 DEF CommitFork, Append2
  <2>6. trail[Len(trail)] = trail[Len(log) + 1] /\ s = Apply(trail[Len(log) + 1], c)
    BY <2>1 DEF StoreInv, HistoryIsLog
  <2>7. r = Apply(s, d)
    OBVIOUS
  <2> HIDE DEF c, s, r
  <2>8. TypeOK'
    BY <2>2, <2>3, <2>4, <2>5 DEF StoreInv, TypeOK
  <2>9. HistoryIsLog'
    <3>1. Len(log') = Len(log) + 2 /\ Len(trail') = Len(trail) + 2
      BY <2>5 DEF StoreInv, TypeOK
    <3>2. \A i \in 1..Len(trail) : trail'[i] = trail[i]
      BY <2>5 DEF StoreInv, TypeOK
    <3>3. \A i \in 1..Len(log) : log'[i] = log[i]
      BY <2>5 DEF StoreInv, TypeOK
    <3>4. log'[Len(log) + 1] = c /\ log'[Len(log) + 2] = d
      BY <2>5 DEF StoreInv, TypeOK
    <3>5. trail'[Len(trail) + 1] = s /\ trail'[Len(trail) + 2] = r
      BY <2>5 DEF StoreInv, TypeOK
    <3>6. Len(log) \in Nat /\ Len(trail) = Len(log) + 1
      BY DEF StoreInv, TypeOK, HistoryIsLog
    <3>7. ASSUME NEW i \in 1..Len(log') PROVE trail'[i + 1] = Apply(trail'[i], log'[i])
      <4>1. i \in 1..Len(log) \/ i = Len(log) + 1 \/ i = Len(log) + 2
        BY <3>1, <3>6
      <4>2. CASE i \in 1..Len(log)
        BY <3>2, <3>3, <3>6, <4>2 DEF StoreInv, HistoryIsLog
      <4>3. CASE i = Len(log) + 1
        BY <2>6, <3>2, <3>4, <3>5, <3>6, <4>3
      <4>4. CASE i = Len(log) + 2
        BY <2>7, <3>4, <3>5, <3>6, <4>4
      <4> QED BY <4>1, <4>2, <4>3, <4>4
    <3>8. ASSUME NEW i \in 1..Len(trail') PROVE trail'[i].version = i - 1
      <4>1. i \in 1..Len(trail) \/ i = Len(trail) + 1 \/ i = Len(trail) + 2
        BY <3>1, <3>6
      <4> QED BY <2>3, <2>4, <3>2, <3>5, <3>6, <4>1 DEF StoreInv, HistoryIsLog
    <3> QED BY <3>1, <3>2, <3>6, <3>7, <3>8 DEF StoreInv, HistoryIsLog
  <2>10. TailIsOld'
    BY <2>5 DEF StoreInv, TypeOK, TailIsOld
  <2>11. RecoveryIsExact'
    BY <2>5, <2>8, RecoveryOutlastsGrowth DEF StoreInv, TypeOK
  <2> QED BY <2>8, <2>9, <2>10, <2>11 DEF StoreInv
<1>9. ASSUME Crash PROVE StoreInv'
  <2>1. /\ pc' = [p \in Caller |-> "idle"] /\ held' = [p \in Caller |-> Empty]
        /\ upto' = [p \in Caller |-> 0] /\ crashes < MaxCrash /\ crashes' = crashes + 1
        /\ UNCHANGED <<log, snapshot, trail>>
    BY <1>9 DEF Crash
  <2>2. TypeOK'
    BY <2>1, EmptyType, EventStoreAssumption DEF StoreInv, TypeOK
  <2>3. HistoryIsLog' /\ TailIsOld'
    BY <2>1 DEF StoreInv, TypeOK, HistoryIsLog, TailIsOld
  <2>4. RecoveryIsExact'
    BY <2>1 DEF StoreInv, RecoveryIsExact
  <2> QED BY <2>2, <2>3, <2>4 DEF StoreInv
<1> QED BY <1>1, <1>2, <1>3, <1>4, <1>5, <1>6, <1>7, <1>8, <1>9 DEF Next

(* The argument of the module's head, as an invariant.                     *)
THEOREM Invariance == Spec => []StoreInv
BY StoreBegin, StoreStep, PTL DEF Spec

(* Database and callers stay within their types.                           *)
THEOREM Types == Spec => []TypeOK
BY Invariance, PTL DEF StoreInv

(* Whatever a caller has recovered, and whatever is saved as the snapshot, *)
(* is the state after exactly the events it counts.                        *)
THEOREM Exactness == Spec => []RecoveryIsExact
BY Invariance, PTL DEF StoreInv

-----------------------------------------------------------------------------
(* The abstract session and the store share their commands.                *)
LEMMA SameCommands ==
  /\ S!Command = Command /\ S!Empty = Empty
  /\ \A s, c : S!Accepts(s, c) = Accepts(s, c) /\ S!Apply(s, c) = Apply(s, c)
BY DEF S!Command, Command, S!Empty, Empty, S!Accepts, Accepts, S!Apply, Apply

(* A request of any caller is one step of the session or none: the commits *)
(* are decided on its newest state, and nothing else writes events.        *)
THEOREM Refinement == Spec => ImplementsSession
<1> DEFINE newest == trail[Len(trail)]
<1>1. Init => S!Init
  BY SameCommands DEF Init, S!Init
<1>2. StoreInv /\ StoreInv' /\ [Next]_vars => [S!Next]_newest
  <2> SUFFICES ASSUME StoreInv, StoreInv', [Next]_vars PROVE [S!Next]_newest
    OBVIOUS
  <2>1. CASE UNCHANGED trail
    BY <2>1
  <2>2. ASSUME NEW p \in Caller, NEW c \in Command, Commit(p, c) PROVE S!Next
    <3>1. held[p] = newest /\ held[p] \in State /\ held[p].version < MaxVersion
      BY <2>2, DecidesOnNewest DEF Commit, Append1, StoreInv, TypeOK
    <3>2. Accepts(newest, c)
      BY <2>2, <3>1 DEF Commit
    <3>3. newest' = Apply(newest, c)
      BY <2>2, <3>1 DEF Commit, Append1, StoreInv, TypeOK
    <3>4. newest' # newest
      BY <3>1, <3>3, ApplyType, EventStoreAssumption DEF State
    <3> QED BY <3>2, <3>3, <3>4, SameCommands DEF S!Next, S!Obey
  <2>3. ASSUME NEW p \in Caller, NEW d \in Command, CommitFork(p, d) PROVE S!Next
    <3> DEFINE c == [type |-> "fork"]
    <3>1. /\ held[p] = newest /\ held[p] \in State
          /\ held[p].version \in Nat /\ held[p].version + 1 < MaxVersion
      BY SMTT(30), <2>3, DecidesOnNewest, EventStoreAssumption
      DEF CommitFork, Append2, StoreInv, TypeOK, State
    <3>2. c \in Command
      BY DEF Command
    <3>3. Accepts(newest, c) /\ Accepts(Apply(newest, c), d)
      BY <2>3, <3>1 DEF CommitFork
    <3>4. newest' = Apply(Apply(newest, c), d)
      BY <2>3, <3>1 DEF CommitFork, Append2, StoreInv, TypeOK
    <3>5. Apply(newest, c) \in State /\ Apply(newest, c).version = newest.version + 1
      BY <3>1, <3>2, ApplyType, EventStoreAssumption
    <3>6. newest'.version = newest.version + 2
      BY <3>1, <3>4, <3>5, ApplyType, EventStoreAssumption
    <3>7. newest' # newest
      BY <3>1, <3>6
    <3> HIDE DEF c
    <3> QED BY <3>2, <3>3, <3>4, <3>7, SameCommands DEF S!Next, S!ObeyBoth
  <2>4. \/ UNCHANGED trail
        \/ \E p \in Caller, c \in Command : Commit(p, c) \/ CommitFork(p, c)
    BY DEF Next, vars, LoadSnapshot, LoadTail, Replay, GiveUp, SaveSnapshot, Crash
  <2> QED BY <2>1, <2>2, <2>3, <2>4
<1> QED BY <1>1, <1>2, Invariance, PTL DEF Spec, ImplementsSession, S!SessionSpec

-----------------------------------------------------------------------------
(* The context of the sessions.                                              *)

SeriesTyped ==
  /\ made \subseteq Session /\ at \in Session
  /\ goal \in [Session -> Goal \cup {NoGoal}]
  /\ series \in Seq([session : Session, parent : Nat, from : Nat,
                     goal : Goal \cup {NoGoal}, notes : SUBSET Note])
  /\ checkpoints \in Seq([session : Session, series : Nat, goal : Goal \cup {NoGoal}])
  /\ head \in [Session -> Nat] /\ lineage \in [Session -> Nat]
  /\ op \in [todo : {"nothing", "open", "ensure", "reconcile", "show", "reset",
                     "compact", "fork"}, from : Nat]

(* Heads, checkpoints and lineages lead to what there is; the application   *)
(* works in a session it has created, and after its opening in a context.    *)
Linked ==
  /\ \A s \in Session : head[s] <= Len(series) /\ lineage[s] <= Len(checkpoints)
  /\ \A c \in 1..Len(checkpoints) : checkpoints[c].series \in 1..Len(series)
  /\ op.todo # "open" => at \in made
  /\ op.todo \notin {"open", "ensure"} => head[at] # 0
  /\ op.todo = "fork" => op.from # 0
  /\ op.todo = "nothing" => op = Context!Idle

(* No step but those that owe it leaves the goal unshown.                    *)
Shows ==
  op.todo \notin {"open", "ensure", "reconcile", "show"} /\ ~returned =>
    goal[at] \in {NoGoal, Context!Active.goal}

SeriesInv == SeriesTyped /\ Linked /\ Shows /\ Context!ForkIsExact

LEMMA SeriesStay == UNCHANGED contextVars => (SeriesInv => SeriesInv')
BY DEF contextVars, SeriesInv, SeriesTyped, Linked, Shows, Context!ForkIsExact,
   Context!Active, Context!Idle

LEMMA SeriesBegin == InstanceAssumption /\ Context!Init => SeriesInv
BY DEF InstanceAssumption, Context!Init, SeriesInv, SeriesTyped, Linked, Shows,
   Context!ForkIsExact, Context!Owes

ASeries ==
  [session : Session, parent : Nat, from : Nat, goal : Goal \cup {NoGoal},
   notes : SUBSET Note]

(* What lists and links are, one by one.                                     *)
LEMMA SeriesFacts ==
  ASSUME SeriesInv
  PROVE  /\ Len(series) \in Nat /\ Len(checkpoints) \in Nat
         /\ DOMAIN series = 1..Len(series) /\ DOMAIN checkpoints = 1..Len(checkpoints)
         /\ \A s \in Session : head[s] \in 0..Len(series)
         /\ \A s \in Session : lineage[s] \in 0..Len(checkpoints)
         /\ \A i \in 1..Len(series) : series[i].goal \in Goal \cup {NoGoal}
         /\ \A i \in 1..Len(series) : series[i].notes \in SUBSET Note
         /\ \A c \in 1..Len(checkpoints) : checkpoints[c].series \in 1..Len(series)
         /\ \A c \in 1..Len(checkpoints) : checkpoints[c].goal \in Goal \cup {NoGoal}
<1>1. series \in Seq(ASeries)
  BY DEF SeriesInv, SeriesTyped, ASeries
<1>2. checkpoints \in Seq([session : Session, series : Nat, goal : Goal \cup {NoGoal}])
  BY DEF SeriesInv, SeriesTyped
<1>3. /\ head \in [Session -> Nat] /\ lineage \in [Session -> Nat]
      /\ \A s \in Session : head[s] <= Len(series) /\ lineage[s] <= Len(checkpoints)
      /\ \A c \in 1..Len(checkpoints) : checkpoints[c].series \in 1..Len(series)
  BY DEF SeriesInv, SeriesTyped, Linked
<1>4. /\ Len(series) \in Nat /\ DOMAIN series = 1..Len(series)
      /\ \A i \in 1..Len(series) : series[i] \in ASeries
  BY ONLY <1>1
<1> DEFINE C == [session : Session, series : Nat, goal : Goal \cup {NoGoal}]
<1>5. /\ Len(checkpoints) \in Nat /\ DOMAIN checkpoints = 1..Len(checkpoints)
      /\ \A c \in 1..Len(checkpoints) : checkpoints[c] \in C
  <2> HIDE DEF C
  <2>1. checkpoints \in Seq(C)
    BY <1>2 DEF C
  <2> QED
    BY ONLY <2>1
<1>6. /\ \A i \in 1..Len(series) : series[i].goal \in Goal \cup {NoGoal}
      /\ \A i \in 1..Len(series) : series[i].notes \in SUBSET Note
  BY ONLY <1>4 DEF ASeries
<1>7. \A c \in 1..Len(checkpoints) : checkpoints[c].goal \in Goal \cup {NoGoal}
  BY ONLY <1>5
<1> QED
  BY ONLY <1>3, <1>4, <1>5, <1>6, <1>7

(* A transition adds a series, and makes it the head.                        *)
LEMMA TransitionIs ==
  ASSUME SeriesInv, NEW s \in Session, NEW c \in 0..Len(checkpoints),
         NEW shown \in Goal \cup {NoGoal}, NEW notes \in SUBSET Note,
         Context!Transition(s, c, shown, notes),
         UNCHANGED <<lineage, checkpoints>>,
         lineage[s] # 0 /\ head[s] = 0 =>
           /\ c = lineage[s]
           /\ notes = series[checkpoints[c].series].notes
           /\ shown = series[checkpoints[c].series].goal
  PROVE  /\ series' \in Seq(ASeries) /\ Len(series') = Len(series) + 1
         /\ \A i \in 1..Len(series) : series'[i] = series[i]
         /\ series'[Len(series')].goal = shown
         /\ head' = [head EXCEPT ![s] = Len(series')]
         /\ head' \in [Session -> Nat]
         /\ \A r \in Session : head'[r] <= Len(series')
         /\ \A k \in 1..Len(checkpoints) : checkpoints[k].series \in 1..Len(series')
         /\ Context!ForkIsExact'
<1> DEFINE parent == IF head[s] = 0 /\ c # 0 THEN checkpoints[c].series ELSE head[s]
           e == [session |-> s, parent |-> parent, from |-> c, goal |-> shown,
                 notes |-> notes]
<1>0. /\ Len(series) \in Nat /\ Len(checkpoints) \in Nat
      /\ DOMAIN series = 1..Len(series) /\ DOMAIN checkpoints = 1..Len(checkpoints)
      /\ \A r \in Session : head[r] \in 0..Len(series)
      /\ \A r \in Session : lineage[r] \in 0..Len(checkpoints)
      /\ \A k \in 1..Len(checkpoints) : checkpoints[k].series \in 1..Len(series)
  BY SeriesFacts
<1>1. series \in Seq(ASeries) /\ head \in [Session -> Nat]
  BY DEF SeriesInv, SeriesTyped, ASeries
<1>2. series' = Append(series, e) /\ head' = [head EXCEPT ![s] = Len(series) + 1]
  BY DEF Context!Transition
<1>3. e \in ASeries
  <2>1. parent \in Nat /\ c \in Nat
    BY <1>0
  <2> QED
    BY <2>1 DEF ASeries
<1> HIDE DEF e
<1>4. /\ Len(series') = Len(series) + 1 /\ series'[Len(series) + 1] = e
      /\ \A i \in 1..Len(series) : series'[i] = series[i]
      /\ series' \in Seq(ASeries) /\ DOMAIN series' = 1..(Len(series) + 1)
  BY ONLY <1>0, <1>1, <1>2, <1>3
<1>5. Context!ForkIsExact'
  <2> SUFFICES ASSUME NEW r \in Session, lineage[r] # 0, head'[r] # 0
               PROVE  \E i \in DOMAIN series' :
                        LET source == series'[checkpoints[lineage[r]].series] IN
                        /\ series'[i].session = r
                        /\ series'[i].parent = checkpoints[lineage[r]].series
                        /\ series'[i].from = lineage[r]
                        /\ series'[i].notes = source.notes
                        /\ series'[i].goal = source.goal
    BY DEF Context!ForkIsExact
  <2> DEFINE k == checkpoints[lineage[r]].series
  <2>1. k \in 1..Len(series)
    <3>1. lineage[r] \in 1..Len(checkpoints)
      BY <1>0
    <3> QED
      BY <1>0, <3>1
  <2>0. series'[k] = series[k]
    BY <1>4, <2>1
  <2> HIDE DEF k
  <2>2. CASE head[r] # 0
    <3>1. PICK i \in DOMAIN series :
            /\ series[i].session = r /\ series[i].parent = k /\ series[i].from = lineage[r]
            /\ series[i].notes = series[k].notes /\ series[i].goal = series[k].goal
      BY <2>2 DEF Context!ForkIsExact, SeriesInv, k
    <3>2. i \in 1..Len(series) /\ i \in DOMAIN series' /\ series'[i] = series[i]
      BY <1>0, <1>4, <3>1
    <3> QED
      BY <2>0, <3>1, <3>2 DEF k
  <2>3. CASE head[r] = 0
    <3>1. r = s
      BY <1>1, <1>2, <2>3
    <3>2. Len(series) + 1 \in DOMAIN series'
      BY <1>0, <1>4
    <3>3. /\ c = lineage[r] /\ c # 0 /\ k = checkpoints[c].series
          /\ notes = series[k].notes /\ shown = series[k].goal
      BY <2>3, <3>1 DEF k
    <3>4. /\ e.session = r /\ e.parent = k /\ e.from = c /\ e.notes = notes
          /\ e.goal = shown
      BY <2>3, <3>1, <3>3 DEF e
    <3> QED
      BY <1>4, <2>0, <3>2, <3>3, <3>4 DEF k
  <2> QED
    BY <2>2, <2>3
<1>6. \A r \in Session : head'[r] <= Len(series')
  BY <1>0, <1>1, <1>2, <1>4
<1>7. head' \in [Session -> Nat]
  BY <1>0, <1>1, <1>2
<1>8. \A k \in 1..Len(checkpoints) : checkpoints[k].series \in 1..Len(series')
  BY <1>0, <1>4
<1>9. series'[Len(series')].goal = shown /\ head' = [head EXCEPT ![s] = Len(series')]
  BY <1>2, <1>4 DEF e
<1> QED
  BY <1>4, <1>5, <1>6, <1>7, <1>8, <1>9

(* Back in a context, with the goal it shows.                                *)
LEMMA Reshown ==
  ASSUME SeriesInv, NEW c \in 0..Len(checkpoints), head[at] # 0 \/ op.todo = "ensure",
         NEW shown \in Goal \cup {NoGoal}, NEW notes \in SUBSET Note,
         Context!Transition(at, c, shown, notes), op.todo # "open",
         UNCHANGED <<made, lineage, goal, checkpoints, at>>,
         lineage[at] # 0 /\ head[at] = 0 =>
           /\ c = lineage[at]
           /\ notes = series[checkpoints[c].series].notes
           /\ shown = series[checkpoints[c].series].goal,
         op' \in {Context!Idle, Context!Owes("reconcile", 0)},
         op'.todo = "nothing" /\ ~returned' => shown = goal[at] \/ goal[at] = NoGoal
  PROVE  SeriesInv'
<1>0. at \in Session /\ head \in [Session -> Nat]
  BY DEF SeriesInv, SeriesTyped
<1>1. /\ series' \in Seq(ASeries) /\ Len(series') = Len(series) + 1
      /\ series'[Len(series')].goal = shown
      /\ head' = [head EXCEPT ![at] = Len(series')]
      /\ head' \in [Session -> Nat]
      /\ \A r \in Session : head'[r] <= Len(series')
      /\ \A k \in 1..Len(checkpoints) : checkpoints[k].series \in 1..Len(series')
      /\ Context!ForkIsExact'
  BY <1>0, TransitionIs
<1>2. Len(series) \in Nat
  BY SeriesFacts
<1>3. head'[at] = Len(series') /\ head'[at] # 0
  BY <1>0, <1>1, <1>2
<1>4. SeriesTyped'
  <2>1. op' \in [todo : {"nothing", "open", "ensure", "reconcile", "show", "reset",
                         "compact", "fork"}, from : Nat]
    BY DEF Context!Idle, Context!Owes
  <2> QED
    BY <1>1, <2>1, Zenon DEF SeriesInv, SeriesTyped, ASeries
<1>5. Linked'
  BY <1>1, <1>3 DEF SeriesInv, Linked, Context!Idle, Context!Owes
<1>6. Shows'
  <2>1. Context!Active' = series'[head'[at]]
    BY DEF Context!Active
  <2>2. op'.todo \in {"nothing", "reconcile"}
    BY DEF Context!Idle, Context!Owes
  <2> QED
    BY <1>1, <1>3, <2>1, <2>2 DEF Shows
<1> QED
  BY <1>1, <1>4, <1>5, <1>6 DEF SeriesInv

(* Every step.                                                               *)
LEMMA SeriesStep == InstanceAssumption /\ Context!Next => (SeriesInv => SeriesInv')
<1> SUFFICES ASSUME InstanceAssumption, Context!Next, SeriesInv PROVE SeriesInv'
  OBVIOUS
<1>a. /\ Len(series) \in Nat /\ Len(checkpoints) \in Nat
      /\ \A s \in Session : head[s] \in 0..Len(series)
      /\ \A s \in Session : lineage[s] \in 0..Len(checkpoints)
      /\ \A i \in 1..Len(series) : series[i].goal \in Goal \cup {NoGoal}
      /\ \A i \in 1..Len(series) : series[i].notes \in SUBSET Note
      /\ \A c \in 1..Len(checkpoints) : checkpoints[c].series \in 1..Len(series)
      /\ \A c \in 1..Len(checkpoints) : checkpoints[c].goal \in Goal \cup {NoGoal}
      /\ DOMAIN checkpoints = 1..Len(checkpoints)
  BY SeriesFacts
<1>b. at \in Session /\ goal \in [Session -> Goal \cup {NoGoal}] /\ goal[at] \in Goal \cup {NoGoal}
  BY DEF SeriesInv, SeriesTyped
<1>c. head[at] # 0 => /\ Context!Active.goal \in Goal \cup {NoGoal}
                      /\ Context!Active.notes \in SUBSET Note
  BY <1>a, <1>b DEF Context!Active
<1>d. /\ op.todo \notin {"open", "ensure"} => head[at] # 0 /\ at \in made
      /\ op.todo = "nothing" <=> op = Context!Idle
  BY DEF SeriesInv, Linked, Context!Idle
<1>1. CASE Context!OpenSession
  BY <1>1 DEF Context!OpenSession, SeriesInv, SeriesTyped, Linked, Shows, Context!Owes,
     Context!ForkIsExact
<1>2. CASE Context!EnsureSeries
  <2> DEFINE c == lineage[at]  source == series[checkpoints[c].series]
  <2>1. CASE head[at] # 0
    BY <1>2, <2>1 DEF Context!EnsureSeries, SeriesInv, SeriesTyped, Linked, Shows,
       Context!Owes, Context!ForkIsExact
  <2>2. CASE head[at] = 0
    <3>0. c \in 0..Len(checkpoints)
      BY <1>a, <1>b
    <3>1. CASE c # 0
      <4>1. /\ source.goal \in Goal \cup {NoGoal} /\ source.notes \in SUBSET Note
        BY <1>a, <3>0, <3>1
      <4>2. /\ Context!Transition(at, c, source.goal, source.notes)
            /\ op.todo = "ensure" /\ op' = Context!Owes("reconcile", 0)
            /\ UNCHANGED <<made, lineage, goal, checkpoints, at>>
        BY <1>2, <2>2, <3>1 DEF Context!EnsureSeries
      <4>3. op'.todo # "nothing"
        BY <4>2 DEF Context!Owes
      <4> QED
        BY <3>0, <4>1, <4>2, <4>3, Reshown
    <3>2. CASE c = 0
      <4>1. /\ Context!Transition(at, 0, NoGoal, {})
            /\ op.todo = "ensure" /\ op' = Context!Owes("reconcile", 0)
            /\ UNCHANGED <<made, lineage, goal, checkpoints, at>>
        BY <1>2, <2>2, <3>2 DEF Context!EnsureSeries
      <4>2. op'.todo # "nothing"
        BY <4>1 DEF Context!Owes
      <4>3. 0 \in 0..Len(checkpoints)
        BY <1>a
      <4> QED
        BY <3>2, <4>1, <4>2, <4>3, Reshown
    <3> QED
      BY <3>1, <3>2
  <2> QED
    BY <2>1, <2>2
<1>0. 0 \in 0..Len(checkpoints)
  BY <1>a
<1>3. CASE Context!Reconcile
  <2>1. CASE goal[at] \in {NoGoal, Context!Active.goal}
    BY <1>3, <2>1 DEF Context!Reconcile, SeriesInv, SeriesTyped, Linked, Shows, Context!Idle,
       Context!Active, Context!ForkIsExact
  <2>2. CASE goal[at] \notin {NoGoal, Context!Active.goal}
    BY <1>0, <1>3, <1>a, <1>b, <1>c, <1>d, <2>2, Reshown DEF Context!Reconcile
  <2> QED
    BY <2>1, <2>2
<1>4. CASE Context!ShowGoal
  <2>1. CASE Context!Active.goal = goal[at] /\ goal[at] = NoGoal
    <3>1. /\ op.todo = "show" /\ op' = Context!Idle
          /\ UNCHANGED <<made, lineage, goal, series, head, checkpoints, at>>
      BY <1>4, <2>1 DEF Context!ShowGoal
    <3>2. Context!ForkIsExact'
      BY <3>1 DEF SeriesInv, Context!ForkIsExact
    <3>3. SeriesTyped'
      BY <3>1 DEF SeriesInv, SeriesTyped, Context!Idle
    <3>4. Linked'
      BY <1>d, <3>1 DEF SeriesInv, Linked, Context!Idle
    <3>5. Shows'
      BY <2>1, <3>1 DEF Shows, Context!Active
    <3> QED
      BY <3>2, <3>3, <3>4, <3>5 DEF SeriesInv
  <2>2. CASE ~ (Context!Active.goal = goal[at] /\ goal[at] = NoGoal)
    BY <1>0, <1>4, <1>a, <1>b, <1>c, <1>d, <2>2, Reshown DEF Context!ShowGoal
  <2> QED
    BY <2>1, <2>2
<1>5. ASSUME NEW g \in Goal, Context!SetGoal(g) PROVE SeriesInv'
  BY <1>5, <1>b, <1>d DEF Context!SetGoal, Context!Command, SeriesInv, SeriesTyped, Linked, Shows,
     Context!Owes, Context!ForkIsExact
<1>6. CASE Context!ClearGoal
  BY <1>6, <1>b, <1>d DEF Context!ClearGoal, Context!Command, SeriesInv, SeriesTyped, Linked,
     Shows, Context!Owes, Context!ForkIsExact
<1>e. op = Context!Idle => /\ head[at] # 0 /\ at \in made /\ op.todo = "nothing"
                           /\ ~returned => goal[at] \in {NoGoal, Context!Active.goal}
  BY <1>d DEF SeriesInv, Shows, Context!Idle
<1>7. ASSUME NEW n \in Note, Context!AppendItem(n) PROVE SeriesInv'
  <2>1. /\ op = Context!Idle /\ op' = op /\ returned' = returned
        /\ Context!Transition(at, 0, Context!Active.goal, Context!Active.notes \cup {n})
        /\ UNCHANGED <<made, lineage, goal, checkpoints, at>>
    BY <1>7 DEF Context!AppendItem, Context!Command
  <2>2. Context!Active.notes \cup {n} \in SUBSET Note
    BY <1>c, <1>e, <2>1
  <2> QED
    BY <1>0, <1>c, <1>e, <2>1, <2>2, Reshown
<1>8. CASE Context!Reset
  <2>1. /\ op.todo = "reset" /\ op' = Context!Idle /\ returned' = returned
        /\ Context!Transition(at, 0, Context!Active.goal, Context!Active.notes \cap Pinned)
        /\ UNCHANGED <<made, lineage, goal, checkpoints, at>>
    BY <1>8 DEF Context!Reset
  <2>2. Context!Active.notes \cap Pinned \in SUBSET Note /\ head[at] # 0
    BY <1>c, <1>d, <2>1
  <2>3. ~returned => goal[at] \in {NoGoal, Context!Active.goal}
    BY <2>1 DEF SeriesInv, Shows
  <2> QED
    BY <1>0, <1>c, <2>1, <2>2, <2>3, Reshown
<1>9. ASSUME NEW N \in SUBSET Note, Context!Compact(N) PROVE SeriesInv'
  <2>1. /\ op.todo = "compact" /\ op' = Context!Idle /\ returned' = returned
        /\ Context!Transition(at, 0, Context!Active.goal, Context!Active.notes \ N)
        /\ UNCHANGED <<made, lineage, goal, checkpoints, at>>
    BY <1>9 DEF Context!Compact
  <2>2. Context!Active.notes \ N \in SUBSET Note /\ head[at] # 0
    BY <1>c, <1>d, <2>1
  <2>3. ~returned => goal[at] \in {NoGoal, Context!Active.goal}
    BY <2>1 DEF SeriesInv, Shows
  <2> QED
    BY <1>0, <1>c, <2>1, <2>2, <2>3, Reshown
<1>10. CASE Context!CompactNot
  BY <1>10 DEF Context!CompactNot, Context!durable, SeriesInv, SeriesTyped, Linked, Shows,
     Context!Idle, Context!Active, Context!ForkIsExact
<1>11. ASSUME Context!SaveCheckpoint, op = Context!Idle,
              UNCHANGED <<made, lineage, goal, series, head, at, returned>>,
              op' \in {op, Context!Owes("reset", 0), Context!Owes("compact", 0)}
       PROVE  SeriesInv'
  <2> DEFINE e == [session |-> at, series |-> head[at], goal |-> goal[at]]
             C == [session : Session, series : Nat, goal : Goal \cup {NoGoal}]
  <2>1. /\ checkpoints \in Seq(C) /\ e \in C /\ checkpoints' = Append(checkpoints, e)
        /\ e.series \in 1..Len(series)
    BY <1>11, <1>a, <1>b, <1>e DEF SeriesInv, SeriesTyped, Context!SaveCheckpoint
  <2> HIDE DEF e, C
  <2>2. /\ checkpoints' \in Seq(C) /\ Len(checkpoints') = Len(checkpoints) + 1
        /\ checkpoints'[Len(checkpoints) + 1] = e
        /\ \A c \in 1..Len(checkpoints) : checkpoints'[c] = checkpoints[c]
    BY <2>1
  <2>3. Context!ForkIsExact'
    <3>1. \A s \in Session : lineage[s] # 0 => checkpoints'[lineage[s]] = checkpoints[lineage[s]]
      BY <1>a, <2>2
    <3>2. Context!ForkIsExact
      BY DEF SeriesInv
    <3> QED
      BY <1>11, <3>1, <3>2 DEF Context!ForkIsExact
  <2>4. \A c \in 1..Len(checkpoints') : checkpoints'[c].series \in 1..Len(series)
    BY SMTT(30), <1>a, <2>1, <2>2
  <2>5. SeriesTyped'
    <3>1. checkpoints' \in Seq([session : Session, series : Nat, goal : Goal \cup {NoGoal}])
      BY <2>2 DEF C
    <3>2. op \in [todo : {"nothing", "open", "ensure", "reconcile", "show", "reset",
                         "compact", "fork"}, from : Nat]
      BY DEF SeriesInv, SeriesTyped
    <3>3. op' \in [todo : {"nothing", "open", "ensure", "reconcile", "show", "reset",
                          "compact", "fork"}, from : Nat]
      BY <1>11, <3>2 DEF Context!Owes
    <3> QED
      BY <1>11, <3>1, <3>3 DEF SeriesInv, SeriesTyped
  <2>6. Linked'
    <3>1. \A s \in Session : lineage[s] <= Len(checkpoints')
      BY <1>a, <2>2
    <3> QED
      BY <1>11, <1>e, <2>4, <3>1 DEF SeriesInv, Linked, Context!Owes, Context!Idle
  <2>7. Shows'
    BY <1>11, <1>e DEF Shows, Context!Active
  <2> QED
    BY <2>3, <2>5, <2>6, <2>7 DEF SeriesInv
<1>12. CASE Context!CreateCheckpoint
  BY <1>11, <1>12 DEF Context!CreateCheckpoint, Context!Command
<1>13. ASSUME NEW kind \in {"reset", "compact"}, Context!BeginReduction(kind)
       PROVE  SeriesInv'
  BY <1>11, <1>13 DEF Context!BeginReduction, Context!Command
<1>14. ASSUME NEW c \in DOMAIN checkpoints, Context!Rollback(c) PROVE SeriesInv'
  <2> DEFINE source == series[checkpoints[c].series]
  <2>1. /\ op = Context!Idle /\ op' = op /\ returned'
        /\ Context!Transition(at, c, source.goal, source.notes)
        /\ UNCHANGED <<made, lineage, goal, checkpoints, at>>
    BY <1>14 DEF Context!Rollback, Context!Command
  <2>2. c \in 0..Len(checkpoints) /\ source.goal \in Goal \cup {NoGoal}
        /\ source.notes \in SUBSET Note
    BY <1>a
  <2> QED
    BY <1>e, <2>1, <2>2, Reshown
<1>15. ASSUME NEW c \in DOMAIN checkpoints, NEW child \in Session, Context!Fork(c, child)
       PROVE  SeriesInv'
  <2>1. /\ op = Context!Idle /\ child \notin made /\ head[child] = 0
        /\ made' = made \cup {child} /\ lineage' = [lineage EXCEPT ![child] = c]
        /\ goal' = [goal EXCEPT ![child] = checkpoints[c].goal]
        /\ op' = [todo |-> "fork", from |-> c]
        /\ UNCHANGED <<series, head, checkpoints, at, returned>>
    BY <1>15 DEF Context!Fork, Context!Command
  <2>2. c \in 1..Len(checkpoints) /\ checkpoints[c].goal \in Goal \cup {NoGoal}
        /\ child # at /\ head[at] # 0 /\ at \in made
        /\ (~returned => goal[at] \in {NoGoal, Context!Active.goal})
    BY <1>a, <1>e, <2>1
  <2>3. SeriesTyped'
    <3>1. c \in Nat /\ Len(checkpoints) \in Nat
      BY <1>a
    <3>2. op' \in [todo : {"nothing", "open", "ensure", "reconcile", "show", "reset",
                          "compact", "fork"}, from : Nat]
      BY <2>1, <3>1
    <3>3. lineage' \in [Session -> Nat] /\ made' \subseteq Session
      BY <2>1, <3>1 DEF SeriesInv, SeriesTyped
    <3>4. goal' \in [Session -> Goal \cup {NoGoal}]
      BY <2>1, <2>2 DEF SeriesInv, SeriesTyped
    <3> QED
      BY <2>1, <3>2, <3>3, <3>4 DEF SeriesInv, SeriesTyped
  <2>4. Linked'
    <3>1. c \in Nat /\ Len(checkpoints) \in Nat /\ c # 0 /\ c <= Len(checkpoints)
      BY <1>a, <2>2
    <3>2. op'.todo = "fork" /\ op'.from = c
      BY <2>1
    <3>3. ASSUME NEW s \in Session
          PROVE  lineage'[s] <= Len(checkpoints)
      <4>1. CASE s = child
        BY <2>1, <3>1, <4>1 DEF SeriesInv, SeriesTyped
      <4>2. CASE s # child
        BY <2>1, <4>2 DEF SeriesInv, SeriesTyped, Linked
      <4> QED
        BY <4>1, <4>2
    <3>4. at' \in made' /\ head'[at'] # 0
      BY <2>1, <2>2
    <3> QED
      BY <2>1, <3>1, <3>2, <3>3, <3>4 DEF SeriesInv, Linked
  <2>5. Shows'
    BY <1>b, <2>1, <2>2 DEF Shows, Context!Active
  <2>6. Context!ForkIsExact'
    <3>1. \A s \in Session : s # child => lineage'[s] = lineage[s]
      BY <2>1 DEF SeriesInv, SeriesTyped
    <3>2. Context!ForkIsExact
      BY DEF SeriesInv
    <3> SUFFICES ASSUME NEW s \in Session, lineage'[s] # 0, head[s] # 0
                 PROVE  \E i \in DOMAIN series :
                          LET source == series[checkpoints[lineage'[s]].series] IN
                          /\ series[i].session = s
                          /\ series[i].parent = checkpoints[lineage'[s]].series
                          /\ series[i].from = lineage'[s]
                          /\ series[i].notes = source.notes
                          /\ series[i].goal = source.goal
      BY <2>1 DEF Context!ForkIsExact
    <3>3. lineage'[s] = lineage[s]
      BY <2>1, <3>1
    <3> QED
      BY <3>2, <3>3 DEF Context!ForkIsExact
  <2> QED
    BY <2>3, <2>4, <2>5, <2>6 DEF SeriesInv
<1>16. ASSUME NEW child \in Session, Context!ForkContext(child) PROVE SeriesInv'
  <2> DEFINE c == op.from  source == series[checkpoints[c].series]
  <2>1. /\ op.todo = "fork" /\ lineage[child] = c /\ head[child] = 0
        /\ Context!Transition(child, c, source.goal, source.notes)
        /\ op' = Context!Idle
        /\ UNCHANGED <<made, lineage, goal, checkpoints, at, returned>>
    BY <1>16 DEF Context!ForkContext
  <2>2. c \in 1..Len(checkpoints) /\ c \in 0..Len(checkpoints)
        /\ source.goal \in Goal \cup {NoGoal} /\ source.notes \in SUBSET Note
    BY <1>a, <2>1 DEF SeriesInv, Linked
  <2>3. /\ series' \in Seq(ASeries) /\ Len(series') = Len(series) + 1
        /\ \A i \in 1..Len(series) : series'[i] = series[i]
        /\ head' = [head EXCEPT ![child] = Len(series')]
        /\ head' \in [Session -> Nat]
        /\ \A r \in Session : head'[r] <= Len(series')
        /\ \A k \in 1..Len(checkpoints) : checkpoints[k].series \in 1..Len(series')
        /\ Context!ForkIsExact'
    <3> HIDE DEF source
    <3>1. lineage[child] # 0 /\ head[child] = 0 =>
           /\ c = lineage[child]
           /\ source.notes = series[checkpoints[c].series].notes
           /\ source.goal = series[checkpoints[c].series].goal
      BY <2>1 DEF source
    <3> HIDE DEF c
    <3> QED
      BY <2>1, <2>2, <3>1, TransitionIs
  <2>4. head[at] # 0 /\ at \in made /\ child # at /\ head'[at] = head[at]
    BY <1>b, <1>d, <2>1, <2>3 DEF SeriesInv, SeriesTyped
  <2>5. SeriesTyped'
    BY <2>1, <2>3 DEF SeriesInv, SeriesTyped, ASeries, Context!Idle
  <2>6. Linked'
    BY <2>1, <2>3, <2>4 DEF SeriesInv, Linked, Context!Idle
  <2>7. Shows'
    <3>1. head[at] \in 1..Len(series)
      BY <1>a, <1>b, <2>4
    <3>2. Context!Active' = Context!Active
      BY <2>1, <2>3, <2>4, <3>1 DEF Context!Active
    <3> QED
      BY <2>1, <3>2 DEF Shows, SeriesInv
  <2> QED
    BY <2>3, <2>5, <2>6, <2>7 DEF SeriesInv
<1>17. ASSUME NEW s \in Session, Context!SwitchSession(s) \/ Context!Crash(s)
       PROVE  SeriesInv'
  <2>1. /\ at' \in Session /\ op' = Context!Owes("open", 0)
        /\ UNCHANGED <<made, lineage, goal, series, head, checkpoints>>
    BY <1>17 DEF Context!SwitchSession, Context!Crash, Context!durable
  <2>2. Context!ForkIsExact'
    BY <2>1 DEF SeriesInv, Context!ForkIsExact
  <2>3. SeriesTyped'
    BY <2>1 DEF SeriesInv, SeriesTyped, Context!Owes
  <2>4. Linked' /\ Shows'
    BY <2>1 DEF SeriesInv, Linked, Shows, Context!Owes
  <2> QED
    BY <2>2, <2>3, <2>4 DEF SeriesInv
<1> QED
  BY <1>1, <1>2, <1>3, <1>4, <1>5, <1>6, <1>7, <1>8, <1>9, <1>10, <1>12, <1>13, <1>14,
     <1>15, <1>16, <1>17 DEF Context!Next

LEMMA SeriesShow == SeriesInv => Context!GoalShown /\ Context!ForkIsExact
BY DEF SeriesInv, Shows, Context!GoalShown, Context!Idle

-----------------------------------------------------------------------------
(* What the model is shown.                                                  *)
Sized(i) == i.cost \in 0..3

(* The items, by what their places in the window follow from.                *)
ItemFits(i) ==
  /\ i.id \in 1..minted /\ Sized(i) /\ i.order \in Int /\ -1 <= i.order /\ i.order < minted
  /\ i.kind = "talk" => 0 <= i.order
  /\ i.kind = "summary" => i.order = -1
  /\ i.kind # "summary" => i.covers = {}

ItemsFit ==
  /\ minted \in Nat /\ IsFiniteSet(items)
  /\ \A i \in items : ItemFits(i)
  /\ \A i, j \in items : i.id = j.id => i = j
  /\ \A i, j \in Shown!Talk(items) : j.id > i.id => i.order < j.order
  /\ wanted = {i.id : i \in Shown!Hard(items)}

(* Works on some items.                                                      *)
WorkOn(s) ==
  [mode : {"safe", "aggressive"}, auto : BOOLEAN, kept : SUBSET s,
   stage : {"idle", "summarize", "fit", "commit"}, asked : Nat, needs : Nat,
   history : Nat, refs : Nat, cost : 0..3]

(* What is required is never given to a summary.                             *)
ReductionFits ==
  /\ reduction \in WorkOn(items)
  /\ reduction.stage # "idle" => Shown!Hard(items) \subseteq reduction.kept

Told(m, s) == \E i \in s : (i.id = m /\ i.kind = "talk") \/ m \in i.covers

WindowInv ==
  /\ ItemsFit /\ ReductionFits /\ \A m \in said : Told(m, items)
  /\ Shown!AutoIsHarmless /\ Shown!RequirementsOutlastHistory

LEMMA WindowStay == UNCHANGED windowVars => (WindowInv => WindowInv')
BY DEF windowVars, WindowInv, ItemsFit, ItemFits, Sized, ReductionFits, Told,
   Shown!AutoIsHarmless, Shown!RequirementsOutlastHistory, Shown!Talk, Shown!Hard

(* Nothing is being compacted.                                               *)
LEMMA AtRest ==
  /\ reduction = Shown!Idle => ReductionFits /\ Shown!RequirementsOutlastHistory
  /\ \A s : Shown!Idle \in WorkOn(s)
<1>1. \A s : Shown!Idle \in WorkOn(s)
  <2>1. \A s : Shown!Started("safe", FALSE, {}) \in WorkOn(s)
    BY DEF Shown!Started, WorkOn
  <2>2. \A s : \A w \in WorkOn(s) : [w EXCEPT !.stage = "idle"] \in WorkOn(s)
    BY DEF WorkOn
  <2> QED
    BY <2>1, <2>2 DEF Shown!Idle
<1>2. Shown!Idle.stage = "idle" /\ Shown!Idle.needs = 0 /\ Shown!Idle.asked = 0
  BY DEF Shown!Idle, Shown!Started
<1> QED
  BY <1>1, <1>2 DEF ReductionFits, Shown!RequirementsOutlastHistory

LEMMA WindowBegin == Shown!Init => WindowInv
<1> SUFFICES ASSUME Shown!Init PROVE WindowInv
  OBVIOUS
<1>1. /\ items = {} /\ minted = 0 /\ wanted = {} /\ said = {} /\ reduction = Shown!Idle
      /\ outcome = [code |-> "none", error |-> FALSE, auto |-> FALSE]
  BY DEF Shown!Init
<1>2. ItemsFit
  BY <1>1, FS_EmptySet DEF ItemsFit, Shown!Talk, Shown!Hard
<1> QED
  BY <1>1, <1>2, AtRest DEF WindowInv, Shown!AutoIsHarmless

-----------------------------------------------------------------------------
(* Sums of tokens.                                                           *)

(* A set of numbers has a least one.                                         *)
LEMMA Least ==
  ASSUME NEW T, T \subseteq Nat, T # {}
  PROVE  \E x \in T : \A y \in T : x <= y
<1>1. PICK x \in T : \A y \in T : ~ (<<y, x>> \in OpToRel(<, Nat))
  BY NatLessThanWellFounded, WFMin, Zenon
<1>2. OpToRel(<, Nat) = {ss \in Nat \X Nat : ss[1] < ss[2]}
  BY Zenon DEF OpToRel
<1>3. \A y \in T : ~ (<<y, x>> \in {ss \in Nat \X Nat : ss[1] < ss[2]})
  BY <1>1, <1>2, Zenon
<1>4. ASSUME NEW y \in T PROVE x <= y
  <2>1. x \in Nat /\ y \in Nat
    OBVIOUS
  <2>2. ~ (<<y, x>> \in {ss \in Nat \X Nat : ss[1] < ss[2]})
    BY <1>3
  <2> QED
    BY <2>1, <2>2
<1> QED
  BY <1>4

(* And a greatest one, if it is bounded.                                     *)
LEMMA Greatest ==
  ASSUME NEW T, T \subseteq Int, T # {}, NEW b \in Int, \A x \in T : x <= b
  PROVE  \E x \in T : \A y \in T : x >= y
<1> DEFINE U == {b - x : x \in T}
<1>1. U \subseteq Nat /\ U # {}
  <2>1. \A x \in T : b - x \in Nat
    OBVIOUS
  <2> QED
    BY <2>1
<1>2. PICK u \in U : \A y \in U : u <= y
  BY <1>1, Least
<1>3. PICK x \in T : u = b - x
  OBVIOUS
<1>4. ASSUME NEW y \in T PROVE x >= y
  <2>1. u <= b - y
    BY <1>2
  <2> QED
    BY <1>3, <2>1
<1> QED
  BY <1>4

(* The tokens of some items, one by one.                                     *)
Tokens(s) == {u \in s \X (1..3) : u[2] <= u[1].cost}

LEMMA TokensFinite ==
  ASSUME NEW s, IsFiniteSet(s)
  PROVE  IsFiniteSet(Tokens(s)) /\ Cardinality(Tokens(s)) \in Nat
<1>1. IsFiniteSet(1..3)
  <2>1. 1 \in Int /\ 3 \in Int
    OBVIOUS
  <2> QED
    BY <2>1, FS_Interval
<1>2. IsFiniteSet(s \X (1..3))
  BY <1>1, FS_Product
<1>3. Tokens(s) \subseteq s \X (1..3)
  BY DEF Tokens
<1> QED
  BY <1>2, <1>3, FS_Subset, FS_CardinalityType

(* One item more has its tokens more.                                        *)
LEMMA TokensAdd ==
  ASSUME NEW s, IsFiniteSet(s), NEW i \in s, Sized(i)
  PROVE  Cardinality(Tokens(s)) = i.cost + Cardinality(Tokens(s \ {i}))
<1> DEFINE k == i.cost
           own == Tokens({i})
           rest == Tokens(s \ {i})
           f == [n \in 1..k |-> <<i, n>>]
<1>1. IsFiniteSet(rest) /\ Cardinality(rest) \in Nat
  <2>1. IsFiniteSet(s \ {i})
    BY FS_Subset
  <2> QED
    BY <2>1, TokensFinite
<1>2. k \in Nat /\ k <= 3 /\ IsFiniteSet(1..k) /\ Cardinality(1..k) = k
  <2>1. k \in Nat /\ k <= 3
    BY DEF Sized
  <2> QED
    BY <2>1, FS_Interval
<1>3. own = {<<i, n>> : n \in 1..k}
  BY <1>2 DEF Tokens
<1>4. f \in Bijection(1..k, own)
  <2>1. f \in [1..k -> own] /\ \A n \in 1..k : f[n] = <<i, n>>
    BY <1>3
  <2> QED
    BY <1>3, <2>1 DEF Bijection, Injection, Surjection, IsInjective
<1>5. IsFiniteSet(own) /\ Cardinality(own) = k
  <2> HIDE DEF own, f, k
  <2>1. f \in Surjection(1..k, own) /\ f \in Injection(1..k, own)
    BY <1>4 DEF Bijection
  <2>2. IsFiniteSet(own) /\ (Cardinality(own) = Cardinality(1..k) <=> f \in Injection(1..k, own))
    BY <1>2, <2>1, FS_Surjection
  <2> QED
    BY <1>2, <2>1, <2>2
<1>6. Tokens(s) = own \cup rest /\ own \cap rest = {}
  BY DEF Tokens
<1> HIDE DEF own, rest, k
<1>7. Cardinality({}) = 0
  BY FS_EmptySet
<1>8. Cardinality(own \cup rest) = Cardinality(own) + Cardinality(rest) - Cardinality(own \cap rest)
  BY <1>1, <1>5, FS_Union
<1>9. Cardinality(own \cap rest) = 0
  BY <1>6, <1>7
<1>10. Cardinality(Tokens(s)) = Cardinality(own) + Cardinality(rest) - 0
  BY <1>6, <1>8, <1>9
<1> QED
  BY <1>1, <1>2, <1>5, <1>10 DEF k, rest

(* The sum of the model counts them.                                         *)
LEMMA CostIsTokens ==
  ASSUME NEW all, IsFiniteSet(all), \A i \in all : Sized(i)
  PROVE  Shown!CostOf(all) = Cardinality(Tokens(all))
<1> DEFINE pick(s) == CHOOSE x \in s : TRUE
           Sum(g) == g = [s \in SUBSET all |->
                            IF s = {} THEN 0 ELSE pick(s).cost + g[s \ {pick(s)}]]
           iter == CHOOSE g : Sum(g)
           count == [s \in SUBSET all |-> Cardinality(Tokens(s))]
<1>2. Shown!CostOf(all) = iter[all]
  BY DEF Shown!CostOf, Shown!MapThenSumSet, Shown!MapThenFoldSet
<1>3. \A s \in SUBSET all : s # {} => pick(s) \in s
  OBVIOUS
<1> HIDE DEF pick
<1>4. Cardinality(Tokens({})) = 0
  <2>1. Tokens({}) = {}
    BY DEF Tokens
  <2> QED
    BY <2>1, FS_EmptySet
<1>5. ASSUME NEW s \in SUBSET all, s # {}
      PROVE  Cardinality(Tokens(s)) = pick(s).cost + Cardinality(Tokens(s \ {pick(s)}))
  <2>1. pick(s) \in s /\ Sized(pick(s)) /\ IsFiniteSet(s)
    BY <1>3, <1>5, FS_Subset
  <2> QED
    BY <2>1, TokensAdd
<1>6. Sum(count)
  BY <1>4, <1>5
<1>7. Sum(iter)
  BY <1>6
<1> HIDE DEF iter
<1>8. ASSUME NEW s \in SUBSET all PROVE iter[s] = Cardinality(Tokens(s))
  <2> DEFINE wrong == {u \in SUBSET all : iter[u] # Cardinality(Tokens(u))}
             sizes == {Cardinality(u) : u \in wrong}
  <2>1. \A u \in SUBSET all : IsFiniteSet(u) /\ Cardinality(u) \in Nat
    BY FS_Subset, FS_CardinalityType
  <2>2. SUFFICES ASSUME wrong # {} PROVE FALSE
    OBVIOUS
  <2>3. sizes \subseteq Nat /\ sizes # {}
    BY <2>1, <2>2
  <2>4. PICK n \in sizes : \A k \in sizes : n <= k
    BY <2>3, Least
  <2>5. PICK u \in wrong : Cardinality(u) = n
    BY <2>4
  <2>6. u \in SUBSET all /\ IsFiniteSet(u) /\ Cardinality(u) \in Nat
    BY <2>1, <2>5
  <2>7. u # {}
    BY <1>4, <1>7, <2>5
  <2> DEFINE x == pick(u)
  <2>8. x \in u /\ u \ {x} \in SUBSET all
    BY <1>3, <2>6, <2>7
  <2>9. Cardinality(u \ {x}) = Cardinality(u) - 1
    BY <2>6, <2>8, FS_RemoveElement
  <2>10. u \ {x} \notin wrong
    <3>1. n \in Nat /\ Cardinality(u \ {x}) = n - 1
      BY <2>5, <2>6, <2>9
    <3>2. ~ (n <= n - 1)
      BY <3>1
    <3>3. Cardinality(u \ {x}) \notin sizes
      BY <2>4, <3>1, <3>2
    <3> QED
      BY <3>3
  <2>11. iter[u \ {x}] = Cardinality(Tokens(u \ {x}))
    BY <2>8, <2>10
  <2>12. iter[u] = x.cost + iter[u \ {x}]
    BY <1>7, <2>6, <2>7
  <2>13. Cardinality(Tokens(u)) = x.cost + Cardinality(Tokens(u \ {x}))
    BY <1>5, <2>6, <2>7
  <2> QED
    BY <2>5, <2>11, <2>12, <2>13
<1>9. all \in SUBSET all
  OBVIOUS
<1> QED
  BY <1>2, <1>8, <1>9

(* Of some items a part costs its share.                                     *)
LEMMA CostOfPart ==
  ASSUME NEW s, IsFiniteSet(s), \A i \in s : Sized(i), NEW t \in SUBSET s
  PROVE  /\ Shown!CostOf(s) \in Nat /\ Shown!CostOf(t) \in Nat
         /\ Shown!CostOf(t) <= Shown!CostOf(s)
         /\ Shown!CostOf(s \ t) = Shown!CostOf(s) - Shown!CostOf(t)
<1>1. IsFiniteSet(t) /\ IsFiniteSet(s \ t)
  BY FS_Subset
<1>2. /\ Shown!CostOf(s) = Cardinality(Tokens(s)) /\ Shown!CostOf(t) = Cardinality(Tokens(t))
      /\ Shown!CostOf(s \ t) = Cardinality(Tokens(s \ t))
  BY <1>1, CostIsTokens
<1>3. /\ IsFiniteSet(Tokens(s)) /\ IsFiniteSet(Tokens(t)) /\ IsFiniteSet(Tokens(s \ t))
      /\ {Cardinality(Tokens(s)), Cardinality(Tokens(t)), Cardinality(Tokens(s \ t))}
         \subseteq Nat
  BY <1>1, TokensFinite
<1>4. Tokens(s) = Tokens(t) \cup Tokens(s \ t) /\ Tokens(t) \cap Tokens(s \ t) = {}
  BY DEF Tokens
<1>5. Cardinality(Tokens(t) \cup Tokens(s \ t))
        = Cardinality(Tokens(t)) + Cardinality(Tokens(s \ t))
          - Cardinality(Tokens(t) \cap Tokens(s \ t))
  BY <1>3, FS_Union
<1>6. Cardinality(Tokens(t) \cap Tokens(s \ t)) = 0
  BY <1>4, FS_EmptySet
<1>7. Cardinality(Tokens(s)) = Cardinality(Tokens(t)) + Cardinality(Tokens(s \ t)) - 0
  BY <1>4, <1>5, <1>6
<1> QED
  BY ONLY <1>2, <1>3, <1>7

-----------------------------------------------------------------------------
(* A step of the items.                                                      *)

(* An item e is made, and those of s are kept.                               *)
Joins(s, e) ==
  /\ s \subseteq items /\ items' = s \cup {e} /\ minted' = minted + 1
  /\ e.id = minted + 1 /\ Sized(e) /\ e.order \in Int /\ -1 <= e.order /\ e.order <= minted
  /\ e.kind = "talk" => 0 <= e.order /\ \A i \in s : i.order < e.order
  /\ e.kind = "summary" => e.order = -1
  /\ e.kind # "summary" => e.covers = {}
  /\ wanted' = {i.id : i \in Shown!Hard(s \cup {e})}

LEMMA ItemJoins ==
  ASSUME ItemsFit, NEW s, NEW e, Joins(s, e)
  PROVE  ItemsFit'
<1> USE DEF Joins
<1>1. minted' \in Nat /\ IsFiniteSet(items')
  <2>1. IsFiniteSet(s)
    BY FS_Subset DEF ItemsFit
  <2>2. IsFiniteSet(s \cup {e})
    BY <2>1, FS_AddElement
  <2> QED
    BY <2>2 DEF ItemsFit
<1>2. \A i \in s : ItemFits(i)'
  BY DEF ItemsFit, ItemFits
<1>3. ItemFits(e)'
  BY DEF ItemsFit, ItemFits
<1>4. \A i \in s : i.id # e.id /\ e.id > i.id /\ ~ (i.id > e.id)
  BY DEF ItemsFit, ItemFits
<1>5. \A i, j \in items' : i.id = j.id => i = j
  BY <1>4 DEF ItemsFit
<1>6. \A i, j \in Shown!Talk(items') : j.id > i.id => i.order < j.order
  <2> SUFFICES ASSUME NEW i \in items', NEW j \in items', i.kind = "talk", j.kind = "talk",
                      j.id > i.id
               PROVE  i.order < j.order
    BY DEF Shown!Talk
  <2>1. CASE j = e
    BY <1>4, <2>1
  <2>2. CASE j # e
    BY <1>4, <2>2 DEF ItemsFit, Shown!Talk
  <2> QED
    BY <2>1, <2>2
<1>7. \A i \in items' : ItemFits(i)'
  BY <1>2, <1>3
<1> QED
  BY <1>1, <1>5, <1>6, <1>7 DEF ItemsFit, Shown!Talk, Shown!Hard

(* The place of the next item is behind all there are.                       *)
LEMMA NextIs ==
  ASSUME ItemsFit, NEW s, s \subseteq items
  PROVE  LET n == Shown!NextOrder(s) IN
           n \in Int /\ 0 <= n /\ n <= minted /\ \A i \in s : i.order < n
<1>1. CASE s = {}
  BY <1>1 DEF Shown!NextOrder, ItemsFit
<1>2. CASE s # {}
  <2> DEFINE T == {i.order : i \in s}
  <2>0. \A i \in s : i.order \in Int /\ -1 <= i.order /\ i.order <= minted - 1
    BY DEF ItemsFit, ItemFits
  <2>1. T \subseteq Int /\ T # {} /\ minted - 1 \in Int /\ \A x \in T : x <= minted - 1
    BY <1>2, <2>0 DEF ItemsFit
  <2>2. \E x \in T : \A y \in T : x >= y
    BY <2>1, Greatest
  <2>3. Shown!Max(T) \in T /\ \A y \in T : Shown!Max(T) >= y
    BY <2>2 DEF Shown!Max
  <2>4. Shown!NextOrder(s) = Shown!Max(T) + 1
    BY <1>2 DEF Shown!NextOrder
  <2>5. PICK x : x = Shown!Max(T)
    OBVIOUS
  <2>6. x \in Int /\ -1 <= x /\ x <= minted - 1 /\ \A i \in s : i.order <= x
    BY <2>0, <2>3, <2>5
  <2>7. Shown!NextOrder(s) = x + 1
    BY <2>4, <2>5
  <2>8. minted \in Nat /\ \A i \in s : i.order \in Int
    BY <2>0 DEF ItemsFit
  <2> QED
    BY <2>6, <2>7, <2>8
<1> QED
  BY <1>1, <1>2

(* What the user and the assistant say, pin, and set: e joins those of s.    *)
Grows(s, kind, cost, text, e) ==
  /\ reduction = Shown!Idle /\ UNCHANGED <<reduction, outcome>>
  /\ s \subseteq items /\ \A i \in items \ s : i.kind \notin {"talk", "summary"}
  /\ kind \in {"talk", "pin", "task"} /\ cost \in 0..3
  /\ e = Shown!NewItem(s, kind, cost, text)
  /\ items' = s \cup {e} /\ minted' = minted + 1
  /\ wanted' = {i.id : i \in Shown!Hard(s \cup {e})}
  /\ said' = IF kind = "talk" THEN said \cup {minted + 1} ELSE said

LEMMA ItemsGrow ==
  ASSUME WindowInv, NEW s, NEW kind, NEW cost, NEW text, NEW e, Grows(s, kind, cost, text, e)
  PROVE  WindowInv'
<1> USE DEF Grows
<1>0. ItemsFit
  BY DEF WindowInv
<1>2. /\ e.id = minted + 1 /\ e.kind = kind /\ e.cost = cost /\ e.covers = {}
      /\ e.order = Shown!NextOrder(s)
  BY DEF Shown!NewItem
<1>3. Joins(s, e)
  BY <1>0, <1>2, NextIs DEF Joins, Sized
<1>4. ItemsFit'
  BY <1>0, <1>3, ItemJoins
<1>5. \A m \in said' : Told(m, items')
  <2> SUFFICES ASSUME NEW m \in said' PROVE Told(m, items')
    OBVIOUS
  <2>1. CASE m \in said
    <3>1. PICK i \in items : (i.id = m /\ i.kind = "talk") \/ m \in i.covers
      BY <2>1 DEF WindowInv, Told
    <3>2. i \in s
      BY <1>0, <3>1 DEF ItemsFit, ItemFits
    <3> QED
      BY <3>1, <3>2 DEF Told
  <2>2. CASE m \notin said
    BY <1>2, <2>2 DEF Told
  <2> QED
    BY <2>1, <2>2
<1>6. ReductionFits' /\ Shown!RequirementsOutlastHistory'
  <2>1. reduction' = Shown!Idle
    OBVIOUS
  <2>2. reduction' \in WorkOn(items') /\ reduction'.stage = "idle"
    BY <2>1, AtRest DEF Shown!Idle, Shown!Started
  <2> QED
    BY <2>2 DEF WindowInv, ReductionFits, Shown!RequirementsOutlastHistory
<1>7. Shown!AutoIsHarmless'
  BY DEF WindowInv, Shown!AutoIsHarmless
<1> QED
  BY <1>4, <1>5, <1>6, <1>7 DEF WindowInv

LEMMA WindowWrites ==
  ASSUME InstanceAssumption, WindowInv,
         \/ \E t \in {short, long} : Shown!Say(t)
         \/ \E c \in {2} : Shown!Pin(c)
         \/ \E x \in {"task"}, c \in {2} : Shown!Replace(x, c)
  PROVE  WindowInv'
<1>0. ItemsFit
  BY DEF WindowInv
<1>1. \A e : e.kind = "talk" => Shown!Hard(items \cup {e}) = Shown!Hard(items)
  BY DEF Shown!Hard
<1>3. \A s, kind, cost, text :
        LET e == Shown!NewItem(s, kind, cost, text) IN e.kind = kind /\ e.id = minted + 1
  BY DEF Shown!NewItem
<1>4. ASSUME NEW t \in {short, long}, Shown!Say(t) PROVE WindowInv'
  <2>1. PICK cost \in 0..3 :
          /\ items' = items \cup {Shown!NewItem(items, "talk", cost, t)}
          /\ reduction = Shown!Idle /\ minted' = minted + 1
          /\ said' = said \cup {minted + 1} /\ UNCHANGED <<wanted, reduction, outcome>>
    BY <1>4 DEF Shown!Say, Shown!CanAdd
  <2>2. PICK kind, s, e :
          kind = "talk" /\ s = items /\ e = Shown!NewItem(s, kind, cost, t)
    OBVIOUS
  <2>3. wanted' = {i.id : i \in Shown!Hard(s \cup {e})}
    BY <1>0, <1>1, <1>3, <2>1, <2>2 DEF ItemsFit
  <2>4. Grows(s, kind, cost, t, e)
    BY <2>1, <2>2, <2>3 DEF Grows
  <2> QED
    BY ONLY WindowInv, <2>4, ItemsGrow
<1>5. ASSUME Shown!Pin(2) PROVE WindowInv'
  <2>1. /\ items' = items \cup {Shown!NewItem(items, "pin", 2, "unique")}
        /\ reduction = Shown!Idle /\ minted' = minted + 1
        /\ wanted' = wanted \cup {minted + 1} /\ UNCHANGED <<said, reduction, outcome>>
    BY <1>5 DEF Shown!Pin, Shown!CanAdd
  <2>2. PICK kind, s, cost, text, e :
          /\ kind = "pin" /\ s = items /\ cost = 2 /\ text = "unique"
          /\ e = Shown!NewItem(s, kind, cost, text)
    OBVIOUS
  <2>a. e.kind = "pin" /\ e.id = minted + 1
    BY <2>2 DEF Shown!NewItem
  <2>b. items' = s \cup {e}
    BY <2>1, <2>2
  <2>c. Shown!Hard(s \cup {e}) = Shown!Hard(items) \cup {e}
    BY <2>2, <2>a DEF Shown!Hard
  <2>3. wanted' = {i.id : i \in Shown!Hard(s \cup {e})}
    BY <1>0, <2>1, <2>a, <2>c DEF ItemsFit
  <2>4. Grows(s, kind, cost, text, e)
    <3>1. cost \in 0..3 /\ kind \in {"talk", "pin", "task"} /\ kind # "talk" /\ items \ s = {}
      BY <2>2
    <3> QED
      BY <2>1, <2>2, <2>3, <2>b, <3>1 DEF Grows
  <2> QED
    BY ONLY WindowInv, <2>4, ItemsGrow
<1>6. ASSUME Shown!Replace("task", 2) PROVE WindowInv'
  <2>1. PICK kind, s, cost, text, e :
          /\ kind = "task" /\ s = Shown!Others("task") /\ cost = 2 /\ text = "unique"
          /\ e = Shown!NewItem(s, kind, cost, text)
    OBVIOUS
  <2>2. /\ items' = s \cup {e}
        /\ reduction = Shown!Idle /\ minted' = minted + 1
        /\ wanted' = (wanted \ Shown!In("task")) \cup {minted + 1}
        /\ UNCHANGED <<said, reduction, outcome>>
    BY <1>6, <2>1 DEF Shown!Replace, Shown!CanAdd
  <2>3. s \subseteq items /\ \A i \in items \ s : i.kind \notin {"talk", "summary"}
    BY <2>1 DEF Shown!Others
  <2>4. wanted \ Shown!In("task") = {i.id : i \in Shown!Hard(s)}
    BY <1>0, <2>1 DEF ItemsFit, Shown!In, Shown!Others, Shown!Hard
  <2>a. e.kind = "task" /\ e.id = minted + 1
    BY <2>1 DEF Shown!NewItem
  <2>c. Shown!Hard(s \cup {e}) = Shown!Hard(s) \cup {e}
    BY <2>a DEF Shown!Hard
  <2>5. wanted' = {i.id : i \in Shown!Hard(s \cup {e})}
    BY <2>2, <2>4, <2>a, <2>c
  <2>6. Grows(s, kind, cost, text, e)
    <3>1. cost \in 0..3 /\ kind \in {"talk", "pin", "task"} /\ kind # "talk"
      BY <2>1
    <3> QED
      BY <2>1, <2>2, <2>3, <2>5, <3>1 DEF Grows
  <2> QED
    BY ONLY WindowInv, <2>6, ItemsGrow
<1> QED
  BY <1>4, <1>5, <1>6

LEMMA WindowClears ==
  ASSUME WindowInv, Shown!Clear("task") PROVE WindowInv'
<1>0. ItemsFit
  BY DEF WindowInv
<1>1. PICK s : s = Shown!Others("task")
  OBVIOUS
<1>2. /\ reduction = Shown!Idle /\ items' = s /\ wanted' = wanted \ Shown!In("task")
      /\ UNCHANGED <<minted, said, reduction, outcome>>
  BY <1>1 DEF Shown!Clear
<1>3. s \subseteq items /\ \A i \in items \ s : i.kind = "task"
  BY <1>1 DEF Shown!Others
<1>4. wanted \ Shown!In("task") = {i.id : i \in Shown!Hard(s)}
  BY <1>0, <1>1 DEF ItemsFit, Shown!In, Shown!Others, Shown!Hard
<1>5. ItemsFit'
  <2>1. IsFiniteSet(s)
    BY <1>0, <1>3, FS_Subset DEF ItemsFit
  <2> QED
    BY <1>0, <1>2, <1>3, <1>4, <2>1 DEF ItemsFit, ItemFits, Shown!Talk, Shown!Hard
<1>6. \A m \in said' : Told(m, items')
  <2> SUFFICES ASSUME NEW m \in said PROVE Told(m, s)
    BY <1>2
  <2>1. PICK i \in items : (i.id = m /\ i.kind = "talk") \/ m \in i.covers
    BY DEF WindowInv, Told
  <2>2. i \in s
    BY <1>0, <1>3, <2>1 DEF ItemsFit, ItemFits
  <2> QED
    BY <2>1, <2>2 DEF Told
<1>7. ReductionFits' /\ Shown!RequirementsOutlastHistory'
  <2>1. reduction' \in WorkOn(items') /\ reduction'.stage = "idle"
    BY <1>2, AtRest DEF Shown!Idle, Shown!Started
  <2> QED
    BY <1>2, <2>1 DEF WindowInv, ReductionFits, Shown!RequirementsOutlastHistory
<1> QED
  BY <1>2, <1>5, <1>6, <1>7 DEF WindowInv, Shown!AutoIsHarmless

(* However a compaction ends.                                                *)
LEMMA EndIsHarmless ==
  ASSUME NEW code \in {"done", "required-context-exceeds-budget", "no-safe-items-to-compact",
                       "summary-budget-exceeded", "compaction-not-beneficial"},
         NEW auto \in BOOLEAN, Shown!Ends(code, auto)
  PROVE  Shown!AutoIsHarmless'
BY DEF Shown!Ends, Shown!Ignored, Shown!AutoIsHarmless

(* Steps of a compaction that leave the items alone.                         *)
LEMMA WindowWorks ==
  ASSUME WindowInv, UNCHANGED <<items, minted, wanted, said>>,
         reduction' \in WorkOn(items),
         reduction'.stage # "idle" => Shown!Hard(items) \subseteq reduction'.kept,
         Shown!AutoIsHarmless', Shown!RequirementsOutlastHistory'
  PROVE  WindowInv'
BY DEF WindowInv, ItemsFit, ItemFits, Sized, ReductionFits, Told, Shown!Talk, Shown!Hard

LEMMA WindowBegins ==
  ASSUME WindowInv,
         \/ \E mode \in {"safe", "aggressive"}, auto \in BOOLEAN : Shown!Begin(mode, auto)
         \/ Shown!Auto
  PROVE  WindowInv'
<1>1. ASSUME NEW mode \in {"safe", "aggressive"}, NEW auto \in BOOLEAN, Shown!Begin(mode, auto)
      PROVE  WindowInv'
  <2>1. PICK anchors \in Shown!AnchorChoice(mode) :
          IF Shown!Kept(mode, anchors) = items
          THEN Shown!Ends("no-safe-items-to-compact", auto) /\ UNCHANGED reduction
          ELSE /\ reduction' = Shown!Started(mode, auto, Shown!Kept(mode, anchors))
               /\ UNCHANGED outcome
    BY <1>1 DEF Shown!Begin
  <2>2. UNCHANGED <<items, minted, wanted, said>>
    BY <1>1 DEF Shown!Begin
  <2>3. CASE Shown!Kept(mode, anchors) = items
    <3>1. Shown!AutoIsHarmless'
      BY <2>1, <2>3, EndIsHarmless
    <3> QED
      BY <2>1, <2>2, <2>3, <3>1, WindowWorks
         DEF WindowInv, ReductionFits, Shown!RequirementsOutlastHistory
  <2>4. CASE Shown!Kept(mode, anchors) # items
    <3>1. PICK stay : stay = Shown!Kept(mode, anchors)
      OBVIOUS
    <3>2. stay \subseteq items /\ Shown!Hard(items) \subseteq stay
      BY <3>1 DEF Shown!Kept, Shown!AnchorChoice, Shown!Latest, Shown!Hard
    <3>3. reduction' = Shown!Started(mode, auto, stay) /\ outcome' = outcome
      BY <2>1, <2>4, <3>1
    <3>4. /\ reduction' \in WorkOn(items) /\ reduction'.kept = stay
          /\ reduction'.needs = 0 /\ reduction'.asked = 0
      BY <3>2, <3>3 DEF Shown!Started, WorkOn
    <3> QED
      BY <2>2, <3>2, <3>3, <3>4, WindowWorks
         DEF WindowInv, Shown!AutoIsHarmless, Shown!RequirementsOutlastHistory
  <2> QED
    BY <2>3, <2>4
<1>2. CASE Shown!Auto /\ ~Shown!Begin("safe", TRUE)
  <2>1. /\ Shown!Ends("required-context-exceeds-budget", TRUE)
        /\ UNCHANGED <<items, minted, wanted, said, reduction>>
    BY <1>2 DEF Shown!Auto
  <2>2. Shown!AutoIsHarmless'
    BY <2>1, EndIsHarmless
  <2> QED
    BY <2>1, <2>2, WindowWorks DEF WindowInv, ReductionFits, Shown!RequirementsOutlastHistory
<1> QED
  BY <1>1, <1>2

(* A summary is written, by the model or without it.                         *)
LEMMA WindowSummarizes ==
  ASSUME WindowInv, Shown!ModelSummary \/ Shown!ExtractiveSummary
  PROVE  WindowInv'
<1>1. reduction \in WorkOn(items) /\ reduction.stage = "summarize"
  BY DEF WindowInv, ReductionFits, Shown!ModelSummary, Shown!ExtractiveSummary
<1>2. UNCHANGED <<items, minted, wanted, said, outcome>>
  BY DEF Shown!ModelSummary, Shown!ExtractiveSummary
<1>3. \E n, h, r \in Nat : Shown!Facts(n, h, r)
  <2>1. CASE Shown!ModelSummary
    BY <2>1 DEF Shown!ModelSummary
  <2>2. CASE Shown!ExtractiveSummary
    <3>1. Shown!Cardinality(items \ reduction.kept) = Cardinality(items \ reduction.kept)
      BY DEF Shown!Cardinality, Cardinality
    <3>2. Cardinality(items \ reduction.kept) \in Nat
      BY FS_Subset, FS_CardinalityType DEF WindowInv, ItemsFit
    <3> QED
      BY <2>2, <3>1, <3>2 DEF Shown!ExtractiveSummary, Shown!Sources
  <2> QED
    BY <2>1, <2>2
<1>4. PICK n \in Nat, h \in Nat, r \in Nat :
        reduction' = [reduction EXCEPT !.stage = "fit", !.asked = n, !.needs = n,
                                       !.history = h, !.refs = r]
  BY <1>3 DEF Shown!Facts
<1>5. /\ reduction' \in WorkOn(items) /\ reduction'.kept = reduction.kept
      /\ reduction'.needs = n /\ reduction'.asked = n
  BY <1>1, <1>4 DEF WorkOn
<1>6. Shown!RequirementsOutlastHistory' /\ Shown!AutoIsHarmless'
  BY <1>2, <1>5 DEF WindowInv, Shown!RequirementsOutlastHistory, Shown!AutoIsHarmless
<1> QED
  BY <1>1, <1>2, <1>5, <1>6, WindowWorks DEF WindowInv, ReductionFits

(* One fact less.                                                            *)
LEMMA CutIs ==
  ASSUME WindowInv
  PROVE  /\ Shown!Cut \in WorkOn(items) /\ Shown!Cut.kept = reduction.kept
         /\ Shown!Cut.stage = reduction.stage
         /\ Shown!Cut.needs < Shown!Cut.asked => Shown!Cut.history = 0 /\ Shown!Cut.needs >= 1
<1>1. reduction \in WorkOn(items)
  BY DEF WindowInv, ReductionFits
<1>2. {reduction.needs, reduction.asked, reduction.history, reduction.refs} \subseteq Nat
  BY <1>1 DEF WorkOn
<1>3. reduction.needs < reduction.asked => reduction.history = 0 /\ reduction.needs >= 1
  BY DEF WindowInv, Shown!RequirementsOutlastHistory
<1>4. CASE reduction.history > 0
  <2>1. Shown!Cut = [reduction EXCEPT !.history = reduction.history - 1]
    BY <1>4 DEF Shown!Cut
  <2>2. reduction.history - 1 \in Nat
    BY <1>2, <1>4
  <2>3. /\ Shown!Cut.needs = reduction.needs /\ Shown!Cut.asked = reduction.asked
        /\ Shown!Cut.kept = reduction.kept /\ Shown!Cut.stage = reduction.stage
    BY <1>1, <2>1 DEF WorkOn
  <2>4. Shown!Cut \in WorkOn(items)
    BY <1>1, <2>1, <2>2 DEF WorkOn
  <2>5. ~ (Shown!Cut.needs < Shown!Cut.asked)
    BY <1>2, <1>3, <1>4, <2>3
  <2> QED
    BY <2>3, <2>4, <2>5
<1>5. CASE ~ (reduction.history > 0) /\ reduction.needs > 1
  <2>1. Shown!Cut = [reduction EXCEPT !.needs = reduction.needs - 1]
    BY <1>5 DEF Shown!Cut
  <2>2. reduction.needs - 1 \in Nat /\ reduction.needs - 1 >= 1 /\ reduction.history = 0
    BY <1>2, <1>5
  <2>3. /\ Shown!Cut.needs = reduction.needs - 1 /\ Shown!Cut.history = reduction.history
        /\ Shown!Cut.kept = reduction.kept /\ Shown!Cut.stage = reduction.stage
    BY <1>1, <2>1 DEF WorkOn
  <2>4. Shown!Cut \in WorkOn(items)
    BY <1>1, <2>1, <2>2 DEF WorkOn
  <2> QED
    BY <2>2, <2>3, <2>4
<1>6. CASE ~ (reduction.history > 0) /\ ~ (reduction.needs > 1) /\ reduction.refs > 1
  <2>1. Shown!Cut = [reduction EXCEPT !.refs = reduction.refs - 1]
    BY <1>6 DEF Shown!Cut
  <2>2. reduction.refs - 1 \in Nat
    BY <1>2, <1>6
  <2>3. /\ Shown!Cut.needs = reduction.needs /\ Shown!Cut.asked = reduction.asked
        /\ Shown!Cut.history = reduction.history
        /\ Shown!Cut.kept = reduction.kept /\ Shown!Cut.stage = reduction.stage
    BY <1>1, <2>1 DEF WorkOn
  <2>4. Shown!Cut \in WorkOn(items)
    BY <1>1, <2>1, <2>2 DEF WorkOn
  <2> QED
    BY <1>3, <2>3, <2>4
<1>7. CASE ~ (reduction.history > 0) /\ ~ (reduction.needs > 1) /\ ~ (reduction.refs > 1)
  BY <1>1, <1>3, <1>7 DEF Shown!Cut
<1> QED
  BY <1>4, <1>5, <1>6, <1>7

(* The tokens of a summary stay within its ceiling.                          *)
LEMMA MostIs == ASSUME WindowInv PROVE Shown!MostTokens \in 0..3
<1>1. PICK c \in Nat : c = Shown!CostOf(items)
  <2>1. IsFiniteSet(items) /\ \A i \in items : Sized(i)
    BY DEF WindowInv, ItemsFit, ItemFits
  <2> QED
    BY <2>1, CostOfPart
<1>2. c \div 4 \in Nat
  BY <1>1
<1>3. [safe |-> 3, aggressive |-> 2][reduction.mode] \in {2, 3}
  BY DEF WindowInv, ReductionFits, WorkOn
<1> QED
  BY <1>1, <1>2, <1>3 DEF Shown!MostTokens

LEMMA WindowFits == ASSUME WindowInv, Shown!Fit PROVE WindowInv'
<1>0. /\ reduction \in WorkOn(items) /\ Shown!Hard(items) \subseteq reduction.kept
      /\ reduction.stage = "fit" /\ UNCHANGED <<items, minted, wanted, said>>
  BY DEF WindowInv, ReductionFits, Shown!Fit
<1>1. ASSUME NEW c \in 0..3, UNCHANGED outcome,
             reduction' = [reduction EXCEPT !.stage = "commit", !.cost = c]
      PROVE  WindowInv'
  <2>1. /\ reduction' \in WorkOn(items) /\ reduction'.kept = reduction.kept
        /\ reduction'.needs = reduction.needs /\ reduction'.asked = reduction.asked
        /\ reduction'.history = reduction.history
    BY <1>0, <1>1 DEF WorkOn
  <2>2. Shown!RequirementsOutlastHistory' /\ Shown!AutoIsHarmless'
    BY <1>1, <2>1 DEF WindowInv, Shown!RequirementsOutlastHistory, Shown!AutoIsHarmless
  <2> QED
    BY <1>0, <2>1, <2>2, WindowWorks
<1>2. CASE /\ Shown!SummaryCost <= Shown!MostTokens /\ UNCHANGED outcome
           /\ reduction' = [reduction EXCEPT !.stage = "commit", !.cost = Shown!SummaryCost]
  <2>1. PICK c : c = Shown!SummaryCost
    OBVIOUS
  <2>2. c \in 0..3
    <3>1. c = 1 + reduction.needs + reduction.history + reduction.refs
      BY <2>1 DEF Shown!SummaryCost
    <3>2. {reduction.needs, reduction.history, reduction.refs} \subseteq Nat
      BY <1>0 DEF WorkOn
    <3>3. PICK most \in 0..3 : most = Shown!MostTokens
      BY MostIs
    <3> QED
      BY <1>2, <2>1, <3>1, <3>2, <3>3
  <2> QED
    BY <1>1, <1>2, <2>1, <2>2
<1>3. CASE reduction' = Shown!Cut /\ UNCHANGED outcome
  <2>1. Shown!RequirementsOutlastHistory' /\ Shown!AutoIsHarmless'
    BY <1>3, CutIs DEF WindowInv, Shown!RequirementsOutlastHistory, Shown!AutoIsHarmless
  <2> QED
    BY <1>0, <1>3, <2>1, CutIs, WindowWorks
<1>4. CASE /\ UNCHANGED outcome
           /\ reduction' = [reduction EXCEPT !.stage = "commit", !.cost = Shown!MostTokens]
  <2>1. PICK c \in 0..3 : c = Shown!MostTokens
    BY MostIs
  <2> QED
    BY <1>1, <1>4, <2>1
<1>5. CASE reduction' = Shown!Idle /\ Shown!Ends("summary-budget-exceeded", reduction.auto)
  <2>1. Shown!AutoIsHarmless'
    BY <1>0, <1>5, EndIsHarmless DEF WorkOn
  <2>2. reduction' \in WorkOn(items) /\ reduction'.stage = "idle"
    BY <1>5, AtRest DEF Shown!Idle, Shown!Started
  <2>3. Shown!RequirementsOutlastHistory'
    BY <1>5 DEF Shown!Idle, Shown!Started, Shown!RequirementsOutlastHistory
  <2> QED
    BY <1>0, <2>1, <2>2, <2>3, WindowWorks
<1> QED
  BY <1>2, <1>3, <1>4, <1>5 DEF Shown!Fit

LEMMA WindowCommits == ASSUME WindowInv, Shown!Commit PROVE WindowInv'
<1>0. /\ reduction \in WorkOn(items) /\ Shown!Hard(items) \subseteq reduction.kept
      /\ reduction' = Shown!Idle /\ UNCHANGED <<wanted, said>>
  BY DEF WindowInv, ReductionFits, Shown!Commit
<1>1. PICK s \in SUBSET items : s = reduction.kept
  BY <1>0 DEF WorkOn
<1>2. PICK e : e = [id |-> minted + 1, kind |-> "summary", cost |-> reduction.cost, order |-> -1,
                    text |-> "unique", covers |-> Shown!Covered(items \ s)]
  OBVIOUS
<1>3. \/ /\ items' = s \cup {e} /\ minted' = minted + 1
         /\ Shown!Ends("done", reduction.auto)
      \/ /\ Shown!Ends("compaction-not-beneficial", reduction.auto)
         /\ UNCHANGED <<items, minted>>
  BY <1>1, <1>2 DEF Shown!Commit
<1>4. Shown!AutoIsHarmless'
  <2>1. reduction.auto \in BOOLEAN
    BY <1>0 DEF WorkOn
  <2> QED
    BY <1>3, <2>1, EndIsHarmless
<1>5. \A t : reduction' \in WorkOn(t)
  BY <1>0, AtRest
<1>6. reduction'.stage = "idle" /\ Shown!RequirementsOutlastHistory'
  BY <1>0 DEF Shown!Idle, Shown!Started, Shown!RequirementsOutlastHistory
<1>7. CASE UNCHANGED <<items, minted>>
  BY <1>0, <1>4, <1>5, <1>6, <1>7, WindowWorks
<1>8. CASE items' = s \cup {e} /\ minted' = minted + 1
  <2>1. /\ e.id = minted + 1 /\ e.kind = "summary" /\ Sized(e) /\ e.order = -1
        /\ e.covers = Shown!Covered(items \ s)
    <3>1. reduction.cost \in 0..3
      BY <1>0 DEF WorkOn
    <3> QED
      BY <1>2, <3>1 DEF Sized
  <2>2. Joins(s, e)
    <3>1. Shown!Hard(s \cup {e}) = Shown!Hard(items)
      BY <1>0, <1>1, <2>1 DEF Shown!Hard
    <3>2. wanted' = {i.id : i \in Shown!Hard(s \cup {e})}
      BY <1>0, <3>1 DEF WindowInv, ItemsFit
    <3>3. minted \in Nat
      BY DEF WindowInv, ItemsFit
    <3> QED
      BY <1>8, <2>1, <3>2, <3>3 DEF Joins
  <2>3. ItemsFit'
    BY <2>2, ItemJoins DEF WindowInv
  <2>4. \A m \in said' : Told(m, items')
    <3> SUFFICES ASSUME NEW m \in said PROVE Told(m, s \cup {e})
      BY <1>0, <1>8
    <3>1. PICK i \in items : (i.id = m /\ i.kind = "talk") \/ m \in i.covers
      BY DEF WindowInv, Told
    <3>2. CASE i \in s
      BY <3>1, <3>2 DEF Told
    <3>3. CASE i \notin s
      <4>1. m \in e.covers
        BY <2>1, <3>1, <3>3 DEF Shown!Covered, Shown!Talk
      <4> QED
        BY <4>1 DEF Told
    <3> QED
      BY <3>2, <3>3
  <2>5. ReductionFits'
    BY <1>5, <1>6 DEF ReductionFits
  <2> QED
    BY <1>4, <1>6, <2>3, <2>4, <2>5 DEF WindowInv
<1> QED
  BY <1>3, <1>7, <1>8

LEMMA WindowStep == InstanceAssumption /\ Shown!Next => (WindowInv => WindowInv')
<1> SUFFICES ASSUME InstanceAssumption, Shown!Next, WindowInv PROVE WindowInv'
  OBVIOUS
<1>1. ASSUME NEW mode \in {"safe", "aggressive"}, Shown!Compact(mode) PROVE WindowInv'
  BY <1>1, WindowBegins DEF Shown!Compact
<1> QED
  BY <1>1, WindowWrites, WindowClears, WindowBegins, WindowSummarizes, WindowFits,
     WindowCommits DEF Shown!Next, Shown!Mode

-----------------------------------------------------------------------------
(* The window.                                                               *)

Before(d, i) == {j \in d \ Shown!Hard(d) : j # i /\ Shown!RemovedBefore(j, i)}

(* What may be removed goes in one order.                                    *)
LEMMA RemovalIsOrder ==
  ASSUME ItemsFit, NEW d \in SUBSET items,
         NEW i \in d \ Shown!Hard(d), NEW j \in d \ Shown!Hard(d)
  PROVE  /\ i # j => Shown!RemovedBefore(i, j) \/ Shown!RemovedBefore(j, i)
         /\ ~ (Shown!RemovedBefore(i, j) /\ Shown!RemovedBefore(j, i))
         /\ \A k \in d \ Shown!Hard(d) :
              Shown!RemovedBefore(i, j) /\ Shown!RemovedBefore(j, k)
                => Shown!RemovedBefore(i, k)
<1>1. \A k \in d \ Shown!Hard(d) : k.kind \in {"talk", "summary"} /\ k.id \in Nat
  BY DEF ItemsFit, ItemFits, Shown!Hard
<1>2. i # j => i.id # j.id
  BY DEF ItemsFit
<1> QED
  BY <1>1, <1>2 DEF Shown!RemovedBefore

(* Something goes first.                                                     *)
LEMMA FirstToGo ==
  ASSUME ItemsFit, NEW d \in SUBSET items, NEW s \in SUBSET (d \ Shown!Hard(d)), s # {}
  PROVE  \E i \in s : \A j \in s : j # i => Shown!RemovedBefore(i, j)
<1>0. \A i \in s : i.kind \in {"talk", "summary"} /\ i.id \in Nat
  BY DEF ItemsFit, ItemFits, Shown!Hard
<1>1. ASSUME NEW t \in SUBSET s, t # {}, NEW kind, \A i \in t : i.kind = kind
      PROVE  \E i \in t : \A j \in t : j # i => Shown!RemovedBefore(i, j)
  <2> DEFINE T == {i.id : i \in t}
  <2>1. T \subseteq Nat /\ T # {}
    BY <1>0, <1>1
  <2>2. PICK x \in T : \A y \in T : x <= y
    BY <2>1, Least
  <2>3. PICK i \in t : i.id = x
    OBVIOUS
  <2>4. ASSUME NEW j \in t, j # i PROVE Shown!RemovedBefore(i, j)
    <3>1. i.id <= j.id /\ i.id # j.id /\ i.id \in Nat /\ j.id \in Nat
      BY <1>0, <2>2, <2>3, <2>4 DEF ItemsFit
    <3> QED
      BY <1>1, <3>1 DEF Shown!RemovedBefore
  <2> QED
    BY <2>4
<1>2. CASE \E i \in s : i.kind = "talk"
  <2>1. PICK t : t = {i \in s : i.kind = "talk"}
    OBVIOUS
  <2>2. PICK i \in t : \A j \in t : j # i => Shown!RemovedBefore(i, j)
    BY <1>1, <1>2, <2>1
  <2>3. \A j \in s \ t : Shown!RemovedBefore(i, j)
    BY <2>1, <2>2 DEF Shown!RemovedBefore
  <2> QED
    BY <2>1, <2>2, <2>3
<1>3. CASE ~ (\E i \in s : i.kind = "talk")
  <2>1. \A i \in s : i.kind = "summary"
    BY <1>0, <1>3
  <2> QED
    BY <1>1, <2>1
<1> QED
  BY <1>2, <1>3

(* What is removed, is removed in that order.                                *)
LEMMA ExcessIsFirst ==
  ASSUME InstanceAssumption, ItemsFit, NEW d \in SUBSET items, NEW i \in d \ Shown!Hard(d),
         NEW k \in Shown!Excess(d), Shown!RemovedBefore(i, k)
  PROVE  i \in Shown!Excess(d)
<1>2. \A j : j \in Shown!Excess(d) <=>
           /\ j \in d \ Shown!Hard(d)
           /\ Shown!CostOf(d) - Shown!CostOf(Before(d, j)) > Window
  BY DEF Shown!Excess, Before
<1>3. Before(d, i) \subseteq Before(d, k)
  <2> SUFFICES ASSUME NEW j \in d \ Shown!Hard(d), j # i, Shown!RemovedBefore(j, i)
               PROVE  j # k /\ Shown!RemovedBefore(j, k)
    BY DEF Before
  <2>1. k \in d \ Shown!Hard(d)
    BY <1>2
  <2>2. Shown!RemovedBefore(j, k)
    BY <2>1, RemovalIsOrder
  <2>3. j # k
    BY <2>1, RemovalIsOrder
  <2> QED
    BY <2>2, <2>3
<1>4. IsFiniteSet(d) /\ \A j \in d : Sized(j)
  BY FS_Subset DEF ItemsFit, ItemFits
<1>5. Before(d, k) \in SUBSET d /\ IsFiniteSet(Before(d, k)) /\ \A j \in Before(d, k) : Sized(j)
  <2>1. Before(d, k) \subseteq d
    BY DEF Before
  <2> QED
    BY <1>4, <2>1, FS_Subset
<1>6. /\ Shown!CostOf(d) \in Nat /\ Shown!CostOf(Before(d, k)) \in Nat
  BY <1>4, <1>5, CostOfPart
<1>7. /\ Shown!CostOf(Before(d, i)) \in Nat
      /\ Shown!CostOf(Before(d, i)) <= Shown!CostOf(Before(d, k))
  BY <1>3, <1>5, CostOfPart
<1>8. Window \in Nat
  BY DEF InstanceAssumption
<1> QED
  BY <1>2, <1>6, <1>7, <1>8

(* What is left fits.                                                        *)
LEMMA RestFits ==
  ASSUME InstanceAssumption, ItemsFit, NEW d \in SUBSET items,
         Shown!CostOf(Shown!Hard(d)) <= Window
  PROVE  Shown!CostOf(d \ Shown!Excess(d)) <= Window
<1> DEFINE R == d \ Shown!Hard(d)
           E == Shown!Excess(d)
<1>1. E \subseteq R
  BY DEF Shown!Excess
<1>2. IsFiniteSet(d) /\ \A j \in d : Sized(j)
  BY FS_Subset DEF ItemsFit, ItemFits
<1>3. CASE E = R
  <2>1. d \ E = Shown!Hard(d)
    BY <1>3 DEF Shown!Hard
  <2> QED
    BY <2>1
<1>4. CASE E # R
  <2>1. PICK i \in R \ E : \A j \in R \ E : j # i => Shown!RemovedBefore(i, j)
    BY <1>1, <1>4, FirstToGo
  <2>2. Before(d, i) = E
    <3>1. ASSUME NEW j \in Before(d, i) PROVE j \in E
      <4>1. j \in R /\ j # i /\ Shown!RemovedBefore(j, i)
        BY DEF Before
      <4>2. ~ Shown!RemovedBefore(i, j)
        BY <4>1, RemovalIsOrder
      <4> QED
        BY <2>1, <4>1, <4>2
    <3>2. ASSUME NEW j \in E PROVE j \in Before(d, i)
      <4>1. j \in R /\ j # i
        BY <1>1
      <4>2. ~ Shown!RemovedBefore(i, j)
        BY <4>1, ExcessIsFirst
      <4>3. Shown!RemovedBefore(j, i)
        BY <4>1, <4>2, RemovalIsOrder
      <4> QED
        BY <4>1, <4>3 DEF Before
    <3> QED
      BY <3>1, <3>2
  <2>3. ~ (Shown!CostOf(d) - Shown!CostOf(Before(d, i)) > Window)
    BY DEF Shown!Excess, Before
  <2>4. /\ Shown!CostOf(d \ E) = Shown!CostOf(d) - Shown!CostOf(E)
        /\ Shown!CostOf(d) \in Nat /\ Shown!CostOf(E) \in Nat
    BY <1>1, <1>2, CostOfPart
  <2>5. Window \in Nat
    BY DEF InstanceAssumption
  <2> HIDE DEF E
  <2> QED
    BY <2>2, <2>3, <2>4, <2>5 DEF E
<1> QED
  BY <1>3, <1>4

(* Of the messages with one text the last is kept.                           *)
LEMMA LastIsKept ==
  ASSUME ItemsFit, NEW j \in Shown!Talk(items)
  PROVE  \E k \in Shown!Talk(Shown!Deduplicated(items)) : k.text = j.text /\ k.id >= j.id
<1> DEFINE T == {k.id : k \in {l \in Shown!Talk(items) : l.text = j.text}}
<1>1. \A k \in items : k.id \in Nat /\ k.id <= minted
  BY DEF ItemsFit, ItemFits
<1>2. T \subseteq Int /\ T # {} /\ minted \in Int /\ \A x \in T : x <= minted
  BY <1>1 DEF Shown!Talk, ItemsFit
<1>3. PICK x \in T : \A y \in T : x >= y
  BY <1>2, Greatest
<1>4. PICK k \in Shown!Talk(items) : k.text = j.text /\ k.id = x
  OBVIOUS
<1>5. \A l \in Shown!Talk(items) : l.text = k.text => ~ (l.id > k.id)
  BY <1>1, <1>3, <1>4 DEF Shown!Talk
<1>6. k \in Shown!Talk(Shown!Deduplicated(items))
  BY <1>5 DEF Shown!Talk, Shown!Deduplicated
<1> QED
  BY <1>3, <1>4, <1>6

LEMMA WindowShow ==
  ASSUME InstanceAssumption, WindowInv
  PROVE  /\ Shown!RequiredIsShown /\ Shown!NothingFallsOut /\ Shown!ShownIsRecent
         /\ Shown!AutoIsHarmless /\ Shown!RequirementsOutlastHistory
<1>0. ItemsFit
  BY DEF WindowInv
<1>1. Shown!RequiredIsShown
  <2> SUFFICES ASSUME NEW role, NEW i \in Shown!Hard(items)
               PROVE  i \in Shown!Compiled(role, items)
    BY <1>0 DEF ItemsFit, Shown!RequiredIsShown, Shown!WorkingContext
  <2>1. PICK d : d = Shown!Deduplicated(Shown!Allowed(role, items))
    OBVIOUS
  <2>2. i \in Shown!Hard(d)
    BY <2>1 DEF Shown!Deduplicated, Shown!Allowed, Shown!Hard
  <2>3. Shown!Compiled(role, items) = d \ Shown!Excess(d)
    BY <2>1 DEF Shown!Compiled
  <2> QED
    BY <2>2, <2>3 DEF Shown!Excess, Shown!Hard
<1>2. Shown!NothingFallsOut
  BY DEF WindowInv, Told, Shown!NothingFallsOut
<1>3. Shown!ShownIsRecent
  <2> SUFFICES ASSUME Shown!Fits(items) PROVE Shown!ShownIsRecent
    BY DEF Shown!ShownIsRecent
  <2>1. PICK d : d = Shown!Deduplicated(items)
    OBVIOUS
  <2>2. PICK shown : shown = d \ Shown!Excess(d)
    OBVIOUS
  <2>3. Shown!ContextView = shown
    BY <2>1, <2>2 DEF Shown!ContextView, Shown!Compiled, Shown!Allowed
  <2>4. d \in SUBSET items /\ Shown!Hard(d) = Shown!Hard(items)
    BY <2>1 DEF Shown!Deduplicated, Shown!Hard
  <2>5. Shown!CostOf(shown) <= Window
    BY <1>0, <2>2, <2>4, RestFits DEF Shown!Fits
  <2>6. ASSUME NEW i \in Shown!Talk(shown), NEW j \in Shown!Talk(items), j.id > i.id
        PROVE  /\ \E k \in Shown!Talk(shown) : k.text = j.text /\ k.id >= j.id
               /\ Shown!ShownBefore(i, j)
    <3>1. PICK k \in Shown!Talk(d) : k.text = j.text /\ k.id >= j.id
      BY <1>0, <2>1, LastIsKept
    <3>2. i \in d \ Shown!Hard(d) /\ i.kind = "talk" /\ i \notin Shown!Excess(d)
      BY <2>2 DEF Shown!Talk, Shown!Hard
    <3>3. Shown!RemovedBefore(i, k)
      <4>1. {i.id, j.id, k.id} \subseteq Nat /\ k.kind = "talk"
        BY <1>0, <2>4, <3>1, <3>2 DEF ItemsFit, ItemFits, Shown!Talk
      <4> QED
        BY <2>6, <3>1, <3>2, <4>1 DEF Shown!RemovedBefore
    <3>4. k \notin Shown!Excess(d)
      BY <1>0, <2>4, <3>2, <3>3, ExcessIsFirst
    <3>5. Shown!ShownBefore(i, j)
      BY <1>0, <2>4, <2>6, <3>2 DEF ItemsFit, Shown!Talk, Shown!ShownBefore
    <3> QED
      BY <2>2, <3>1, <3>4, <3>5 DEF Shown!Talk
  <2>7. ASSUME NEW i \in Shown!Talk(shown), NEW j \in items, j.kind = "summary"
        PROVE  j \in shown /\ Shown!ShownBefore(j, i)
    <3>1. i \in d \ Shown!Hard(d) /\ i.kind = "talk" /\ i \notin Shown!Excess(d)
      BY <2>2 DEF Shown!Talk, Shown!Hard
    <3>2. j \in d
      BY <2>1, <2>7 DEF Shown!Deduplicated
    <3>3. Shown!RemovedBefore(i, j)
      BY <2>7, <3>1 DEF Shown!RemovedBefore
    <3>4. j \notin Shown!Excess(d)
      BY <1>0, <2>4, <3>1, <3>3, ExcessIsFirst
    <3>5. Shown!ShownBefore(j, i)
      <4>1. i \in items
        BY <2>4, <3>1
      <4> QED
        BY <1>0, <2>7, <3>1, <4>1 DEF ItemsFit, ItemFits, Shown!ShownBefore
    <3> QED
      BY <2>2, <3>2, <3>4, <3>5
  <2> QED
    BY <2>3, <2>5, <2>6, <2>7 DEF Shown!ShownIsRecent
<1> QED
  BY <1>1, <1>2, <1>3 DEF WindowInv

-----------------------------------------------------------------------------
(* The memory and its vectors.                                               *)
AGeneration == [profile : Profile, status : {"building", "active", "dormant", "failed"}]

VectorsTyped ==
  /\ generations \in Seq(AGeneration) /\ Len(generations) <= MaxGeneration
  /\ semantic \in Memory!Semantic /\ inForce \in Nat /\ stored \subseteq Memo
  /\ configured \in Profile \cup {Absent}

(* A vector is of the provider that made its generation, the only one there  *)
(* of its item, and of a record that is kept.                                *)
VectorsFit ==
  \A v \in embedded :
    /\ v.generation \in 1..Len(generations)
    /\ v.origin = generations[v.generation].profile
    /\ v.item \in Memo => v.item \in stored
    /\ \A w \in embedded : v.generation = w.generation /\ v.item = w.item => v = w

(* One generation is active, and in force only for the provider configured.  *)
InForceFits ==
  /\ \A g, h \in 1..Len(generations) :
       generations[g].status = "active" /\ generations[h].status = "active" => g = h
  /\ inForce # 0 => /\ inForce \in 1..Len(generations)
                    /\ generations[inForce] = [profile |-> configured, status |-> "active"]
  /\ inForce # 0 => embedder # Absent
  /\ semantic \notin {"active", "degraded"} => inForce = 0
  /\ semantic = "down" => indexing = Absent /\ compared = {}
  /\ semantic = "ready" => configured # Absent

(* A call works on a generation of the provider configured; what it has not  *)
(* left to do is done.                                                       *)
CallFits ==
  indexing # Absent =>
    /\ indexing \in Memory!Call
    /\ indexing.target \in 1..Len(generations)
    /\ generations[indexing.target].profile = configured
    /\ generations[indexing.target].status \in {"building", "active"}
    /\ indexing.todo \subseteq stored
    /\ indexing.kind = "add" => indexing.target = inForce
    /\ indexing.kind # "add" =>
         /\ semantic = "ready"
         /\ \A r \in stored \ indexing.todo : Memory!Held(indexing.target, r) # {}

(* Search reaches every record but those about to be done.                   *)
Reached ==
  semantic = "active" /\ inForce # 0 =>
    \A r \in stored :
      \/ Memory!Held(inForce, r) # {}
      \/ indexing # Absent /\ r \in indexing.todo

MemoryInv ==
  VectorsTyped /\ VectorsFit /\ InForceFits /\ CallFits /\ Reached /\ Memory!AnswersCompare

LEMMA MemoryStay == UNCHANGED memoryVars => (MemoryInv => MemoryInv')
BY DEF memoryVars, MemoryInv, VectorsTyped, VectorsFit, InForceFits, CallFits, Reached,
   Memory!AnswersCompare, Memory!Held

LEMMA MemoryBegin == InstanceAssumption /\ Memory!Init => MemoryInv
BY DEF InstanceAssumption, Memory!Init, MemoryInv, VectorsTyped, VectorsFit, InForceFits,
   CallFits, Reached, Memory!AnswersCompare, Memory!Semantic

(* What the assumption says of the memory.                                   *)
LEMMA MemoryIs ==
  InstanceAssumption =>
    /\ Memo \cap (Document \cup Query) = {} /\ Document \cap Query = {}
    /\ MaxGeneration \in Nat /\ Absent \notin Memory!Call /\ Absent \notin Profile
BY DEF InstanceAssumption

(* Generations, one by one.                                                  *)
LEMMA GenerationsAre ==
  VectorsTyped => /\ Len(generations) \in Nat /\ DOMAIN generations = 1..Len(generations)
                  /\ \A g \in 1..Len(generations) : generations[g] \in AGeneration
<1> SUFFICES ASSUME VectorsTyped PROVE
      /\ Len(generations) \in Nat /\ DOMAIN generations = 1..Len(generations)
      /\ \A g \in 1..Len(generations) : generations[g] \in AGeneration
  OBVIOUS
<1>1. generations \in Seq(AGeneration)
  BY DEF VectorsTyped
<1> QED
  BY ONLY <1>1

(* Vectors of a generation, one for each of the items, in the place of those *)
(* there are.                                                                *)
Renewed(g, some, old, new) ==
  /\ g \in 1..Len(generations) /\ generations[g].profile = configured
  /\ some \cap Memo \subseteq stored /\ old \subseteq embedded /\ embedded' = old \cup new
  /\ \A v \in old : v.generation = g => v.item \notin some
  /\ \A v \in new : v.generation = g /\ v.item \in some /\ v.origin = configured
  /\ \A v, w \in new : v.item = w.item => v = w

LEMMA VectorsRenewed ==
  ASSUME VectorsFit, UNCHANGED <<generations, stored>>,
         NEW g, NEW some, NEW old, NEW new, Renewed(g, some, old, new)
  PROVE  VectorsFit'
<1> USE DEF Renewed
<1> SUFFICES ASSUME NEW v \in embedded'
             PROVE  /\ v.generation \in 1..Len(generations)
                    /\ v.origin = generations[v.generation].profile
                    /\ v.item \in Memo => v.item \in stored
                    /\ \A w \in embedded' :
                         v.generation = w.generation /\ v.item = w.item => v = w
  BY DEF VectorsFit
<1>1. CASE v \in old
  <2>1. \A w \in embedded' : v.generation = w.generation /\ v.item = w.item => w \in old
    BY <1>1
  <2> QED
    BY <1>1, <2>1 DEF VectorsFit
<1>2. CASE v \in new
  <2>1. \A w \in embedded' : v.generation = w.generation /\ v.item = w.item => w \in new
    BY <1>2
  <2> QED
    BY <1>2, <2>1
<1> QED
  BY <1>1, <1>2

(* The question has its vector now.                                          *)
LEMMA QueryEmbedded ==
  ASSUME InstanceAssumption, VectorsFit, InForceFits, inForce # 0,
         NEW q \in Query, embedded' = Memory!WithQuery(q), UNCHANGED <<generations, stored>>
  PROVE  VectorsFit' /\ embedded \subseteq embedded'
<1>1. PICK g : g = inForce
  OBVIOUS
<1>2. PICK old : old = embedded
  OBVIOUS
<1>3. g \in 1..Len(generations) /\ generations[g].profile = configured
  BY <1>1 DEF InForceFits
<1>4. CASE Memory!Held(inForce, q) # {}
  <2>1. embedded' = embedded
    BY <1>4 DEF Memory!WithQuery
  <2> QED
    BY <2>1 DEF VectorsFit
<1>5. CASE Memory!Held(inForce, q) = {}
  <2>1. PICK e : e = Memory!Entry(g, q, 0)
    OBVIOUS
  <2>2. e.generation = g /\ e.item = q /\ e.origin = configured
    BY <2>1 DEF Memory!Entry
  <2>3. embedded' = old \cup {e}
    BY <1>1, <1>2, <1>5, <2>1 DEF Memory!WithQuery
  <2>4. \A v \in old : v.generation = g => v.item \notin {q}
    BY <1>1, <1>2, <1>5 DEF Memory!Held
  <2>5. {q} \cap Memo \subseteq stored /\ old \in SUBSET embedded
    BY <1>2, MemoryIs
  <2>6. /\ \A v \in {e} : v.generation = g /\ v.item \in {q} /\ v.origin = configured
        /\ \A v, w \in {e} : v.item = w.item => v = w
    BY <2>2
  <2>7. Renewed(g, {q}, old, {e})
    BY <1>3, <2>3, <2>4, <2>5, <2>6 DEF Renewed
  <2>8. VectorsFit'
    BY <2>7, VectorsRenewed
  <2> QED
    BY <1>2, <2>3, <2>8
<1> QED
  BY <1>4, <1>5

(* The process starts, is killed, and files change.                          *)
LEMMA MemoryProcess ==
  ASSUME InstanceAssumption, MemoryInv,
         Memory!Open \/ Memory!Kill \/ \E d \in Document : Memory!Edit(d)
  PROVE  MemoryInv'
<1> USE DEF MemoryInv
<1>1. CASE Memory!Open
  <2>1. /\ semantic = "down" /\ semantic' \in {"absent", "ready", "blocked"}
        /\ configured' \in Profile \cup {Absent}
        /\ semantic' = "ready" => configured' # Absent
        /\ UNCHANGED <<stored, generations, embedded, embedder, inForce, indexing, revision,
                       compared>>
    BY <1>1, MemoryIs DEF Memory!Open
  <2>2. inForce = 0 /\ indexing = Absent
    BY <2>1 DEF InForceFits
  <2>3. VectorsTyped'
    BY <2>1 DEF VectorsTyped, Memory!Semantic
  <2>4. VectorsFit' /\ InForceFits' /\ CallFits' /\ Reached'
    BY <2>1, <2>2 DEF VectorsFit, InForceFits, CallFits, Reached
  <2> QED
    BY <2>1, <2>3, <2>4 DEF Memory!AnswersCompare
<1>2. CASE Memory!Kill
  BY <1>2 DEF Memory!Kill, VectorsTyped, VectorsFit, InForceFits, CallFits, Reached,
     Memory!AnswersCompare, Memory!Semantic
<1>3. ASSUME NEW d \in Document, Memory!Edit(d) PROVE MemoryInv'
  BY <1>3 DEF Memory!Edit, VectorsTyped, VectorsFit, InForceFits, CallFits, Reached,
     Memory!AnswersCompare, Memory!Held
<1> QED
  BY <1>1, <1>2, <1>3

(* Records come and go.                                                      *)
LEMMA MemoryRecords ==
  ASSUME InstanceAssumption, MemoryInv, NEW r \in Memo, Memory!Add(r) \/ Memory!Forget(r)
  PROVE  MemoryInv'
<1> USE DEF MemoryInv
<1>1. CASE Memory!Add(r)
  <2>1. /\ semantic # "down" /\ indexing = Absent /\ stored' = stored \cup {r}
        /\ UNCHANGED <<generations, embedded, semantic, configured, embedder, inForce,
                       revision, compared>>
    BY <1>1 DEF Memory!Add, Memory!Idle
  <2>2. \/ indexing' = Absent /\ (embedder = Absent \/ inForce = 0)
        \/ inForce # 0 /\ indexing' = [kind |-> "add", target |-> inForce, todo |-> {r}]
    BY <1>1 DEF Memory!Add
  <2>3. VectorsTyped' /\ VectorsFit' /\ Memory!AnswersCompare'
    BY <2>1 DEF VectorsTyped, VectorsFit, Memory!AnswersCompare
  <2>4. InForceFits'
    BY <2>1 DEF InForceFits
  <2>5. CallFits' /\ Reached'
    <3>1. CASE inForce # 0 /\ indexing' = [kind |-> "add", target |-> inForce, todo |-> {r}]
      <4>1. inForce \in 1..MaxGeneration
        BY <3>1, GenerationsAre, MemoryIs DEF InForceFits, VectorsTyped
      <4>2. indexing' \in Memory!Call /\ indexing' # Absent
        BY <3>1, <4>1, MemoryIs DEF Memory!Call
      <4> QED
        BY <2>1, <3>1, <4>2 DEF CallFits, Reached, InForceFits, Memory!Held
    <3>2. CASE indexing' = Absent /\ (embedder = Absent \/ inForce = 0)
      <4>1. Reached'
        <5>1. semantic = "active" /\ inForce # 0 => embedder # Absent
          BY DEF InForceFits
        <5> QED
          BY <2>1, <3>2, <5>1 DEF Reached, Memory!Held
      <4> QED
        BY <2>1, <3>2, <4>1 DEF CallFits
    <3> QED
      BY <2>2, <3>1, <3>2
  <2> QED
    BY <2>3, <2>4, <2>5
<1>2. CASE Memory!Forget(r)
  <2>1. /\ indexing = Absent /\ indexing' = Absent /\ compared' = {}
        /\ stored' = stored \ {r} /\ embedded' = {v \in embedded : v.item # r}
        /\ UNCHANGED <<generations, semantic, configured, embedder, inForce>>
    BY <1>2 DEF Memory!Forget, Memory!Idle, Memory!Without
  <2>2. VectorsTyped' /\ VectorsFit' /\ InForceFits' /\ CallFits'
    BY <2>1 DEF VectorsTyped, VectorsFit, InForceFits, CallFits
  <2>3. Reached' /\ Memory!AnswersCompare'
    BY <2>1 DEF Reached, Memory!Held, Memory!AnswersCompare
  <2> QED
    BY <2>2, <2>3
<1> QED
  BY <1>1, <1>2

(* A call begins, or cannot.                                                 *)
LEMMA MemoryActivates ==
  ASSUME InstanceAssumption, MemoryInv, NEW kind \in {"search", "rerank"},
         Memory!Activate(kind) \/ Memory!ActivationFails(kind)
  PROVE  MemoryInv'
<1> USE DEF MemoryInv
<1>0. /\ Len(generations) \in Nat /\ DOMAIN generations = 1..Len(generations)
      /\ \A g \in 1..Len(generations) : generations[g] \in AGeneration
  BY GenerationsAre
<1>1. CASE Memory!Activate(kind)
  <2>0. /\ semantic = "ready" /\ inForce = 0 /\ configured \in Profile /\ indexing = Absent
        /\ UNCHANGED <<stored, embedded, semantic, configured, embedder, inForce, revision,
                       compared>>
    BY <1>1 DEF Memory!Activate, Memory!Idle, InForceFits, VectorsTyped
  <2>1. CASE Memory!Reusable(configured) # {}
    <3> DEFINE g == Memory!Max(Memory!Reusable(configured))
    <3>1. /\ indexing' = [kind |-> kind, target |-> g, todo |-> Memory!Missing(g)]
          /\ generations' = generations
      BY <1>1, <2>1 DEF Memory!Activate
    <3>2. PICK h \in Memory!Reusable(configured) : TRUE
      BY <2>1
    <3>3. /\ h \in 1..Len(generations) /\ generations[h].status = "active"
          /\ generations[h].profile = configured
      BY <1>0, <3>2 DEF Memory!Reusable
    <3>4. Memory!Reusable(configured) = {h}
      BY <1>0, <3>2, <3>3 DEF Memory!Reusable, InForceFits
    <3>5. g = h
      BY <1>0, <3>3, <3>4 DEF Memory!Max
    <3> HIDE DEF g
    <3>6. /\ g \in 1..Len(generations) /\ generations[g].status = "active"
          /\ generations[g].profile = configured /\ g \in 1..MaxGeneration
      BY <1>0, <3>3, <3>5, MemoryIs DEF VectorsTyped
    <3>7. Memory!Missing(g) = {r \in stored : Memory!Held(g, r) = {}}
      BY DEF Memory!Missing
    <3>8. indexing' \in Memory!Call
      BY <3>1, <3>6, <3>7 DEF Memory!Call, VectorsTyped
    <3>9. CallFits'
      BY <2>0, <3>1, <3>6, <3>7, <3>8 DEF CallFits, Memory!Held
    <3> QED
      BY <2>0, <3>1, <3>9 DEF VectorsTyped, VectorsFit, InForceFits, Reached,
         Memory!AnswersCompare
  <2>2. CASE Memory!Reusable(configured) = {}
    <3> DEFINE n == Len(generations) + 1
               e == [profile |-> configured, status |-> "building"]
    <3>1. /\ Len(generations) < MaxGeneration /\ generations' = Append(generations, e)
          /\ indexing' = [kind |-> kind, target |-> n, todo |-> stored]
      BY <1>1, <2>2 DEF Memory!Activate
    <3>2. e \in AGeneration /\ e.status = "building" /\ e.profile = configured
      BY <2>0 DEF AGeneration
    <3> HIDE DEF e
    <3>3. generations \in Seq(AGeneration)
      BY DEF VectorsTyped
    <3>4. /\ generations' \in Seq(AGeneration) /\ Len(generations') = n
          /\ generations'[n] = e
          /\ \A g \in 1..Len(generations) : generations'[g] = generations[g]
      BY ONLY <1>0, <3>1, <3>2, <3>3
    <3>5. n \in 1..MaxGeneration /\ n \in 1..Len(generations')
      BY <1>0, <3>1, <3>4, MemoryIs
    <3>6. VectorsTyped'
      BY <1>0, <2>0, <3>1, <3>4, MemoryIs DEF VectorsTyped
    <3>7. VectorsFit'
      BY <1>0, <2>0, <3>4 DEF VectorsFit
    <3>8. InForceFits'
      <4>1. \A g \in 1..Len(generations') : generations'[g].status = "active" =>
              g \in 1..Len(generations) /\ generations[g].status = "active"
        BY <1>0, <3>2, <3>4
      <4> QED
        BY <2>0, <4>1 DEF InForceFits
    <3>9. indexing' \in Memory!Call
      BY <3>1, <3>5 DEF Memory!Call, VectorsTyped
    <3>10. CallFits'
      BY <2>0, <3>1, <3>2, <3>4, <3>5, <3>9 DEF CallFits
    <3> QED
      BY <2>0, <3>6, <3>7, <3>8, <3>10 DEF Reached, Memory!AnswersCompare
  <2> QED
    BY <2>1, <2>2
<1>2. CASE Memory!ActivationFails(kind)
  <2>1. /\ semantic = "ready" /\ semantic' \in {"degraded", "ready"} /\ indexing = Absent
        /\ UNCHANGED <<stored, generations, embedded, configured, embedder, inForce, indexing,
                       revision, compared>>
    BY <1>2 DEF Memory!ActivationFails, Memory!Idle
  <2> QED
    BY <2>1 DEF VectorsTyped, VectorsFit, InForceFits, CallFits, Reached,
       Memory!AnswersCompare, Memory!Semantic
<1> QED
  BY <1>1, <1>2

(* A chunk is indexed.                                                       *)
LEMMA MemoryIndexes ==
  ASSUME InstanceAssumption, MemoryInv, Memory!Index PROVE MemoryInv'
<1> USE DEF MemoryInv
<1>1. PICK some \in SUBSET indexing.todo :
        /\ embedded' = Memory!Replaced(indexing.target, some, [i \in some |-> 0])
        /\ indexing' = [indexing EXCEPT !.todo = @ \ some]
        /\ indexing # Absent
        /\ UNCHANGED <<stored, generations, semantic, configured, embedder, inForce, revision,
                       compared>>
  BY DEF Memory!Index
<1>g. PICK g : g = indexing.target
  OBVIOUS
<1>2. /\ indexing \in Memory!Call /\ g \in 1..Len(generations) /\ indexing.todo \subseteq stored
      /\ generations[g].profile = configured
  BY <1>1, <1>g DEF CallFits
<1>3. /\ indexing' \in Memory!Call /\ indexing'.target = g /\ indexing'.kind = indexing.kind
      /\ indexing'.todo = indexing.todo \ some /\ indexing' # Absent
  BY <1>1, <1>2, <1>g, MemoryIs DEF Memory!Call
<1> DEFINE hash == [i \in some |-> 0]
<1>o. PICK old : old = {v \in embedded : v.generation # g \/ v.item \notin some}
  OBVIOUS
<1>n. PICK new : new = {Memory!Entry(g, i, hash[i]) : i \in some}
  OBVIOUS
<1>4. embedded' = old \cup new
  BY <1>1, <1>g, <1>n, <1>o DEF Memory!Replaced
<1>5. /\ old \in SUBSET embedded
      /\ \A v \in old : v.generation = g => v.item \notin some
  BY <1>o
<1>e. /\ \A v \in new : v.generation = g /\ v.item \in some /\ v.origin = configured
      /\ \A v, w \in new : v.item = w.item => v = w
      /\ \A i \in some : \E v \in new : v.generation = g /\ v.item = i
  <2>1. \A i \in some : LET v == Memory!Entry(g, i, hash[i]) IN
          v.generation = g /\ v.item = i /\ v.origin = configured
    BY DEF Memory!Entry
  <2> QED
    BY <1>n, <2>1
<1>6. some \cap Memo \subseteq stored
  BY <1>1, <1>2
<1> HIDE DEF hash
<1>7. VectorsFit'
  <2>1. Renewed(g, some, old, new)
    BY <1>1, <1>2, <1>4, <1>5, <1>6, <1>e DEF Renewed
  <2> QED
    BY <1>1, <2>1, VectorsRenewed
<1>8. \A h, r : Memory!Held(h, r) # {} => (Memory!Held(h, r))' # {}
  <2> TAKE h, r
  <2> SUFFICES ASSUME NEW v \in embedded, v.generation = h, v.item = r
               PROVE  \E w \in embedded' : w.generation = h /\ w.item = r
    BY DEF Memory!Held
  <2>1. CASE v \in old
    BY <1>4, <2>1
  <2>2. CASE v \notin old
    <3>1. h = g /\ r \in some
      BY <1>o, <2>2
    <3> QED
      BY <1>4, <1>e, <3>1
  <2> QED
    BY <2>1, <2>2
<1>9. \A r \in some : (Memory!Held(g, r))' # {}
  BY <1>4, <1>e DEF Memory!Held
<1>10. VectorsTyped' /\ InForceFits' /\ Memory!AnswersCompare'
  BY <1>1 DEF VectorsTyped, InForceFits, Memory!AnswersCompare
<1>11. CallFits'
  <2>1. indexing.kind # "add" =>
           \A r \in stored \ indexing'.todo : (Memory!Held(g, r))' # {}
    <3> SUFFICES ASSUME indexing.kind # "add", NEW r \in stored \ indexing'.todo
                 PROVE  (Memory!Held(g, r))' # {}
      OBVIOUS
    <3>1. r \in some \/ r \in stored \ indexing.todo
      BY <1>3
    <3>2. r \in stored \ indexing.todo => Memory!Held(g, r) # {}
      BY <1>1, <1>g DEF CallFits
    <3> QED
      BY <1>8, <1>9, <3>1, <3>2
  <2> QED
    BY <1>1, <1>2, <1>3, <2>1 DEF CallFits
<1>12. Reached'
  <2> SUFFICES ASSUME semantic = "active", inForce # 0, NEW r \in stored
               PROVE  (Memory!Held(inForce, r))' # {} \/ r \in indexing'.todo
    BY <1>1, <1>3 DEF Reached
  <2>1. Memory!Held(inForce, r) # {} \/ r \in indexing.todo
    BY DEF Reached
  <2>2. indexing.kind = "add" /\ g = inForce
    BY <1>1, <1>g DEF CallFits
  <2>3. CASE r \in some
    <3>1. (Memory!Held(g, r))' # {}
      BY <1>9, <2>3
    <3> QED
      BY <1>1, <2>2, <3>1
  <2>4. CASE r \notin some
    <3>1. Memory!Held(g, r) # {} => (Memory!Held(g, r))' # {}
      BY <1>8
    <3>2. Memory!Held(inForce, r) # {} => (Memory!Held(inForce, r))' # {}
      BY <1>1, <2>2, <3>1 DEF Memory!Held
    <3> QED
      BY <1>3, <2>1, <2>4, <3>2
  <2> QED
    BY <2>3, <2>4
<1> QED
  BY <1>7, <1>10, <1>11, <1>12

(* The provider fails, or all is indexed.                                    *)
LEMMA MemoryCallEnds ==
  ASSUME InstanceAssumption, MemoryInv, Memory!IndexFails \/ Memory!Indexed PROVE MemoryInv'
<1> USE DEF MemoryInv
<1>0. /\ Len(generations) \in Nat /\ DOMAIN generations = 1..Len(generations)
      /\ \A g \in 1..Len(generations) : generations[g] \in AGeneration
  BY GenerationsAre
<1>g. PICK g : g = indexing.target
  OBVIOUS
<1>a. indexing # Absent /\ indexing' = Absent
  BY DEF Memory!IndexFails, Memory!Indexed
<1>b. /\ g \in 1..Len(generations) /\ generations[g].profile = configured
      /\ generations[g].status \in {"building", "active"}
      /\ indexing \in Memory!Call /\ indexing.kind \in {"add", "search", "rerank"}
      /\ indexing.kind = "add" => g = inForce
      /\ indexing.kind # "add" =>
           /\ semantic = "ready" /\ inForce = 0
           /\ \A r \in stored \ indexing.todo : Memory!Held(g, r) # {}
      /\ semantic # "down"
  BY <1>a, <1>g DEF CallFits, InForceFits, Memory!Call
<1>c. Len(generations) <= MaxGeneration /\ generations \in Seq(AGeneration)
      /\ semantic \in Memory!Semantic
  BY DEF VectorsTyped
(* Changing what generations are said to be, but not whose they are.         *)
<1>1. ASSUME NEW mark \in [1..Len(generations) -> {"building", "active", "dormant", "failed"}],
             generations' = [h \in DOMAIN generations |->
                               [generations[h] EXCEPT !.status = mark[h]]]
      PROVE  /\ generations' \in Seq(AGeneration) /\ Len(generations') = Len(generations)
             /\ \A h \in 1..Len(generations) :
                  /\ generations'[h].profile = generations[h].profile
                  /\ generations'[h].status = mark[h] /\ generations'[h] \in AGeneration
  <2>1. \A h \in 1..Len(generations) :
          LET e == [generations[h] EXCEPT !.status = mark[h]] IN
          e \in AGeneration /\ e.profile = generations[h].profile /\ e.status = mark[h]
    BY <1>0 DEF AGeneration
  <2>2. generations' \in [1..Len(generations) -> AGeneration]
    BY <1>0, <1>1, <2>1
  <2>3. generations' \in Seq(AGeneration) /\ Len(generations') = Len(generations)
    BY <1>0, <2>2
  <2> QED
    BY <1>0, <1>1, <2>1, <2>3
<1>2. CASE Memory!IndexFails
  <2>1. /\ semantic' = Memory!AfterFailure(indexing.kind)
        /\ UNCHANGED <<stored, embedded, configured, embedder, inForce, revision, compared>>
        /\ generations' = [h \in DOMAIN generations |->
             IF h = g /\ generations[h].status = "building"
             THEN [generations[h] EXCEPT !.status = "failed"] ELSE generations[h]]
    BY <1>2, <1>g DEF Memory!IndexFails
  <2>2. PICK mark \in [1..Len(generations) -> {"building", "active", "dormant", "failed"}] :
          \A h \in 1..Len(generations) :
            mark[h] = IF h = g /\ generations[h].status = "building"
                      THEN "failed" ELSE generations[h].status
    <3>1. [h \in 1..Len(generations) |->
             IF h = g /\ generations[h].status = "building"
             THEN "failed" ELSE generations[h].status]
          \in [1..Len(generations) -> {"building", "active", "dormant", "failed"}]
      BY <1>0 DEF AGeneration
    <3> QED
      BY <3>1
  <2>3. generations' = [h \in DOMAIN generations |->
                          [generations[h] EXCEPT !.status = mark[h]]]
    <3>1. \A h \in DOMAIN generations :
            (IF h = g /\ generations[h].status = "building"
             THEN [generations[h] EXCEPT !.status = "failed"] ELSE generations[h])
            = [generations[h] EXCEPT !.status = mark[h]]
      BY <1>0, <2>2 DEF AGeneration
    <3> QED
      BY <2>1, <3>1
  <2>4. /\ generations' \in Seq(AGeneration) /\ Len(generations') = Len(generations)
        /\ \A h \in 1..Len(generations) :
             /\ generations'[h].profile = generations[h].profile
             /\ generations'[h].status = mark[h] /\ generations'[h] \in AGeneration
    BY <1>1, <2>3
  <2>5. /\ (semantic' = semantic /\ semantic # "active") \/ semantic' = "degraded"
        /\ semantic' \in Memory!Semantic
    BY <1>b, <1>c, <2>1 DEF Memory!AfterFailure, Memory!Semantic
  <2>6. VectorsTyped'
    BY <2>1, <2>4, <2>5 DEF VectorsTyped
  <2>7. VectorsFit'
    BY <2>1, <2>4 DEF VectorsFit
  <2>8. InForceFits'
    <3>1. inForce # 0 => /\ inForce \in 1..Len(generations)
                         /\ mark[inForce] = "active"
      BY <1>b, <2>2 DEF InForceFits
    <3>2. \A h \in 1..Len(generations) : mark[h] = "active" => generations[h].status = "active"
      BY <2>2
    <3>3. inForce # 0 => generations'[inForce] = [profile |-> configured, status |-> "active"]
      BY <2>4, <3>1 DEF InForceFits, AGeneration
    <3> QED
      BY <1>a, <1>b, <2>1, <2>4, <2>5, <3>1, <3>2, <3>3 DEF InForceFits
  <2>9. CallFits' /\ Reached'
    BY <1>a, <2>5 DEF CallFits, Reached
  <2> QED
    BY <2>1, <2>6, <2>7, <2>8, <2>9 DEF Memory!AnswersCompare
<1>3. CASE Memory!Indexed /\ indexing.kind = "add"
  <2>1. /\ indexing.todo = {}
        /\ UNCHANGED <<stored, embedded, generations, semantic, configured, embedder, inForce,
                       revision, compared>>
    BY <1>3 DEF Memory!Indexed
  <2> QED
    BY <1>a, <1>b, <2>1 DEF VectorsTyped, VectorsFit, InForceFits, CallFits, Reached,
       Memory!AnswersCompare, Memory!Held
<1>4. CASE Memory!Indexed /\ indexing.kind # "add"
  <2>1. /\ indexing.todo = {} /\ generations' = Memory!Switched(g)
        /\ semantic' = "active" /\ embedder' = configured /\ inForce' = g
        /\ UNCHANGED <<stored, embedded, configured, revision, compared>>
    BY <1>4, <1>g DEF Memory!Indexed
  <2>2. PICK mark \in [1..Len(generations) -> {"building", "active", "dormant", "failed"}] :
          \A h \in 1..Len(generations) :
            mark[h] = IF h = g THEN "active"
                      ELSE IF generations[h].status = "active"
                              /\ generations[g].status = "building"
                           THEN "dormant" ELSE generations[h].status
    <3>1. [h \in 1..Len(generations) |->
             IF h = g THEN "active"
             ELSE IF generations[h].status = "active" /\ generations[g].status = "building"
                  THEN "dormant" ELSE generations[h].status]
          \in [1..Len(generations) -> {"building", "active", "dormant", "failed"}]
      BY <1>0 DEF AGeneration
    <3> QED
      BY <3>1
  <2>3. generations' = [h \in DOMAIN generations |->
                          [generations[h] EXCEPT !.status = mark[h]]]
    <3>1. \A h \in DOMAIN generations :
            (IF h = g THEN [generations[h] EXCEPT !.status = "active"]
             ELSE IF generations[h].status = "active" /\ generations[g].status = "building"
                  THEN [generations[h] EXCEPT !.status = "dormant"]
             ELSE generations[h])
            = [generations[h] EXCEPT !.status = mark[h]]
      BY <1>0, <2>2 DEF AGeneration
    <3> QED
      BY <2>1, <3>1 DEF Memory!Switched
  <2>4. /\ generations' \in Seq(AGeneration) /\ Len(generations') = Len(generations)
        /\ \A h \in 1..Len(generations) :
             /\ generations'[h].profile = generations[h].profile
             /\ generations'[h].status = mark[h] /\ generations'[h] \in AGeneration
    BY <1>1, <2>3
  <2>5. VectorsTyped'
    BY <1>0, <1>b, <1>c, <2>1, <2>4 DEF VectorsTyped, Memory!Semantic
  <2>6. VectorsFit'
    BY <2>1, <2>4 DEF VectorsFit
  <2>7. InForceFits'
    <3>1. mark[g] = "active" /\ \A h \in 1..Len(generations) : mark[h] = "active" => h = g
      BY <1>b, <2>2 DEF InForceFits
    <3>2. generations'[g] = [profile |-> configured, status |-> "active"]
      BY <1>b, <2>4, <3>1 DEF AGeneration
    <3>3. configured # Absent
      BY <1>0, <1>b, MemoryIs DEF AGeneration
    <3> QED
      BY <1>b, <2>1, <2>4, <3>1, <3>2, <3>3 DEF InForceFits
  <2>8. Reached'
    <3>1. \A r \in stored : Memory!Held(g, r) # {}
      BY <1>4, <1>b, <2>1
    <3> QED
      BY <2>1, <3>1 DEF Reached, Memory!Held
  <2> QED
    BY <1>a, <2>1, <2>5, <2>6, <2>7, <2>8 DEF CallFits, Memory!AnswersCompare
<1> QED
  BY <1>2, <1>3, <1>4

(* Answers are compared, fail, and all is purged.                            *)
LEMMA MemoryAnswers ==
  ASSUME InstanceAssumption, MemoryInv, NEW q \in Query,
         \/ Memory!Search(q) \/ Memory!SearchFails(q) \/ Memory!RerankFails(q)
         \/ \E docs \in SUBSET Document : Memory!Rerank(q, docs)
  PROVE  MemoryInv'
<1> USE DEF MemoryInv
<1>0. indexing = Absent /\ semantic = "active"
  BY DEF Memory!Search, Memory!SearchFails, Memory!RerankFails, Memory!Rerank, Memory!Idle
<1>1. /\ UNCHANGED <<stored, generations, configured, embedder, inForce, indexing, revision>>
      /\ semantic' \in {"active", "degraded"}
  BY <1>0 DEF Memory!Search, Memory!SearchFails, Memory!RerankFails, Memory!Rerank
<1>2. VectorsTyped' /\ InForceFits' /\ CallFits'
  BY <1>0, <1>1 DEF VectorsTyped, InForceFits, CallFits, Memory!Semantic
(* Whatever is done, the vectors of records stay.                            *)
<1>3. ASSUME \A r \in Memo : Memory!Held(inForce, r) \subseteq embedded' PROVE Reached'
  <2>1. \A r \in Memo : Memory!Held(inForce, r) # {} => (Memory!Held(inForce, r))' # {}
    BY <1>1, <1>3 DEF Memory!Held
  <2>2. stored \subseteq Memo
    BY DEF VectorsTyped
  <2> QED
    BY <1>0, <1>1, <2>1, <2>2 DEF Reached
<1>5. CASE Memory!Search(q)
  <2>1. /\ embedded' = Memory!WithQuery(q) /\ inForce # 0
        /\ compared' = {v \in embedded' : v.generation = inForce /\ v.item \in stored \cup {q}}
    BY <1>5 DEF Memory!Search, Memory!Usable
  <2>2. VectorsFit' /\ embedded \subseteq embedded'
    BY <1>1, <2>1, QueryEmbedded
  <2>3. Document \cap (stored \cup {q}) = {}
    BY MemoryIs DEF VectorsTyped
  <2>4. /\ \A v, w \in compared' : v.origin = w.origin
        /\ \A v \in compared' : v.item \notin Document
    BY <1>1, <2>1, <2>2, <2>3 DEF VectorsFit
  <2>5. Memory!AnswersCompare'
    BY <2>4 DEF Memory!AnswersCompare
  <2>6. Reached'
    BY <1>3, <2>2 DEF Memory!Held
  <2> QED
    BY <1>2, <2>2, <2>5, <2>6
<1>6. CASE Memory!SearchFails(q)
  BY <1>2, <1>6 DEF Memory!SearchFails, VectorsFit, Reached, Memory!AnswersCompare
<1>7. CASE Memory!RerankFails(q)
  <2>1. embedded' = Memory!WithQuery(q) /\ inForce # 0 /\ compared' = compared
    BY <1>7 DEF Memory!RerankFails, Memory!Usable
  <2>2. VectorsFit' /\ embedded \subseteq embedded'
    BY <1>1, <2>1, QueryEmbedded
  <2>3. Reached'
    BY <1>3, <2>2 DEF Memory!Held
  <2> QED
    BY <1>1, <1>2, <2>1, <2>2, <2>3 DEF Memory!AnswersCompare
<1>8. ASSUME NEW docs \in SUBSET Document, Memory!Rerank(q, docs) PROVE MemoryInv'
  <2>g. PICK g : g = inForce
    OBVIOUS
  <2>a. PICK asked0 : asked0 = Memory!WithQuery(q)
    OBVIOUS
  <2>n. PICK fresh : fresh = {d \in docs : ~Memory!Fresh(d)}
    OBVIOUS
  <2>w. PICK new : new = {Memory!Entry(g, d, revision[d]) : d \in fresh}
    OBVIOUS
  <2>o. PICK old : old = {v \in asked0 : v.generation # g \/ v.item \notin fresh}
    OBVIOUS
  <2>1. /\ embedded' = old \cup new /\ inForce # 0
        /\ compared' = {v \in embedded' : v.generation = g /\ v.item \in docs \cup {q}}
    BY <1>8, <2>a, <2>g, <2>n, <2>o, <2>w DEF Memory!Rerank, Memory!Usable
  <2>2. /\ \A v \in new : /\ v.generation = g /\ v.item \in fresh /\ v.origin = configured
                          /\ v.hash = revision[v.item]
        /\ \A v, w \in new : v.item = w.item => v = w
        /\ \A d \in fresh : \E v \in new : v.generation = g /\ v.item = d
    <3>1. \A d : LET v == Memory!Entry(g, d, revision[d]) IN
            v.generation = g /\ v.item = d /\ v.origin = configured /\ v.hash = revision[d]
      BY DEF Memory!Entry
    <3> QED
      BY <2>w, <3>1
  <2>3. /\ g \in 1..Len(generations) /\ generations[g].profile = configured
        /\ fresh \subseteq Document
    BY <2>1, <2>g, <2>n DEF InForceFits
  (* First the question, then the files.                                     *)
  <2>4. /\ embedded \subseteq asked0
        /\ \A v \in asked0 : \/ v \in embedded
                             \/ v.generation = g /\ v.item = q /\ v.origin = configured
        /\ \A v, w \in asked0 : v.generation = w.generation /\ v.item = w.item => v = w
    <3>1. CASE Memory!Held(inForce, q) # {}
      BY <2>a, <3>1 DEF Memory!WithQuery, VectorsFit
    <3>2. CASE Memory!Held(inForce, q) = {}
      <4>1. PICK e : e = Memory!Entry(g, q, 0)
        OBVIOUS
      <4>2. e.generation = g /\ e.item = q /\ e.origin = configured
        BY <4>1 DEF Memory!Entry
      <4>3. asked0 = embedded \cup {e}
        BY <2>a, <2>g, <3>2, <4>1 DEF Memory!WithQuery
      <4>4. \A v \in embedded : ~ (v.generation = g /\ v.item = q)
        BY <2>g, <3>2 DEF Memory!Held
      <4> QED
        BY <4>2, <4>3, <4>4 DEF VectorsFit
    <3> QED
      BY <3>1, <3>2
  <2>5. VectorsFit'
    <3> SUFFICES ASSUME NEW v \in embedded'
                 PROVE  /\ v.generation \in 1..Len(generations)
                        /\ v.origin = generations[v.generation].profile
                        /\ v.item \in Memo => v.item \in stored
                        /\ \A w \in embedded' :
                             v.generation = w.generation /\ v.item = w.item => v = w
      BY <1>1 DEF VectorsFit
    <3>1. CASE v \in old
      <4>1. /\ v.generation \in 1..Len(generations)
            /\ v.origin = generations[v.generation].profile
            /\ v.item \in Memo => v.item \in stored
        BY <2>3, <2>4, <2>o, <3>1, MemoryIs DEF VectorsFit
      <4>2. \A w \in embedded' : v.generation = w.generation /\ v.item = w.item => w \in old
        BY <2>1, <2>2, <2>o, <3>1
      <4> QED
        BY <2>4, <2>o, <3>1, <4>1, <4>2
    <3>2. CASE v \in new
      <4>1. \A w \in embedded' : v.generation = w.generation /\ v.item = w.item => w \in new
        BY <2>1, <2>2, <2>o, <3>2
      <4> QED
        BY <2>2, <2>3, <3>2, <4>1, MemoryIs
    <3> QED
      BY <2>1, <3>1, <3>2
  <2>6. Reached'
    <3>1. \A r \in Memo : r \notin fresh
      BY <2>3, MemoryIs
    <3>2. \A r \in Memo : Memory!Held(inForce, r) \subseteq embedded'
      BY <2>1, <2>4, <2>o, <3>1 DEF Memory!Held
    <3> QED
      BY <1>3, <3>2
  <2>7. \A v, w \in compared' : v.origin = w.origin
    BY <1>1, <2>1, <2>5 DEF VectorsFit
  <2>8. \A v \in compared' : v.item \in Document => v.hash = revision[v.item]
    <3> SUFFICES ASSUME NEW v \in compared', v.item \in Document
                 PROVE  v.hash = revision[v.item]
      OBVIOUS
    <3>1. v \in embedded' /\ v.generation = g /\ v.item \in docs
      BY <2>1, MemoryIs
    <3>2. CASE v.item \in fresh
      BY <2>1, <2>2, <2>o, <3>1, <3>2
    <3>3. CASE v.item \notin fresh
      <4>1. v \in asked0
        BY <2>1, <2>2, <2>o, <3>1, <3>3
      <4>2. PICK u \in embedded : u.generation = g /\ u.item = v.item /\ u.hash = revision[v.item]
        BY <2>g, <2>n, <3>1, <3>3 DEF Memory!Fresh, Memory!Held
      <4>3. u = v
        BY <2>4, <3>1, <4>1, <4>2
      <4> QED
        BY <4>2, <4>3
    <3> QED
      BY <3>2, <3>3
  <2>9. Memory!AnswersCompare'
    BY <1>1, <2>7, <2>8 DEF Memory!AnswersCompare
  <2> QED
    BY <1>2, <2>5, <2>6, <2>9
<1> QED
  BY <1>5, <1>6, <1>7, <1>8

LEMMA MemoryPurges == ASSUME InstanceAssumption, MemoryInv, Memory!Purge PROVE MemoryInv'
<1>1. /\ embedded' = {} /\ generations' = <<>> /\ inForce' = 0 /\ compared' = {}
      /\ indexing = Absent /\ semantic # "down"
      /\ UNCHANGED <<stored, semantic, configured, indexing, revision>>
  BY DEF Memory!Purge, Memory!AfterPurge, Memory!Idle
<1>2. VectorsTyped'
  BY <1>1, MemoryIs DEF MemoryInv, VectorsTyped
<1> QED
  BY <1>1, <1>2 DEF MemoryInv, VectorsFit, InForceFits, CallFits, Reached,
     Memory!AnswersCompare

LEMMA MemoryStep == InstanceAssumption /\ Memory!Next => (MemoryInv => MemoryInv')
BY MemoryProcess, MemoryRecords, MemoryActivates, MemoryIndexes, MemoryCallEnds,
   MemoryAnswers, MemoryPurges DEF Memory!Next

LEMMA MemoryShow ==
  ASSUME InstanceAssumption, MemoryInv
  PROVE  /\ Memory!AnswersCompare /\ Memory!SearchReachesAll
         /\ Memory!OneGeneration /\ Memory!ForgottenIsGone
<1> USE DEF MemoryInv
<1>0. Len(generations) \in Nat /\ DOMAIN generations = 1..Len(generations)
  BY GenerationsAre
<1>1. Memory!OneGeneration
  <2> DEFINE A == {g \in DOMAIN generations : generations[g].status = "active"}
  <2>1. \A C : Memory!Cardinality(C) = Cardinality(C)
    BY DEF Memory!Cardinality, Cardinality
  <2>2. Cardinality(A) <= 1
    <3>1. CASE A = {}
      <4>1. Cardinality(A) = 0
        BY <3>1, FS_EmptySet
      <4> QED
        BY <4>1
    <3>2. CASE A # {}
      <4>1. PICK g \in A : A = {g}
        BY <1>0, <3>2 DEF InForceFits
      <4>2. Cardinality({g}) = 1
        BY FS_Singleton
      <4>3. Cardinality(A) = 1
        BY <4>1, <4>2
      <4> QED
        BY <4>3
    <3> QED
      BY <3>1, <3>2
  <2> QED
    BY <1>0, <2>1, <2>2 DEF InForceFits, Memory!OneGeneration
<1>2. Memory!SearchReachesAll
  BY DEF Reached, Memory!SearchReachesAll
<1>3. Memory!ForgottenIsGone
  BY DEF VectorsFit, Memory!ForgottenIsGone
<1> QED
  BY <1>1, <1>2, <1>3

-----------------------------------------------------------------------------
(* The restore of a backup.                                                  *)

(* The journal tells how to put back what was there.                         *)
CanGoBack ==
  /\ journal = "swapping" /\ names = Restore!Existing(before)
  /\ \A x \in names : aside[x] = before[x]
  /\ \A x \in File \ (names \cup Backup) : db[x] = "none"

Settled == journal = "none" /\ db \in {before, Restore!Target}

(* What a step of the owner finds.                                           *)
Found ==
  /\ step \in {"sweep-stage", "sweep-aside", "open"} => Settled
  /\ step = "closed" =>
       \/ Settled
       \/ CanGoBack /\ faults > 0
       \/ journal = "committed" /\ db = Restore!Target /\ faults > 0
  /\ step \in {"stage", "set-aside", "journal", "publish"} =>
       journal = "none" /\ db = before /\ names = Restore!Existing(before)
  /\ step = "stage" => todo \subseteq Backup
  /\ step = "set-aside" =>
       todo \subseteq names /\ \A x \in names \ todo : aside[x] = before[x]
  /\ step \in {"journal", "publish"} => \A x \in names : aside[x] = before[x]
  /\ step = "publish" => draft = "swapping"

(* What it finds while the files are swapped, and after.                     *)
Swapped ==
  /\ step \in {"remove", "install", "commit", "drop-journal", "undo-remove", "undo-copy"} =>
       CanGoBack
  /\ step \in {"remove", "install", "commit"} => draft = "none"
  /\ step \in {"drop-journal", "publish-committed"} => draft = "committed"
  /\ step \in {"remove", "undo-remove"} => \A x \in File \ todo : db[x] = "none"
  /\ step = "install" =>
       todo \subseteq Backup /\ \A x \in File \ todo : db[x] = Restore!Target[x]
  /\ step \in {"commit", "drop-journal", "publish-committed"} => db = Restore!Target
  /\ step = "publish-committed" => journal = "none"
  /\ step \in {"undo-remove", "undo-copy"} => faults > 0
  /\ step = "undo-copy" =>
       todo \subseteq names /\ \A x \in File \ todo : db[x] = before[x]
  /\ step \in {"clean-stage", "clean-aside", "clean-journal", "clean-draft"} =>
       /\ db \in {before, Restore!Target}
       /\ faults = 0 => db = Restore!Target /\ journal \in {"none", "committed"}
  /\ step = "clean-draft" => journal = "none"

Steps ==
  {"closed", "sweep-stage", "sweep-aside", "open", "stage", "set-aside", "journal", "publish",
   "remove", "install", "commit", "drop-journal", "publish-committed", "undo-remove",
   "undo-copy", "clean-stage", "clean-aside", "clean-journal", "clean-draft"}

RestoreTyped ==
  /\ step \in Steps
  /\ db \in [File -> Restore!Content] /\ before \in [File -> Restore!Content]
  /\ aside \in [File -> Restore!Content]
  /\ names \subseteq File /\ todo \subseteq File /\ faults \in Nat
  /\ {journal, draft} \subseteq {"none", "swapping", "committed"}

RestoreInv == RestoreTyped /\ (faults <= 1 => Found /\ Swapped)

LEMMA RestoreStay == UNCHANGED restoreVars => (RestoreInv => RestoreInv')
BY DEF restoreVars, RestoreInv, RestoreTyped, Found, Swapped, CanGoBack, Settled,
   Restore!Existing

LEMMA RestoreBegin == Restore!Init => RestoreInv
<1> SUFFICES ASSUME Restore!Init PROVE RestoreInv
  OBVIOUS
<1>1. RestoreTyped
  BY DEF Restore!Init, RestoreTyped, Steps, Restore!Content, Restore!Nothing
<1>2. Found /\ Swapped
  BY DEF Restore!Init, Found, Swapped, Settled
<1> QED
  BY <1>1, <1>2 DEF RestoreInv

LEMMA RestoreTypedKept == InstanceAssumption /\ Restore!Next /\ RestoreTyped => RestoreTyped'
<1> SUFFICES ASSUME InstanceAssumption, Restore!Next, RestoreTyped
             PROVE  RestoreTyped'
  OBVIOUS
<1> USE DEF InstanceAssumption, RestoreTyped, Steps, Restore!Goto, Restore!Kept, Restore!Content,
            Restore!Existing, Restore!Nothing, Restore!disk
<1>1. CASE Restore!Acquire
  BY <1>1 DEF Restore!Acquire
<1>2. CASE Restore!Release
  BY <1>2 DEF Restore!Release
<1>3. CASE Restore!Begin
  BY <1>3 DEF Restore!Begin
<1>4. CASE Restore!SwapFails
  BY <1>4 DEF Restore!SwapFails
<1>5. CASE Restore!Kill
  BY <1>5 DEF Restore!Kill
<1>6. CASE Restore!SweepStage \/ Restore!SweepAside
  BY <1>6 DEF Restore!SweepStage, Restore!SweepAside
<1>7. CASE Restore!Journal \/ Restore!Commit
  BY <1>7 DEF Restore!Journal, Restore!Commit, Restore!WriteDraft
<1>8. CASE Restore!PublishSwapping \/ Restore!PublishCommitted
  BY <1>8 DEF Restore!PublishSwapping, Restore!PublishCommitted, Restore!Publish
<1>9. CASE Restore!DropJournal
  BY <1>9 DEF Restore!DropJournal
<1>10. CASE Restore!CleanStage \/ Restore!CleanJournal \/ Restore!CleanDraft
  BY <1>10 DEF Restore!CleanStage, Restore!CleanJournal, Restore!CleanDraft
<1>11. CASE Restore!CleanAside
  BY <1>11 DEF Restore!CleanAside
<1>12. ASSUME NEW x \in File,
              Restore!Stage(x) \/ Restore!SetAside(x) \/ Restore!Remove(x) \/ Restore!Install(x)
       PROVE  RestoreTyped'
  BY <1>12 DEF Restore!Stage, Restore!SetAside, Restore!Remove, Restore!Install, Restore!Each
<1>13. ASSUME NEW x \in File,
              \/ Restore!UndoRemove(x) \/ Restore!UndoTear(x) \/ Restore!UndoCopy(x)
              \/ Restore!UndoFails(x)
       PROVE  RestoreTyped'
  BY <1>13 DEF Restore!UndoRemove, Restore!UndoTear, Restore!UndoCopy, Restore!UndoFails,
     Restore!Each
<1> QED
  BY <1>1, <1>2, <1>3, <1>4, <1>5, <1>6, <1>7, <1>8, <1>9, <1>10, <1>11, <1>12, <1>13
  DEF Restore!Next, Restore!Owner

(* The lists that a loop has still to go through.                            *)
LEMMA RestoreKept ==
  ASSUME InstanceAssumption, Restore!Next, RestoreTyped, Found, Swapped, faults' <= 1
  PROVE  Found' /\ Swapped'
<1>0. RestoreTyped'
  BY RestoreTypedKept
<1> USE DEF InstanceAssumption, RestoreTyped, Found, Swapped, CanGoBack, Settled,
            Restore!Goto, Restore!Kept, Restore!disk
<1>1. CASE Restore!Acquire
  <2>1. \A x \in File \ (names \cup Backup) : Restore!Target[x] = "none"
    BY DEF Restore!Target
  <2> QED
    BY <1>1, <2>1 DEF Restore!Acquire, Restore!Existing, Restore!Target
<1>2. CASE Restore!Release
  BY <1>2 DEF Restore!Release
<1>3. CASE Restore!Begin
  BY <1>3 DEF Restore!Begin, Restore!Existing
<1>4. CASE Restore!SwapFails
  BY <1>4 DEF Restore!SwapFails
<1>5. CASE Restore!Kill
  <2>1. faults = 0 /\ faults' = 1 /\ step' = "closed" /\ step # "closed"
    BY <1>5 DEF Restore!Kill
  <2>2. UNCHANGED <<db, aside, journal, names, before>>
    BY <1>5 DEF Restore!Kill
  <2>3. Settled \/ CanGoBack \/ (journal = "committed" /\ db = Restore!Target)
    <3>1. CASE step \in {"sweep-stage", "sweep-aside", "open"}
      BY <3>1
    <3>2. CASE step \in {"stage", "set-aside", "journal", "publish"}
      BY <3>2
    <3>3. CASE step \in {"remove", "install", "commit", "drop-journal", "undo-remove",
                         "undo-copy"}
      BY <3>3
    <3>4. CASE step = "publish-committed"
      BY <3>4
    <3>5. CASE step \in {"clean-stage", "clean-aside", "clean-journal", "clean-draft"}
      BY <2>1, <3>5
    <3> QED
      BY <2>1, <3>1, <3>2, <3>3, <3>4, <3>5 DEF Steps
  <2>4. Restore!Target' = Restore!Target
    BY DEF Restore!Target
  <2>5. CanGoBack => CanGoBack'
    BY <2>2 DEF Restore!Existing
  <2>6. Settled => Settled'
    BY <2>2, <2>4
  <2>7. Found'
    BY <2>1, <2>2, <2>3, <2>4, <2>5, <2>6
  <2> QED
    BY <2>1, <2>7
<1>6. CASE Restore!SweepStage \/ Restore!SweepAside
  BY <1>6 DEF Restore!SweepStage, Restore!SweepAside
<1>7. CASE Restore!Journal \/ Restore!Commit
  BY <1>7 DEF Restore!Journal, Restore!Commit, Restore!WriteDraft
<1>8. CASE Restore!PublishSwapping
  BY <1>8 DEF Restore!PublishSwapping, Restore!Publish, Restore!Existing
<1>9. CASE Restore!DropJournal \/ Restore!PublishCommitted
  BY <1>9 DEF Restore!DropJournal, Restore!PublishCommitted, Restore!Publish
<1>10. CASE Restore!CleanStage \/ Restore!CleanJournal \/ Restore!CleanDraft
  BY <1>10 DEF Restore!CleanStage, Restore!CleanJournal, Restore!CleanDraft
<1>11. CASE Restore!CleanAside
  BY <1>11 DEF Restore!CleanAside
<1>12. ASSUME NEW x \in File, Restore!Stage(x) PROVE Found' /\ Swapped'
  BY <1>12 DEF Restore!Stage, Restore!Each
<1>13. ASSUME NEW x \in File, Restore!SetAside(x) PROVE Found' /\ Swapped'
  BY <1>13 DEF Restore!SetAside, Restore!Each, Restore!Existing
<1>14. ASSUME NEW x \in File, Restore!Remove(x) PROVE Found' /\ Swapped'
  BY <1>14 DEF Restore!Remove, Restore!Each, Restore!Target
<1>15. ASSUME NEW x \in File, Restore!Install(x) PROVE Found' /\ Swapped'
  <2>1. /\ step = "install" /\ x \in todo /\ faults' = faults
        /\ UNCHANGED <<aside, journal, draft, names, before>>
        /\ db' = [db EXCEPT ![x] = "new"]
        /\ \/ step' = "install" /\ todo' = todo \ {x}
           \/ step' = "commit" /\ todo = {x}
    BY ONLY <1>15 DEF Restore!Install, Restore!Each, Restore!Goto, Restore!Kept
  <2>2. x \in Backup
    BY <2>1
  <2>3. \A y \in File \ (todo \ {x}) : db'[y] = Restore!Target[y]
    BY <2>1, <2>2 DEF Restore!Target
  <2>4. step' = "commit" => db' = Restore!Target
    BY <2>1, <2>3 DEF Restore!Target
  <2>5. \A y \in File \ (names \cup Backup) : db'[y] = "none"
    BY <2>1, <2>2
  <2> QED
    BY <2>1, <2>3, <2>4, <2>5 DEF Restore!Existing
<1>16. ASSUME NEW x \in File, Restore!UndoRemove(x) PROVE Found' /\ Swapped'
  BY <1>16 DEF Restore!UndoRemove, Restore!Each, Restore!Existing
<1>17. ASSUME NEW x \in File, Restore!UndoTear(x) PROVE Found' /\ Swapped'
  BY <1>17 DEF Restore!UndoTear, Restore!Each
<1>18. ASSUME NEW x \in File, Restore!UndoCopy(x) PROVE Found' /\ Swapped'
  BY <1>18 DEF Restore!UndoCopy, Restore!Each
<1>19. ASSUME NEW x \in File, Restore!UndoFails(x) PROVE Found' /\ Swapped'
  BY <1>19 DEF Restore!UndoFails, Restore!Existing
<1> QED
  BY <1>1, <1>2, <1>3, <1>4, <1>5, <1>6, <1>7, <1>8, <1>9, <1>10, <1>11, <1>12, <1>13,
     <1>14, <1>15, <1>16, <1>17, <1>18, <1>19 DEF Restore!Next, Restore!Owner

LEMMA RestoreStep == InstanceAssumption /\ Restore!Next => (RestoreInv => RestoreInv')
<1> SUFFICES ASSUME InstanceAssumption, Restore!Next, RestoreInv PROVE RestoreInv'
  OBVIOUS
<1>1. RestoreTyped' /\ RestoreTyped
  BY RestoreTypedKept DEF RestoreInv
<1>2. faults' <= 1 => faults <= 1
  <2>1. faults' = faults \/ faults' = faults + 1
    BY DEF Restore!Next, Restore!Owner, Restore!Acquire, Restore!Release, Restore!Begin,
       Restore!SwapFails, Restore!Kill, Restore!Kept, Restore!SweepStage,
       Restore!SweepAside, Restore!Journal, Restore!PublishSwapping, Restore!Commit,
       Restore!DropJournal, Restore!PublishCommitted, Restore!CleanStage,
       Restore!CleanAside, Restore!CleanJournal, Restore!CleanDraft, Restore!Stage,
       Restore!SetAside, Restore!Remove, Restore!Install, Restore!UndoRemove,
       Restore!UndoTear, Restore!UndoCopy, Restore!UndoFails, Restore!WriteDraft,
       Restore!Publish
  <2> QED
    BY <1>1, <2>1 DEF RestoreTyped
<1> QED
  BY <1>1, <1>2, RestoreKept DEF RestoreInv

LEMMA RestoreShow ==
  RestoreInv /\ faults <= 1 => Restore!OldOrNewSurvives /\ Restore!OpenIsWhole
BY DEF RestoreInv, RestoreTyped, Found, Swapped, CanGoBack, Settled,
   Restore!OldOrNewSurvives, Restore!OpenIsWhole, Steps

-----------------------------------------------------------------------------
(* The tokens of remote servers.                                             *)
Entry ==
  [id : BOOLEAN, secret : BOOLEAN, key : BOOLEAN, signs : BOOLEAN, document : BOOLEAN,
   method : {"auto"}, published : BOOLEAN, expected : BOOLEAN, legacy : BOOLEAN,
   fixed : BOOLEAN]
AFlow == [server : Server, client : Login!Client]
AGrant == [plain : BOOLEAN, renewable : BOOLEAN, old : Nat]

(* What ClientIsWhole says of a client whose request is sent.                *)
Credible(k, c) ==
  Login!CanAsk(k) =>
    /\ k.method = "key" <=> k.key
    /\ c.id /\ c.secret => k.method \in {"basic", "post"}
    /\ c.id /\ c.key => k.method = "key"

LoginTyped ==
  /\ config \in [Server -> Entry]
  /\ flows \in Seq(AFlow) /\ Len(flows) <= MaxFlow
  /\ grants \in Seq(AGrant)
  /\ pending \in [Server -> 0..Len(flows)]
  /\ listening \subseteq 1..Len(flows)
  /\ answer \in [Login!Flow -> Login!Answer]
  /\ creds \in [Server -> [access : 0..Len(grants), refresh : 0..Len(grants)]]

(* A flow is waited for by its server, with a client that is whole.          *)
FlowsFit ==
  /\ \A s \in Server : pending[s] > 0 => flows[pending[s]].server = s
  /\ \A f \in 1..Len(flows) : Credible(flows[f].client, config[flows[f].server])

(* The access token is the last to be written.                               *)
HandFits ==
  hand.grant # 0 =>
    /\ hand.grant = Len(grants) /\ hand.server \in Server
    /\ \/ hand.left = <<"refresh", "access">>
       \/ /\ hand.left = <<"access">>
          /\ grants[hand.grant].renewable => creds[hand.server].refresh = hand.grant

LoginInv ==
  /\ LoginTyped /\ FlowsFit /\ HandFits
  /\ Login!CodesStayHome /\ Login!LoginIsRenewable /\ Login!FlowIsReachable
  /\ Login!ClientIsWhole

LEMMA LoginStay == UNCHANGED loginVars => (LoginInv => LoginInv')
BY DEF loginVars, LoginInv, LoginTyped, FlowsFit, HandFits, Login!CodesStayHome,
   Login!LoginIsRenewable, Login!FlowIsReachable, Login!ClientIsWhole

LEMMA ConfigurationsAre ==
  ASSUME InstanceAssumption PROVE Configurations \subseteq [Server -> Entry]
<1>1. Plain \in Entry /\ Inert \in Entry
  BY DEF Plain, Inert, Entry
<1>4. \A c, d \in Entry : Of(c, d) \in [Server -> Entry]
  BY DEF Of
<1>5. {[Plain EXCEPT !.secret = TRUE, !.expected = FALSE],
       [Plain EXCEPT !.key = TRUE, !.fixed = FALSE, !.published = FALSE, !.legacy = TRUE],
       [Plain EXCEPT !.id = FALSE, !.document = TRUE],
       [Plain EXCEPT !.secret = TRUE, !.key = TRUE]} \subseteq Entry
  BY DEF Plain, Entry
<1>6. \A f \in Configurations : \E c, d \in Entry : f = Of(c, d)
  BY <1>1, <1>5 DEF Configurations
<1> QED
  BY <1>4, <1>6

(* The methods that an authorization server names are those there are.       *)
LEMMA OffersAre ==
  ASSUME NEW c, NEW reply \in Offers, NEW m \in Login!Discover(c, reply)
  PROVE  m.methods \subseteq Login!Methods
<1>1. reply.methods \subseteq Login!Methods
  <2>1. \A r \in {[Reply EXCEPT !.found = FALSE], [Reply EXCEPT !.issuer = "neighbour"],
                  [Reply EXCEPT !.issuer = "other", !.listed = FALSE],
                  [Reply EXCEPT !.resource = "other"], [Reply EXCEPT !.s256 = FALSE]} :
          r.methods = Reply.methods
    BY DEF Reply
  <2>2. \A r \in {[Reply EXCEPT !.documents = FALSE, !.methods = {"none", "basic", "post"}],
                  [Reply EXCEPT !.documents = FALSE, !.methods = {"none"}]} :
          r.methods \subseteq Login!Methods
    BY DEF Reply, Login!Methods
  <2>3. Reply.methods \subseteq Login!Methods
    BY DEF Reply, Login!Methods
  <2> QED
    BY <2>1, <2>2, <2>3 DEF Offers
<1>2. m = reply \/ m = Login!Assumed
  BY DEF Login!Discover
<1>3. Login!Assumed.methods \subseteq Login!Methods
  BY DEF Login!Assumed, Login!Methods
<1> QED
  BY <1>1, <1>2, <1>3

LEMMA ClientsAre ==
  ASSUME NEW c \in Entry, NEW m, m.methods \subseteq Login!Methods,
         NEW k \in Login!ResolveClient(c, m)
  PROVE  k \in Login!Client /\ Credible(k, c)
<1>0. c.method = "auto" /\ {c.id, c.secret, c.key} \subseteq BOOLEAN
  BY DEF Entry
<1>1. CASE c.id
  <2>1. /\ k = [as |-> "configured", method |-> Login!MethodOf(c, m), secret |-> c.secret,
                key |-> c.key]
        /\ ~(k.secret /\ k.key) /\ k.method \in m.methods
        /\ IF k.method = "key" THEN k.key /\ c.signs /\ m.signs ELSE ~k.key
        /\ k.method = "none" => ~k.secret
        /\ k.method \in {"basic", "post"} => k.secret
    BY <1>1 DEF Login!ResolveClient, Login!ConfiguredClient
  <2>2. k.method \in Login!Methods /\ k.secret = c.secret /\ k.key = c.key
    BY <2>1
  <2>3. k \in Login!Client
    BY <1>0, <2>1, <2>2 DEF Login!Client
  <2> QED
    BY <1>0, <2>1, <2>2, <2>3 DEF Credible, Login!Methods
<1>2. CASE ~c.id /\ m.documents /\ c.document
  <2>1. k = [as |-> "document", method |-> "none", secret |-> FALSE, key |-> FALSE]
    BY <1>2 DEF Login!ResolveClient, Login!DocumentClient
  <2> QED
    BY <1>2, <2>1 DEF Login!Client, Login!Methods, Credible
<1>3. CASE ~c.id /\ ~(m.documents /\ c.document)
  <2>1. k \in [as : {"registered"}, method : m.methods, secret : BOOLEAN, key : {FALSE}]
    BY <1>3 DEF Login!ResolveClient, Login!RegisteredClient
  <2> QED
    BY <1>3, <2>1 DEF Login!Client, Login!CanAsk, Credible
<1> QED
  BY <1>1, <1>2, <1>3

LEMMA LoginBegin == InstanceAssumption /\ Login!Init => LoginInv
<1> SUFFICES ASSUME InstanceAssumption, Login!Init PROVE LoginInv
  OBVIOUS
<1>1. config \in [Server -> Entry]
  BY ConfigurationsAre DEF Login!Init
<1>2. /\ flows = <<>> /\ grants = <<>> /\ pending = [s \in Server |-> 0] /\ listening = {}
      /\ answer = [f \in Login!Flow |-> Login!NoAnswer] /\ hand.grant = 0
      /\ creds = [s \in Server |-> [access |-> 0, refresh |-> 0]]
      /\ asked.code = 0 /\ asked.flow = 0 /\ asked.by = "nobody"
  BY DEF Login!Init, Login!NoHand, Login!NotAsked
<1>3. Login!NoAnswer \in Login!Answer
  BY DEF InstanceAssumption, Login!NoAnswer, Login!Answer
<1>4. LoginTyped
  <2>1. flows \in Seq(AFlow) /\ grants \in Seq(AGrant) /\ Len(flows) = 0 /\ Len(grants) = 0
    BY <1>2
  <2>2. MaxFlow >= 0
    BY DEF InstanceAssumption
  <2> QED
    BY <1>1, <1>2, <1>3, <2>1, <2>2 DEF LoginTyped
<1> QED
  BY <1>2, <1>4 DEF LoginInv, FlowsFit, HandFits, Login!CodesStayHome,
     Login!LoginIsRenewable, Login!FlowIsReachable, Login!ClientIsWhole

LEMMA LoginIs ==
  ASSUME InstanceAssumption, LoginInv
  PROVE  /\ MaxFlow \in Nat /\ Len(flows) \in Nat /\ Len(grants) \in Nat
         /\ Login!Flow = 1..MaxFlow /\ 1..Len(flows) \subseteq Login!Flow
         /\ DOMAIN flows = 1..Len(flows) /\ DOMAIN grants = 1..Len(grants)
         /\ \A f \in 1..Len(flows) : flows[f] \in AFlow
         /\ \A g \in 1..Len(grants) : grants[g] \in AGrant
<1>1. flows \in Seq(AFlow) /\ grants \in Seq(AGrant) /\ Len(flows) <= MaxFlow
  BY DEF LoginInv, LoginTyped
<1>2. /\ Len(flows) \in Nat /\ DOMAIN flows = 1..Len(flows)
      /\ \A f \in 1..Len(flows) : flows[f] \in AFlow
  BY ONLY <1>1
<1>3. /\ Len(grants) \in Nat /\ DOMAIN grants = 1..Len(grants)
      /\ \A g \in 1..Len(grants) : grants[g] \in AGrant
  BY ONLY <1>1
<1> QED
  BY <1>1, <1>2, <1>3 DEF InstanceAssumption, Login!Flow

(* A client that an entry of the configuration may appear as.                *)
LEMMA ClientIsCredible ==
  ASSUME InstanceAssumption, LoginInv, NEW s \in Server, NEW reply \in Offers,
         NEW m \in Login!Discover(config[s], reply), NEW k \in Login!ResolveClient(config[s], m)
  PROVE  k \in Login!Client /\ Credible(k, config[s])
<1>1. config[s] \in Entry
  BY DEF LoginInv, LoginTyped
<1>2. m.methods \subseteq Login!Methods
  BY OffersAre
<1> QED
  BY <1>1, <1>2, ClientsAre

LEMMA LoginStarts ==
  ASSUME InstanceAssumption, LoginInv, NEW s \in Server, Login!Start(s)
  PROVE  LoginInv'
<1> USE DEF LoginInv
<1>0. /\ pending[s] = 0 /\ Len(flows) < MaxFlow /\ asked' = Login!NotAsked
      /\ pending' = [pending EXCEPT ![s] = Len(flows')]
      /\ listening' = listening \union {Len(flows')}
      /\ UNCHANGED <<config, answer, late, hand, creds, grants>>
  BY DEF Login!Start, Login!NothingAsked
<1>1. PICK k \in Login!Client :
        flows' = Append(flows, [server |-> s, client |-> k]) /\ Credible(k, config[s])
  BY ClientIsCredible DEF Login!Start
<1>2. PICK e : e = [server |-> s, client |-> k]
  OBVIOUS
<1>3. e \in AFlow /\ e.server = s /\ e.client = k /\ flows' = Append(flows, e)
  BY <1>1, <1>2 DEF AFlow
<1>4. /\ flows' \in Seq(AFlow) /\ Len(flows') = Len(flows) + 1 /\ flows'[Len(flows) + 1] = e
      /\ \A f \in 1..Len(flows) : flows'[f] = flows[f]
  <2>1. flows \in Seq(AFlow)
    BY DEF LoginTyped
  <2> QED
    BY ONLY <1>3, <2>1
<1>5. PICK n \in Nat : n = Len(flows)
  BY LoginIs
<1>6. LoginTyped'
  <2>1. n + 1 <= MaxFlow
    BY <1>0, <1>5, LoginIs
  <2>2. pending \in [Server -> 0..n] /\ listening \subseteq 1..n
    BY <1>5 DEF LoginTyped
  <2>3. 0..n \subseteq 0..n + 1 /\ 1..n \subseteq 1..n + 1 /\ n + 1 \in 1..n + 1
    OBVIOUS
  <2>4. pending' \in [Server -> 0..n + 1]
    BY <1>0, <1>4, <1>5, <2>2, <2>3
  <2>5. listening' \subseteq 1..n + 1
    <3>1. listening' = listening \union {n + 1}
      BY <1>0, <1>4, <1>5
    <3> QED
      BY <2>2, <2>3, <3>1
  <2> QED
    BY <1>0, <1>4, <1>5, <2>1, <2>4, <2>5 DEF LoginTyped
<1>7. FlowsFit'
  <2>1. \A f \in 1..n + 1 : Credible(flows'[f].client, config[flows'[f].server])
    BY <1>1, <1>3, <1>4, <1>5 DEF FlowsFit
  <2>2. \A t \in Server : pending'[t] > 0 => flows'[pending'[t]].server = t
    BY <1>0, <1>3, <1>4, <1>5 DEF FlowsFit, LoginTyped
  <2> QED
    BY <1>0, <1>4, <1>5, <2>1, <2>2 DEF FlowsFit
<1>8. Login!FlowIsReachable'
  BY <1>0, <1>4, <1>5 DEF Login!FlowIsReachable, LoginTyped
<1> QED
  BY <1>0, <1>6, <1>7, <1>8 DEF HandFits, Login!CodesStayHome, Login!LoginIsRenewable,
     Login!ClientIsWhole, Login!NotAsked

(* An answer comes, or none in time.                                         *)
LEMMA LoginHears ==
  ASSUME InstanceAssumption, LoginInv, NEW f \in listening,
         NEW a \in Login!Answer, a.kind # "none", Login!Hear(f, a)
  PROVE  LoginInv'
<1> USE DEF LoginInv
<1>0. /\ answer' = IF Login!Waited(f) THEN [answer EXCEPT ![f] = a] ELSE answer
      /\ listening' = listening \ {f} /\ asked' = Login!NotAsked
      /\ UNCHANGED <<config, flows, pending, late, hand, creds, grants>>
  BY DEF Login!Hear, Login!NothingAsked
<1>1. f \in Login!Flow
  BY LoginIs DEF LoginTyped
<1>2. LoginTyped'
  BY <1>0, <1>1 DEF LoginTyped
<1>3. Login!FlowIsReachable'
  BY <1>0, <1>1 DEF Login!FlowIsReachable, Login!Waited, LoginTyped
<1> QED
  BY <1>0, <1>2, <1>3 DEF FlowsFit, HandFits, Login!CodesStayHome, Login!LoginIsRenewable,
     Login!ClientIsWhole, Login!NotAsked

Requested(by, s, k, f, code, old) == Login!Ask(by, s, k, f, code, old, TRUE)

(* A request for tokens: what is stored stays renewable, and what is to be   *)
(* stored is the newest grant.                                               *)
LEMMA LoginAsks ==
  ASSUME InstanceAssumption, LoginInv, hand.grant = 0, creds' = creds,
         NEW by, NEW s \in Server, NEW k, NEW f, NEW code, NEW old \in Nat,
         Requested(by, s, k, f, code, old)
  PROVE  /\ grants' \in Seq(AGrant)
         /\ creds' \in [Server -> [access : 0..Len(grants'), refresh : 0..Len(grants')]]
         /\ HandFits' /\ Login!LoginIsRenewable'
         /\ asked' = [by |-> by, flow |-> f, code |-> code, server |-> s, client |-> k]
<1> USE DEF LoginInv
<1>0. asked' = [by |-> by, flow |-> f, code |-> code, server |-> s, client |-> k]
  BY DEF Requested, Login!Ask
<1>1. CASE UNCHANGED <<grants, hand>>
  BY <1>0, <1>1 DEF HandFits, Login!LoginIsRenewable, LoginTyped
<1>2. CASE ~UNCHANGED <<grants, hand>>
  <2>1. PICK renewable \in BOOLEAN :
          /\ grants' = Append(grants, [plain |-> k.as = "configured" /\ k.method = "none",
                                       renewable |-> renewable,
                                       old |-> IF renewable THEN old ELSE 0])
          /\ hand' = [grant |-> Len(grants'), server |-> s,
                      left |-> Login!WriteOrder(renewable)]
    BY <1>2 DEF Requested, Login!Ask
  <2>2. PICK e : e = [plain |-> k.as = "configured" /\ k.method = "none",
                      renewable |-> renewable, old |-> IF renewable THEN old ELSE 0]
    OBVIOUS
  <2>3. e \in AGrant /\ e.renewable = renewable /\ grants' = Append(grants, e)
    BY <2>1, <2>2 DEF AGrant
  <2>4. /\ grants' \in Seq(AGrant) /\ Len(grants') = Len(grants) + 1
        /\ grants'[Len(grants) + 1] = e /\ \A g \in 1..Len(grants) : grants'[g] = grants[g]
    <3>1. grants \in Seq(AGrant)
      BY DEF LoginTyped
    <3> QED
      BY ONLY <2>3, <3>1
  <2>5. PICK n \in Nat : n = Len(grants)
    BY LoginIs
  <2>6. creds' \in [Server -> [access : 0..Len(grants'), refresh : 0..Len(grants')]]
    <3>1. [access : 0..n, refresh : 0..n] \subseteq [access : 0..n + 1, refresh : 0..n + 1]
      OBVIOUS
    <3>2. creds \in [Server -> [access : 0..n, refresh : 0..n]]
      BY <2>5 DEF LoginTyped
    <3> QED
      BY <2>4, <2>5, <3>1, <3>2
  <2>7. HandFits'
    BY <2>1, <2>3, <2>4, <2>5 DEF HandFits, Login!WriteOrder
  <2>8. Login!LoginIsRenewable'
    <3> SUFFICES ASSUME NEW t \in Server, creds[t].access > 0,
                        grants'[creds[t].access].renewable
                 PROVE  creds[t].refresh >= creds[t].access
      BY DEF Login!LoginIsRenewable
    <3>1. creds[t].access \in 1..n
      BY <2>5 DEF LoginTyped
    <3> QED
      BY <2>4, <2>5, <3>1 DEF Login!LoginIsRenewable
  <2> QED
    BY <1>0, <2>4, <2>6, <2>7, <2>8
<1> QED
  BY <1>1, <1>2

LEMMA LoginFinishes ==
  ASSUME InstanceAssumption, LoginInv, NEW s \in Server, Login!Finish(s)
  PROVE  LoginInv'
<1>1. PICK f : f = pending[s]
  OBVIOUS
<1>2. PICK k : k = flows[f].client
  OBVIOUS
<1>3. /\ hand.grant = 0 /\ f > 0 /\ f \notin listening \ late
      /\ pending' = [pending EXCEPT ![s] = 0]
      /\ answer' = [answer EXCEPT ![f] = Login!NoAnswer]
      /\ UNCHANGED <<config, flows, listening, late, creds>>
      /\ \/ /\ Login!AnswerFits(f) /\ Login!CanAsk(k)
            /\ Requested("code", s, k, f, answer[f].state, 0)
         \/ asked' = Login!NotAsked /\ UNCHANGED <<grants, hand>>
  BY ZenonT(30), <1>1, <1>2 DEF LoginInv, Login!Finish, Login!Idle, Login!NothingAsked,
     Requested
<1>4. f \in 1..Len(flows) /\ f \in Login!Flow /\ flows[f].server = s
  BY <1>1, <1>3, LoginIs DEF LoginInv, LoginTyped, FlowsFit
<1>5. Login!NoAnswer \in Login!Answer
  BY LoginIs DEF LoginInv, Login!NoAnswer, Login!Answer
<1>6. FlowsFit'
  BY <1>3 DEF LoginInv, FlowsFit, LoginTyped
<1>7. Login!FlowIsReachable'
  <2>1. \A t \in Server : t # s /\ pending[t] > 0 => pending[t] # f
    BY <1>4 DEF LoginInv, FlowsFit
  <2>2. \A g \in listening : (\E t \in Server : pending'[t] = g) \/ g \in late'
    <3> SUFFICES ASSUME NEW g \in listening, g \notin late
                 PROVE  \E t \in Server : pending'[t] = g
      BY <1>3
    <3>1. PICK t \in Server : pending[t] = g
      BY DEF LoginInv, Login!FlowIsReachable
    <3>2. t # s
      BY <1>1, <1>3, <3>1
    <3> QED
      BY <1>3, <3>1, <3>2 DEF LoginInv, LoginTyped
  <2>3. \A t \in Server : pending'[t] > 0 =>
          pending'[t] \in listening' \/ answer'[pending'[t]].kind # "none"
    <3> SUFFICES ASSUME NEW t \in Server, pending'[t] > 0
                 PROVE  pending'[t] \in listening' \/ answer'[pending'[t]].kind # "none"
      OBVIOUS
    <3>1. t # s /\ pending'[t] = pending[t]
      BY <1>3 DEF LoginInv, LoginTyped
    <3>2. pending[t] # f
      BY <2>1, <3>1
    <3> QED
      BY <1>3, <3>1, <3>2 DEF LoginInv, Login!FlowIsReachable, LoginTyped
  <2> QED
    BY <1>3, <2>2, <2>3 DEF LoginInv, Login!FlowIsReachable
<1>8. pending' \in [Server -> 0..Len(flows)] /\ answer' \in [Login!Flow -> Login!Answer]
  BY <1>3, <1>4, <1>5 DEF LoginInv, LoginTyped
<1>9. CASE /\ Login!AnswerFits(f) /\ Login!CanAsk(k)
           /\ Requested("code", s, k, f, answer[f].state, 0)
  <2>0. PICK z \in Nat : z = 0
    OBVIOUS
  <2>c. PICK code : code = answer[f].state
    OBVIOUS
  <2>a. /\ creds' = creds /\ hand.grant = 0 /\ s \in Server
        /\ Requested("code", s, k, f, code, z)
    BY <1>3, <1>9, <2>0, <2>c
  <2>b. /\ grants' \in Seq(AGrant)
        /\ creds' \in [Server -> [access : 0..Len(grants'), refresh : 0..Len(grants')]]
        /\ HandFits' /\ Login!LoginIsRenewable'
        /\ asked' = [by |-> "code", flow |-> f, code |-> code, server |-> s, client |-> k]
    BY ONLY InstanceAssumption, LoginInv, <2>0, <2>a, LoginAsks
  <2>1. /\ grants' \in Seq(AGrant)
        /\ creds' \in [Server -> [access : 0..Len(grants'), refresh : 0..Len(grants')]]
        /\ HandFits' /\ Login!LoginIsRenewable'
        /\ asked' = [by |-> "code", flow |-> f, code |-> answer[f].state, server |-> s,
                     client |-> k]
    BY <2>b, <2>c
  <2>2. answer[f].state = f
    BY <1>9 DEF LoginInv, Login!AnswerFits
  <2>3. Credible(k, config[s]) /\ Login!CanAsk(k)
    BY <1>2, <1>4, <1>9 DEF LoginInv, FlowsFit
  <2>4. Login!ClientIsWhole'
    BY <1>3, <2>1, <2>3 DEF LoginInv, Credible, Login!CanAsk, Login!ClientIsWhole
  <2> QED
    BY <1>3, <1>6, <1>7, <1>8, <2>1, <2>2, <2>4 DEF LoginInv, LoginTyped, Login!CodesStayHome
<1>10. CASE asked' = Login!NotAsked /\ UNCHANGED <<grants, hand>>
  BY <1>3, <1>6, <1>7, <1>8, <1>10 DEF LoginInv, LoginTyped, HandFits, Login!CodesStayHome,
     Login!LoginIsRenewable, Login!ClientIsWhole, Login!NotAsked
<1> QED
  BY <1>3, <1>9, <1>10

(* Tokens without a flow.                                                    *)
LEMMA LoginRenews ==
  ASSUME InstanceAssumption, LoginInv, NEW s \in Server,
         \/ Login!Refresh(s) \/ Login!ClientCredentials(s) \/ Login!CrossAppAccess(s)
  PROVE  LoginInv'
<1>1. /\ hand.grant = 0
      /\ UNCHANGED <<config, flows, pending, listening, answer, late, creds>>
  BY DEF LoginInv, Login!Refresh, Login!ClientCredentials, Login!CrossAppAccess, Login!AskDirectly,
     Login!Idle
<1>2. ASSUME NEW by, NEW k, NEW old \in Nat,
             Requested(by, s, k, 0, 0, old),
             by = "refresh" \/ (Credible(k, config[s]) /\ Login!CanAsk(k))
      PROVE  LoginInv'
  <2>0. PICK z : z = 0
    OBVIOUS
  <2>a. creds' = creds /\ hand.grant = 0 /\ Requested(by, s, k, z, z, old)
    BY <1>1, <1>2, <2>0
  <2>b. /\ grants' \in Seq(AGrant)
        /\ creds' \in [Server -> [access : 0..Len(grants'), refresh : 0..Len(grants')]]
        /\ HandFits' /\ Login!LoginIsRenewable'
        /\ asked' = [by |-> by, flow |-> z, code |-> z, server |-> s, client |-> k]
    BY ONLY InstanceAssumption, LoginInv, <1>2, <2>a, LoginAsks, s \in Server
  <2>1. /\ grants' \in Seq(AGrant)
        /\ creds' \in [Server -> [access : 0..Len(grants'), refresh : 0..Len(grants')]]
        /\ HandFits' /\ Login!LoginIsRenewable'
        /\ asked' = [by |-> by, flow |-> 0, code |-> 0, server |-> s, client |-> k]
    BY <2>0, <2>b
  <2>2. Login!ClientIsWhole'
    BY <1>1, <1>2, <2>1 DEF LoginInv, Credible, Login!CanAsk, Login!ClientIsWhole
  <2> QED
    BY <1>1, <2>1, <2>2
    DEF LoginInv, LoginTyped, FlowsFit, Login!CodesStayHome, Login!FlowIsReachable
<1>3. CASE Login!Refresh(s)
  <2>1. creds[s].refresh \in Nat
    BY LoginIs DEF LoginInv, LoginTyped
  <2>2. Requested("refresh", s, Login!RefreshClient, 0, 0, creds[s].refresh)
    BY <1>3 DEF LoginInv, Login!Refresh, Requested, Login!Ask
  <2> QED
    BY <1>2, <2>1, <2>2
<1>4. ASSUME NEW by, NEW methods, Login!AskDirectly(by, s, methods) PROVE LoginInv'
  <2>1. PICK reply \in Offers :
          \E m \in Login!Discover(config[s], reply) :
            \E k \in Login!ResolveClient(config[s], m) :
              Login!CanAsk(k) /\ Requested(by, s, k, 0, 0, 0)
    BY <1>4 DEF Login!AskDirectly, Requested
  <2>2. PICK m \in Login!Discover(config[s], reply) :
          \E k \in Login!ResolveClient(config[s], m) :
            Login!CanAsk(k) /\ Requested(by, s, k, 0, 0, 0)
    BY <2>1
  <2>3. PICK k \in Login!ResolveClient(config[s], m) :
          Login!CanAsk(k) /\ Requested(by, s, k, 0, 0, 0)
    BY <2>2
  <2>4. Credible(k, config[s])
    BY ClientIsCredible
  <2> QED
    BY <1>2, <2>3, <2>4
<1> QED
  BY <1>3, <1>4 DEF LoginInv, Login!ClientCredentials, Login!CrossAppAccess

LEMMA LoginStores ==
  ASSUME InstanceAssumption, LoginInv, Login!StoreTokens
  PROVE  LoginInv'
<1> USE DEF LoginInv
<1>1. /\ hand.grant # 0 /\ asked' = Login!NotAsked
      /\ UNCHANGED <<config, flows, pending, listening, answer, late, grants>>
      /\ \/ /\ creds' = [creds EXCEPT ![hand.server][Head(hand.left)] = hand.grant]
            /\ hand' = IF Tail(hand.left) = <<>> THEN Login!NoHand
                       ELSE [hand EXCEPT !.left = Tail(hand.left)]
         \/ UNCHANGED creds /\ hand' = Login!NoHand
  BY DEF Login!StoreTokens, Login!Idle, Login!NothingAsked
<1>2. Login!NoHand.grant = 0
  BY DEF Login!NoHand
<1>3. ASSUME LoginTyped', HandFits', Login!LoginIsRenewable' PROVE LoginInv'
  BY <1>1, <1>3 DEF FlowsFit, Login!CodesStayHome, Login!ClientIsWhole, Login!NotAsked,
     Login!FlowIsReachable
<1>4. CASE UNCHANGED creds /\ hand' = Login!NoHand
  BY <1>1, <1>2, <1>3, <1>4 DEF LoginTyped, HandFits, Login!LoginIsRenewable
<1>5. CASE ~(UNCHANGED creds /\ hand' = Login!NoHand)
  <2>1. PICK n \in Nat : n = Len(grants) /\ hand.grant = n /\ n > 0
    BY <1>1, LoginIs DEF HandFits
  <2>2. PICK s \in Server : s = hand.server
    BY <1>1 DEF HandFits
  <2>3. creds \in [Server -> [access : 0..n, refresh : 0..n]]
    BY <2>1 DEF LoginTyped
  <2>4. CASE hand.left = <<"refresh", "access">>
    <3>1. Head(hand.left) = "refresh" /\ Tail(hand.left) = <<"access">> /\ <<"access">> # <<>>
      BY ONLY <2>4
    <3>2. /\ creds' = [creds EXCEPT ![s] = [creds[s] EXCEPT !.refresh = n]]
          /\ hand' = [hand EXCEPT !.left = <<"access">>]
      BY <1>1, <1>5, <2>1, <2>2, <3>1
    <3>3. /\ creds'[s].refresh = n /\ creds'[s].access = creds[s].access
          /\ \A t \in Server : t # s => creds'[t] = creds[t]
      BY <2>3, <3>2
    <3>4. LoginTyped'
      <4>1. creds' \in [Server -> [access : 0..n, refresh : 0..n]]
        BY <2>1, <2>3, <3>2
      <4> QED
        BY <1>1, <2>1, <4>1 DEF LoginTyped
    <3>5. HandFits'
      BY <1>1, <2>1, <2>2, <3>2, <3>3 DEF HandFits
    <3>6. Login!LoginIsRenewable'
      BY <1>1, <2>3, <3>3 DEF Login!LoginIsRenewable
    <3> QED
      BY <1>3, <3>4, <3>5, <3>6
  <2>5. CASE hand.left = <<"access">>
    <3>1. Head(hand.left) = "access" /\ Tail(hand.left) = <<>>
      BY ONLY <2>5
    <3>2. creds' = [creds EXCEPT ![s] = [creds[s] EXCEPT !.access = n]] /\ hand' = Login!NoHand
      BY <1>1, <1>5, <2>1, <2>2, <3>1
    <3>3. /\ creds'[s].access = n /\ creds'[s].refresh = creds[s].refresh
          /\ \A t \in Server : t # s => creds'[t] = creds[t]
      BY <2>3, <3>2
    <3>4. LoginTyped'
      <4>1. creds' \in [Server -> [access : 0..n, refresh : 0..n]]
        BY <2>1, <2>3, <3>2
      <4> QED
        BY <1>1, <2>1, <4>1 DEF LoginTyped
    <3>5. HandFits'
      BY <1>2, <3>2 DEF HandFits
    <3>6. grants[n].renewable => creds[s].refresh = n
      BY <1>1, <2>1, <2>2, <2>5 DEF HandFits
    <3>7. Login!LoginIsRenewable'
      BY <1>1, <2>3, <3>3, <3>6 DEF Login!LoginIsRenewable
    <3> QED
      BY <1>3, <3>4, <3>5, <3>7
  <2> QED
    BY <1>1, <2>4, <2>5 DEF HandFits
<1> QED
  BY <1>4, <1>5

(* The clock of a flow, a command that comes too early, and a death.         *)
LEMMA LoginWaits ==
  ASSUME InstanceAssumption, LoginInv,
         \/ \E f \in Login!Flow : Login!Expires(f)
         \/ \E s \in Server : Login!FinishEarly(s)
         \/ Login!Die
  PROVE  LoginInv'
<1> USE DEF LoginInv
<1>1. /\ asked' = Login!NotAsked /\ UNCHANGED <<config, flows, creds, grants>>
      /\ hand' \in {hand, Login!NoHand}
      /\ \/ late \subseteq late' /\ UNCHANGED <<pending, listening, answer>>
         \/ /\ pending' = [s \in Server |-> 0] /\ listening' = {}
            /\ answer' = [f \in Login!Flow |-> Login!NoAnswer]
  BY DEF Login!Expires, Login!FinishEarly, Login!Early, Login!Die, Login!NothingAsked
<1>2. Login!NoHand.grant = 0 /\ Login!NoAnswer \in Login!Answer
  BY LoginIs DEF Login!NoHand, Login!NoAnswer, Login!Answer
<1>3. LoginTyped'
  <2>1. CASE UNCHANGED <<pending, listening, answer>>
    BY <1>1, <2>1 DEF LoginTyped
  <2>2. CASE /\ pending' = [s \in Server |-> 0] /\ listening' = {}
             /\ answer' = [f \in Login!Flow |-> Login!NoAnswer]
    <3>1. 0 \in 0..Len(flows)
      BY LoginIs
    <3> QED
      BY <1>1, <1>2, <2>2, <3>1 DEF LoginTyped
  <2> QED
    BY <1>1, <2>1, <2>2
<1>4. FlowsFit' /\ Login!FlowIsReachable'
  BY <1>1, LoginIs DEF FlowsFit, Login!FlowIsReachable
<1> QED
  BY <1>1, <1>2, <1>3, <1>4 DEF HandFits, Login!CodesStayHome, Login!LoginIsRenewable,
     Login!ClientIsWhole, Login!NotAsked

LEMMA LoginStep == InstanceAssumption /\ Login!Next => (LoginInv => LoginInv')
<1> SUFFICES ASSUME InstanceAssumption, Login!Next, LoginInv PROVE LoginInv'
  OBVIOUS
<1>0. Login!Error \in Login!Answer /\ Login!Error.kind # "none"
  BY LoginIs DEF Login!Error, Login!Answer
<1>1. ASSUME NEW f \in Login!Flow, NEW g \in Login!Flow, Login!Callback(f, g)
      PROVE  LoginInv'
  <2>1. PICK a \in {r \in Login!Answer : r.kind = "code" /\ r.state = f} \union {Login!Error} :
          g \in listening /\ Login!Hear(g, a)
    BY <1>1 DEF Login!Callback
  <2>2. a \in Login!Answer /\ a.kind # "none"
    BY <1>0
  <2> QED
    BY <2>1, <2>2, LoginHears
<1>2. ASSUME NEW f \in Login!Flow, Login!ListenerTimesOut(f) PROVE LoginInv'
  BY <1>0, <1>2, LoginHears DEF Login!ListenerTimesOut
<1> QED
  BY <1>1, <1>2, LoginStarts, LoginFinishes, LoginRenews, LoginStores, LoginWaits
     DEF Login!Next

LEMMA LoginShow ==
  LoginInv => /\ Login!CodesStayHome /\ Login!LoginIsRenewable
              /\ Login!FlowIsReachable /\ Login!ClientIsWhole
BY DEF LoginInv

-----------------------------------------------------------------------------
(* The handles on the database: what module StoreWorkerProofs proves of any. *)
Workers == INSTANCE StoreWorkerProofs WITH
  Call <- Order, NoCall <- NoOrder, Latest <- SchemaVersion,
  draft <- planned, stage <- thread, hand <- working

LEMMA WorkersBegin == InstanceAssumption /\ Handles!Init => Workers!IInv
<1>1. InstanceAssumption => Workers!StoreAssumption
  BY DEF InstanceAssumption, Handles!StoreAssumption, Workers!StoreAssumption
<1>2. Handles!Init => Workers!Init
  BY DEF Handles!Init, Workers!Init, Handles!Whole, Workers!Whole,
    Handles!Version, Workers!Version
<1> QED
  BY <1>1, <1>2, Workers!Starts

(* Both instances are of one module, so their steps are the same.           *)
LEMMA WorkersStep == Handles!Next => Workers!Next
BY DEF Handles!Next, Workers!Next,
  Handles!Open, Workers!Open, Handles!ReadVersion, Workers!ReadVersion,
  Handles!Begin, Workers!Begin, Handles!Statement, Workers!Statement,
  Handles!CreateTables, Workers!CreateTables,
  Handles!RecordMigration, Workers!RecordMigration,
  Handles!MarkAtOnce, Workers!MarkAtOnce, Handles!Mark, Workers!Mark,
  Handles!Commit, Workers!Commit, Handles!RolledBack, Workers!RolledBack,
  Handles!OpenFails, Workers!OpenFails, Handles!Ready, Workers!Ready,
  Handles!Send, Workers!Send, Handles!SendFails, Workers!SendFails,
  Handles!Take, Workers!Take, Handles!Execute, Workers!Execute,
  Handles!Answer, Workers!Answer, Handles!Receive, Workers!Receive,
  Handles!Close, Workers!Close, Handles!Held, Workers!Held,
  Handles!Range, Workers!Range, Handles!Whole, Workers!Whole,
  Handles!Version, Workers!Version,
  Handles!HungUpInHand, Workers!HungUpInHand, Handles!HungUp, Workers!HungUp,
  Handles!Panic, Workers!Panic, Handles!Kill, Workers!Kill,
  Handles!InTransaction, Workers!InTransaction,
  Handles!migration, Workers!migration, Handles!calls, Workers!calls

LEMMA WorkersKeepOn ==
  ASSUME InstanceAssumption, Workers!IInv, Handles!Next \/ UNCHANGED handleVars
  PROVE  Workers!IInv'
<1>1. Workers!StoreAssumption
  BY DEF InstanceAssumption, Handles!StoreAssumption, Workers!StoreAssumption
<1>2. UNCHANGED handleVars => UNCHANGED Workers!vars
  BY DEF handleVars, Workers!vars, Workers!migration, Workers!calls
<1>3. [Workers!Next]_(Workers!vars)
  BY <1>2, WorkersStep
<1> QED
  BY <1>1, <1>3, Workers!WorkersKeep

(* What the invariant says of the file, the handles and the callers.        *)
LEMMA HandlesShow == InstanceAssumption /\ Workers!IInv => HandlesHold
<1>1. InstanceAssumption => Workers!StoreAssumption
  BY DEF InstanceAssumption, Handles!StoreAssumption, Workers!StoreAssumption
<1>2. Workers!SchemaIsWhole => Handles!SchemaIsWhole
  BY DEF Workers!SchemaIsWhole, Handles!SchemaIsWhole, Workers!Whole, Handles!Whole
<1>3. Workers!OpenIsCurrent => Handles!OpenIsCurrent
  BY DEF Workers!OpenIsCurrent, Handles!OpenIsCurrent
<1>4. Workers!AnswersAreTrue => Handles!AnswersAreTrue
  BY DEF Workers!AnswersAreTrue, Handles!AnswersAreTrue
<1>5. Workers!NobodyIsForgotten => Handles!NobodyIsForgotten
  BY DEF Workers!NobodyIsForgotten, Handles!NobodyIsForgotten, Workers!Held, Handles!Held,
    Workers!Range, Handles!Range
<1> QED
  BY <1>1, <1>2, <1>3, <1>4, <1>5, Workers!WorkersShow DEF HandlesHold

-----------------------------------------------------------------------------
(* The parts together.                                                      *)
KeepingInv ==
  /\ StoreInv /\ SeriesInv /\ WindowInv /\ MemoryInv /\ RestoreInv /\ LoginInv
  /\ Workers!IInv

allVars == <<part, vars, contextVars, restoreVars, memoryVars, windowVars, loginVars,
             handleVars>>

(* All parts begin as they should.                                          *)
LEMMA KeepingBegins == AllInit => KeepingInv
BY InstanceAssumption, StoreBegin, SeriesBegin, WindowBegin, MemoryBegin, RestoreBegin,
   LoginBegin, WorkersBegin DEF AllInit, KeepingInv

(* A step of one part leaves the others alone.                              *)
LEMMA KeepingStays == KeepingInv /\ [AllNext]_allVars => KeepingInv'
<1> SUFFICES ASSUME KeepingInv, [AllNext]_allVars PROVE KeepingInv'
  OBVIOUS
<1>1. /\ Next \/ UNCHANGED vars
      /\ Context!Next \/ UNCHANGED contextVars
      /\ Restore!Next \/ UNCHANGED restoreVars
      /\ Memory!Next \/ UNCHANGED memoryVars
      /\ Shown!Next \/ UNCHANGED windowVars
      /\ Login!Next \/ UNCHANGED loginVars
      /\ Handles!Next \/ UNCHANGED handleVars
  BY DEF AllNext, allVars
<1>2. InstanceAssumption
  BY InstanceAssumption
<1>3. StoreInv'
  BY <1>1, StoreStep DEF KeepingInv
<1>4. SeriesInv'
  BY <1>1, <1>2, SeriesStep, SeriesStay DEF KeepingInv
<1>5. RestoreInv'
  BY <1>1, <1>2, RestoreStep, RestoreStay DEF KeepingInv
<1>6. MemoryInv'
  BY <1>1, <1>2, MemoryStep, MemoryStay DEF KeepingInv
<1>7. WindowInv'
  BY <1>1, <1>2, WindowStep, WindowStay DEF KeepingInv
<1>8. LoginInv'
  BY <1>1, <1>2, LoginStep, LoginStay DEF KeepingInv
<1>9. Workers!IInv'
  BY <1>1, <1>2, WorkersKeepOn DEF KeepingInv
<1> QED
  BY <1>3, <1>4, <1>5, <1>6, <1>7, <1>8, <1>9 DEF KeepingInv

(* What the parts keep, in every behaviour of any instance.                 *)
THEOREM KeepingInvariance == AllSpec => []KeepingInv
BY KeepingBegins, KeepingStays, PTL DEF AllSpec, allVars

(* What is kept comes back whole: the model is shown its goal and, of the   *)
(* session, what is required and the newest of the rest; a fork begins with *)
(* the context of its checkpoint; what it is told of former work was        *)
(* compared within one space of vectors, and is of no forgotten record; one *)
(* side of a restore can be had whole after one fault; a server's tokens    *)
(* come from its own flow and client; the file has the schema of one        *)
(* version, and callers of the database are told the truth, once            *)
(* (harness-context, harness-memory, harness-application, harness-mcp,      *)
(* harness-storage-sqlite).                                                 *)
THEOREM KeptWhole == AllSpec => []KeptIsWhole
<1>1. KeepingInv => ContextIsRight
  BY InstanceAssumption, SeriesShow, WindowShow, MemoryShow DEF KeepingInv, ContextIsRight
<1>2. KeepingInv => OneFaultSurvived
  BY RestoreShow DEF KeepingInv, OneFaultSurvived
<1>3. KeepingInv => LoginHolds
  BY LoginShow DEF KeepingInv, LoginHolds
<1>4. KeepingInv => HandlesHold
  BY InstanceAssumption, HandlesShow DEF KeepingInv
<1>5. KeepingInv => KeptIsWhole
  BY <1>1, <1>2, <1>3, <1>4 DEF KeptIsWhole
<1> QED
  BY <1>5, KeepingInvariance, PTL

(* Also among the others, the store recovers exactly what was committed.    *)
THEOREM StoreKept == AllSpec => [](TypeOK /\ RecoveryIsExact)
<1>1. KeepingInv => TypeOK /\ RecoveryIsExact
  BY DEF KeepingInv, StoreInv
<1> QED
  BY <1>1, KeepingInvariance, PTL
=============================================================================
