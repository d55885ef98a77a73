------------------------- MODULE StoreWorkerProofs --------------------------
(***************************************************************************)
(* What is proved of the handles on the database, for any handles, calls,  *)
(* processes and versions: the schema is whole after every step, whoever   *)
(* migrates and dies, and callers are told the truth.                      *)
(*                                                                         *)
(* The invariant has two halves.  Migrated relates the file to what the    *)
(* thread inside a transaction has done so far and to what each thread     *)
(* goes by; Kept says where each call is: in one queue, once, or in one    *)
(* hand, or answered.                                                      *)
(***************************************************************************)
EXTENDS StoreWorker, SequenceTheorems, TLAPS

Opened == {"checking", "serving", "dead"} \cup InTransaction

(* What the transaction of thread s has made of the schema so far: tables  *)
(* and history reach to the version it makes, once they are written.       *)
Reach(tables, recorded, version) ==
  /\ draft.tables = 1..tables
  /\ draft.recorded = 1..recorded
  /\ draft.version = version

Drafted(s) ==
  /\ stage[s] = "creating" => draft = schema
  /\ stage[s] \in {"recording", "marking", "committing"} => seen[s] = schema.version
  /\ stage[s] = "recording" => Reach(seen[s] + 1, seen[s], seen[s])
  /\ stage[s] = "marking" => Reach(seen[s] + 1, seen[s] + 1, seen[s])
  /\ stage[s] = "committing" => Reach(seen[s] + 1, seen[s] + 1, seen[s] + 1)

(* What a thread goes by is at most the version of the file, and that one  *)
(* if the file is of a later program.                                      *)
GoesBy(s) ==
  /\ stage[s] \in Opened =>
       /\ seen[s] <= schema.version
       /\ schema.version > Latest => seen[s] = schema.version
  /\ stage[s] \in InTransaction => writer = s /\ seen[s] < Latest
  /\ stage[s] \in {"serving", "dead"} => seen[s] = Latest
  /\ handle[s] = "open" <=> stage[s] \in {"serving", "dead"}
  /\ handle[s] = "closed" <=> stage[s] = "off"

Migrated ==
  /\ SchemaIsWhole
  /\ \A s \in Store : Drafted(s) /\ GoesBy(s)
  /\ writer # NoStore => stage[writer] \in InTransaction

(* A call in a queue or in a hand.                                          *)
Pending(k, s) ==
  /\ told[k] = "waiting" /\ via[k] = s /\ slot[k] = "empty"
  /\ stage[s] = "serving"

Queued(s) ==
  \A i \in 1..Len(queue[s]) :
    /\ Pending(queue[s][i], s)
    /\ done[queue[s][i]] = 0
    /\ queue[s][i] # hand[s]
    /\ \A j \in 1..Len(queue[s]) : queue[s][i] = queue[s][j] => i = j

InHand(s) ==
  /\ hand[s] # NoCall =>
       /\ Pending(hand[s], s)
       /\ done[hand[s]] = IF result[s] = "ok" THEN 1 ELSE 0
  /\ hand[s] = NoCall => result[s] = "none"

(* Where the call is, for a caller that waits, and what its channel says.   *)
Placed(k) ==
  told[k] = "waiting" =>
    /\ via[k] \in Store
    /\ \/ slot[k] # "empty"
       \/ hand[via[k]] = k
       \/ \E i \in 1..Len(queue[via[k]]) : queue[via[k]][i] = k

Truthful(k) ==
  /\ done[k] \in {0, 1}
  /\ told[k] \in {"new", "closed"} => slot[k] = "empty" /\ done[k] = 0
  /\ told[k] = "ok" => slot[k] = "ok"
  /\ told[k] = "refused" => slot[k] = "refused"
  /\ slot[k] = "ok" => done[k] = 1
  /\ slot[k] = "refused" => done[k] = 0

Kept ==
  /\ \A s \in Store : Queued(s) /\ InHand(s)
  /\ \A k \in Call : Placed(k) /\ Truthful(k)

IInv == TypeOK /\ Migrated /\ Kept

-----------------------------------------------------------------------------
(* A database of any version, handles closed and calls not made yet.        *)
LEMMA Starts == StoreAssumption /\ Init => IInv
<1> SUFFICES ASSUME StoreAssumption, Init PROVE IInv
  OBVIOUS
<1> USE DEF StoreAssumption
<1>1. PICK v \in Version : schema = Whole(v)
  BY DEF Init
<1>2. v \in Nat /\ v <= Latest + 1 /\ 1..v \subseteq Version
  BY <1>1 DEF Version
<1>3. schema \in Schema /\ draft = schema /\ schema.version = v
  BY <1>1, <1>2 DEF Init, Schema, Whole
<1>4. TypeOK
  BY <1>3 DEF Init, TypeOK, Stage, Version
<1>5. Migrated
  BY <1>1, <1>3 DEF Init, Migrated, SchemaIsWhole, Drafted, GoesBy, InTransaction, Opened
<1>6. Kept
  BY DEF Init, Kept, Queued, InHand, Placed, Truthful
<1> QED
  BY <1>4, <1>5, <1>6 DEF IInv

(* Every step stays within the types.                                       *)
LEMMA TypeKeeps == StoreAssumption /\ TypeOK /\ Migrated /\ [Next]_vars => TypeOK'
<1> SUFFICES ASSUME StoreAssumption, TypeOK, Migrated, [Next]_vars PROVE TypeOK'
  OBVIOUS
<1> USE DEF StoreAssumption, TypeOK, migration, calls
<1>1. ASSUME NEW s \in Store, Open(s) PROVE TypeOK'
  BY <1>1 DEF Open, Stage
<1>2. ASSUME NEW s \in Store, ReadVersion(s) PROVE TypeOK'
  BY <1>2 DEF ReadVersion, Schema, Version, Stage
<1>3. ASSUME NEW s \in Store, Begin(s) PROVE TypeOK'
  BY <1>3 DEF Begin, InTransaction, Stage
<1>4. ASSUME NEW s \in Store, CreateTables(s) PROVE TypeOK'
  <2>1. stage[s] \in InTransaction /\ seen[s] < Latest
    BY <1>4 DEF CreateTables, Statement, InTransaction, Migrated, GoesBy
  <2>2. seen[s] + 1 \in Version
    BY <2>1 DEF Version
  <2>3. draft' \in Schema
    BY <1>4, <2>2 DEF CreateTables, Schema
  <2> QED
    BY <1>4, <2>3 DEF CreateTables, Statement, Stage, InTransaction
<1>5. ASSUME NEW s \in Store, RecordMigration(s) PROVE TypeOK'
  <2>1. stage[s] \in InTransaction /\ seen[s] < Latest
    BY <1>5 DEF RecordMigration, Statement, InTransaction, Migrated, GoesBy
  <2>2. seen[s] + 1 \in Version
    BY <2>1 DEF Version
  <2>3. draft' \in Schema
    BY <1>5, <2>2 DEF RecordMigration, Schema
  <2> QED
    BY <1>5, <2>3 DEF RecordMigration, Statement, Stage, InTransaction
<1>6. ASSUME NEW s \in Store, Mark(s) PROVE TypeOK'
  <2>1. stage[s] \in InTransaction /\ seen[s] < Latest
    BY <1>6 DEF Mark, Statement, InTransaction, Migrated, GoesBy
  <2>2. seen[s] + 1 \in Version
    BY <2>1 DEF Version
  <2>3. draft' \in Schema
    BY <1>6, <2>2 DEF Mark, Schema
  <2> QED
    BY <1>6, <2>3 DEF Mark, Statement, Stage, InTransaction
<1>7. ASSUME NEW s \in Store, Commit(s) PROVE TypeOK'
  <2>1. seen[s] < Latest
    BY <1>7 DEF Commit, InTransaction, Migrated, GoesBy
  <2>2. seen[s] + 1 \in Version
    BY <2>1 DEF Version
  <2> QED
    BY <1>7, <2>2 DEF Commit, Stage
<1>8. ASSUME NEW s \in Store, OpenFails(s) PROVE TypeOK'
  BY <1>8 DEF OpenFails, RolledBack, Stage
<1>9. ASSUME NEW s \in Store, Ready(s) PROVE TypeOK'
  BY <1>9 DEF Ready, Stage
<1>10. ASSUME NEW s \in Store, Take(s) PROVE TypeOK'
  BY <1>10 DEF Take
<1>11. ASSUME NEW s \in Store, Execute(s) PROVE TypeOK'
  <2>1. hand[s] \in Call /\ done[hand[s]] + 1 \in Nat
    BY <1>11 DEF Execute
  <2>2. done' = [done EXCEPT ![hand[s]] = @ + 1] \/ done' = done
    BY <1>11 DEF Execute
  <2>3. done' \in [Call -> Nat]
    <3>1. done \in [Call -> Nat]
      OBVIOUS
    <3> HIDE DEF TypeOK, migration, calls
    <3> QED
      BY <2>1, <2>2, <3>1
  <2>4. result' \in [Store -> {"none", "ok", "refused"}]
    BY <1>11 DEF Execute
  <2> QED
    BY <1>11, <2>3, <2>4 DEF Execute
<1>12. ASSUME NEW s \in Store, Answer(s) PROVE TypeOK'
  BY <1>12 DEF Answer
<1>13. ASSUME NEW s \in Store, Close(s) PROVE TypeOK'
  BY <1>13 DEF Close, Stage
<1>14. ASSUME NEW s \in Store, Panic(s) PROVE TypeOK'
  BY <1>14 DEF Panic, Stage
<1>15. ASSUME NEW k \in Call, NEW s \in Store, Send(k, s) \/ SendFails(k, s) PROVE TypeOK'
  <2>1. Append(queue[s], k) \in Seq(Call)
    OBVIOUS
  <2>2. CASE Send(k, s)
    BY <2>1, <2>2 DEF Send
  <2>3. CASE SendFails(k, s)
    BY <2>3 DEF SendFails
  <2> QED
    BY <1>15, <2>2, <2>3
<1>16. ASSUME NEW k \in Call, Receive(k) PROVE TypeOK'
  BY <1>16 DEF Receive
<1>17. ASSUME NEW p \in Process, Kill(p) PROVE TypeOK'
  BY <1>17 DEF Kill, Stage
<1>18. CASE UNCHANGED vars
  BY <1>18 DEF vars
<1> QED
  BY <1>1, <1>2, <1>3, <1>4, <1>5, <1>6, <1>7, <1>8, <1>9, <1>10, <1>11, <1>12, <1>13,
     <1>14, <1>15, <1>16, <1>17, <1>18 DEF Next

-----------------------------------------------------------------------------
(* A step that moves no thread of a migration, nor the file, keeps what     *)
(* relates them.                                                            *)
LEMMA MigratedStays ==
  ASSUME TypeOK, Migrated, migration' = migration, stage' = stage, handle' = handle
  PROVE  Migrated'
BY DEF Migrated, SchemaIsWhole, Drafted, Reach, GoesBy, migration

LEMMA MigratedKeeps == StoreAssumption /\ TypeOK /\ Migrated /\ [Next]_vars => Migrated'
<1> SUFFICES ASSUME StoreAssumption, TypeOK, Migrated, [Next]_vars PROVE Migrated'
  OBVIOUS
<1> USE DEF StoreAssumption
<1>a. /\ schema \in Schema /\ stage \in [Store -> Stage] /\ seen \in [Store -> Version]
      /\ handle \in [Store -> {"closed", "waiting", "open"}]
      /\ writer \in Store \cup {NoStore} /\ schema.version \in Version
  BY DEF TypeOK, Schema
<1> USE DEF Migrated, SchemaIsWhole, GoesBy, InTransaction, Opened
<1>1. ASSUME NEW s \in Store, Open(s) PROVE Migrated'
  BY <1>a, <1>1 DEF Open, Drafted, Reach, migration
<1>2. ASSUME NEW s \in Store, ReadVersion(s) PROVE Migrated'
  BY <1>a, <1>2 DEF ReadVersion, Drafted, Reach, migration, Version
<1>3. ASSUME NEW s \in Store, Begin(s) PROVE Migrated'
  BY <1>a, <1>3 DEF Begin, Drafted, migration, Whole
<1>4. ASSUME NEW s \in Store, CreateTables(s) PROVE Migrated'
  <2>0. \A t \in Store \ {s} : stage[t] \notin InTransaction
    BY <1>4 DEF CreateTables, Statement
  <2>1. stage[s] = "creating" /\ draft = schema /\ schema = Whole(schema.version)
    BY <1>4 DEF CreateTables, Statement, Drafted
  <2>2. seen[s] \in Nat /\ schema.version \in Nat /\ seen[s] <= schema.version
    BY <1>a, <2>1 DEF Version
  <2>a. schema.tables = 1..schema.version /\ schema.recorded = 1..schema.version
    BY <2>1 DEF Whole
  <2>3. seen[s] + 1 \notin 1..schema.version
    BY <1>4, <2>1, <2>a DEF CreateTables
  <2>4. seen[s] = schema.version
    BY <2>2, <2>3
  <2>5. 1..seen[s] \cup {seen[s] + 1} = 1..(seen[s] + 1)
    BY <2>2
  <2>6. Reach(seen[s] + 1, seen[s], seen[s])'
    BY <1>a, <1>4, <2>1, <2>a, <2>4, <2>5 DEF CreateTables, Statement, Reach, Schema
  <2> QED
    BY <1>a, <1>4, <2>0, <2>1, <2>4, <2>6 DEF CreateTables, Statement, Drafted, Reach
<1>5. ASSUME NEW s \in Store, RecordMigration(s) PROVE Migrated'
  <2>0. \A t \in Store \ {s} : stage[t] \notin InTransaction
    BY <1>5 DEF RecordMigration, Statement
  <2>1. stage[s] = "recording" /\ seen[s] = schema.version
    BY <1>5 DEF RecordMigration, Statement, Drafted
  <2>2. Reach(seen[s] + 1, seen[s], seen[s]) /\ draft \in Schema
    BY <1>5 DEF RecordMigration, Statement, Drafted, TypeOK
  <2>3. 1..seen[s] \cup {seen[s] + 1} = 1..(seen[s] + 1)
    BY <1>a DEF Version
  <2>4. Reach(seen[s] + 1, seen[s] + 1, seen[s])'
    BY <1>5, <2>2, <2>3 DEF RecordMigration, Statement, Reach, Schema
  <2> QED
    BY <1>a, <1>5, <2>0, <2>1, <2>4 DEF RecordMigration, Statement, Drafted, Reach
<1>6. ASSUME NEW s \in Store, Mark(s) PROVE Migrated'
  <2>0. \A t \in Store \ {s} : stage[t] \notin InTransaction
    BY <1>6 DEF Mark, Statement
  <2>1. stage[s] = "marking" /\ seen[s] = schema.version
    BY <1>6 DEF Mark, Statement, Drafted
  <2>2. Reach(seen[s] + 1, seen[s] + 1, seen[s]) /\ draft \in Schema
    BY <1>6 DEF Mark, Statement, Drafted, TypeOK
  <2>3. Reach(seen[s] + 1, seen[s] + 1, seen[s] + 1)'
    BY <1>6, <2>2 DEF Mark, Statement, Reach, Schema
  <2> QED
    BY <1>a, <1>6, <2>0, <2>1, <2>3 DEF Mark, Statement, Drafted, Reach
<1>7. ASSUME NEW s \in Store, Commit(s) PROVE Migrated'
  <2>0. \A t \in Store \ {s} : stage[t] \notin InTransaction
    BY <1>7 DEF Commit
  <2>1. stage[s] = "committing" /\ seen[s] = schema.version /\ seen[s] < Latest
    BY <1>7 DEF Commit, Drafted
  <2>a. draft \in Schema /\ Reach(seen[s] + 1, seen[s] + 1, seen[s] + 1)
    BY <1>7 DEF Commit, Drafted, TypeOK
  <2>b. draft = Whole(seen[s] + 1)
    BY <2>a DEF Schema, Reach, Whole
  <2>2. schema' = Whole(seen[s] + 1) /\ schema'.version = seen[s] + 1
    BY <1>7, <2>b DEF Commit, Whole
  <2>3. \A t \in Store : seen[t] \in Nat
    BY <1>a DEF Version
  <2>4. schema'.version <= Latest /\ schema' = Whole(schema'.version)
    BY <2>1, <2>2, <2>3
  <2>5. ASSUME NEW t \in Store \ {s} PROVE Drafted(t)' /\ GoesBy(t)'
    BY <1>a, <1>7, <2>0, <2>1, <2>2, <2>3, <2>4, <2>5 DEF Commit, Drafted
  <2>6. Drafted(s)' /\ GoesBy(s)'
    BY <1>a, <1>7, <2>1, <2>2, <2>3, <2>4 DEF Commit, Drafted
  <2> QED
    BY <1>7, <2>4, <2>5, <2>6 DEF Commit
<1>8. ASSUME NEW s \in Store, OpenFails(s) PROVE Migrated'
  BY <1>a, <1>8 DEF OpenFails, Drafted, Reach, migration, RolledBack
<1>9. ASSUME NEW s \in Store, Ready(s) PROVE Migrated'
  BY <1>a, <1>9 DEF Ready, Drafted, Reach, migration
<1>10. ASSUME NEW s \in Store, Take(s) PROVE Migrated'
  BY <1>10, MigratedStays DEF Take
<1>11. ASSUME NEW s \in Store, Execute(s) PROVE Migrated'
  BY <1>11, MigratedStays DEF Execute
<1>12. ASSUME NEW s \in Store, Answer(s) PROVE Migrated'
  BY <1>12, MigratedStays DEF Answer
<1>13. ASSUME NEW s \in Store, Close(s) PROVE Migrated'
  BY <1>a, <1>13 DEF Close, Drafted, Reach, migration
<1>14. ASSUME NEW s \in Store, Panic(s) PROVE Migrated'
  BY <1>a, <1>14 DEF Panic, Drafted, Reach, migration
<1>15. ASSUME NEW k \in Call, NEW s \in Store, Send(k, s) \/ SendFails(k, s)
       PROVE  Migrated'
  BY <1>15, MigratedStays DEF Send, SendFails
<1>16. ASSUME NEW k \in Call, Receive(k) PROVE Migrated'
  BY <1>16, MigratedStays DEF Receive
<1>17. ASSUME NEW p \in Process, Kill(p) PROVE Migrated'
  BY <1>a, <1>17 DEF Kill, Drafted, Reach
<1>18. CASE UNCHANGED vars
  BY <1>18, MigratedStays DEF vars
<1> QED
  BY <1>1, <1>2, <1>3, <1>4, <1>5, <1>6, <1>7, <1>8, <1>9, <1>10, <1>11, <1>12, <1>13,
     <1>14, <1>15, <1>16, <1>17, <1>18 DEF Next

-----------------------------------------------------------------------------
(* The first of a queue and the others.                                     *)
LEMMA HeadAndTail ==
  ASSUME NEW S, NEW q \in Seq(S), q # <<>>
  PROVE  /\ Len(q) \in Nat \ {0} /\ Head(q) = q[1] /\ Tail(q) \in Seq(S)
         /\ Len(Tail(q)) = Len(q) - 1
         /\ \A i \in 1..(Len(q) - 1) : Tail(q)[i] = q[i + 1]
OBVIOUS

(* A step that moves no call and stops no thread that serves keeps every    *)
(* call in its place.                                                       *)
LEMMA KeptStays ==
  ASSUME TypeOK, Kept, calls' = calls,
         \A s \in Store : stage[s] = "serving" => stage'[s] = "serving"
  PROVE  Kept'
BY DEF Kept, Queued, InHand, Pending, Placed, Truthful, calls

LEMMA KeptKeeps == StoreAssumption /\ TypeOK /\ Migrated /\ Kept /\ [Next]_vars => Kept'
<1> SUFFICES ASSUME StoreAssumption, TypeOK, Migrated, Kept, [Next]_vars PROVE Kept'
  OBVIOUS
<1> USE DEF StoreAssumption
<1>a. /\ stage \in [Store -> Stage]
      /\ queue \in [Store -> Seq(Call)] /\ hand \in [Store -> Call \cup {NoCall}]
      /\ result \in [Store -> {"none", "ok", "refused"}]
      /\ via \in [Call -> Store \cup {NoStore}]
      /\ slot \in [Call -> {"empty", "ok", "refused", "gone"}]
      /\ told \in [Call -> {"new", "waiting", "ok", "refused", "closed", "lost"}]
      /\ done \in [Call -> Nat]
  BY DEF TypeOK
<1>b. /\ \A s \in Store : Queued(s) /\ InHand(s)
      /\ \A k \in Call : Placed(k) /\ Truthful(k)
  BY DEF Kept
<1>c. \A s \in Store : \A i \in 1..Len(queue[s]) : queue[s][i] \in Call
  BY <1>a
<1>1. ASSUME NEW s \in Store, Open(s) PROVE Kept'
  <2>1. stage[s] = "off" /\ calls' = calls
    BY <1>1 DEF Open, Migrated, GoesBy
  <2> QED
    BY <1>a, <1>1, <2>1, KeptStays DEF Open
<1>2. ASSUME NEW s \in Store, ReadVersion(s) PROVE Kept'
  BY <1>a, <1>2, KeptStays DEF ReadVersion
<1>3. ASSUME NEW s \in Store, Begin(s) PROVE Kept'
  BY <1>a, <1>3, KeptStays DEF Begin
<1>4. ASSUME NEW s \in Store, CreateTables(s) PROVE Kept'
  BY <1>a, <1>4, KeptStays DEF CreateTables, Statement
<1>5. ASSUME NEW s \in Store, RecordMigration(s) PROVE Kept'
  BY <1>a, <1>5, KeptStays DEF RecordMigration, Statement
<1>6. ASSUME NEW s \in Store, Mark(s) PROVE Kept'
  BY <1>a, <1>6, KeptStays DEF Mark, Statement
<1>7. ASSUME NEW s \in Store, Commit(s) PROVE Kept'
  BY <1>a, <1>7, KeptStays DEF Commit
<1>8. ASSUME NEW s \in Store, OpenFails(s) PROVE Kept'
  BY <1>a, <1>8, KeptStays DEF OpenFails, InTransaction
<1>9. ASSUME NEW s \in Store, Ready(s) PROVE Kept'
  BY <1>a, <1>9, KeptStays DEF Ready
<1>10. ASSUME NEW s \in Store, Take(s) PROVE Kept'
  <2>0. PICK q \in Seq(Call) : q = queue[s]
    BY <1>a
  <2>1. /\ q \in Seq(Call) /\ q # <<>> /\ hand[s] = NoCall /\ stage[s] = "serving"
    BY <2>0, <1>10 DEF Take
  <2>2. /\ Len(q) \in Nat \ {0} /\ Head(q) = q[1] /\ Tail(q) \in Seq(Call)
        /\ Len(Tail(q)) = Len(q) - 1
        /\ \A i \in 1..(Len(q) - 1) : Tail(q)[i] = q[i + 1]
    BY <2>1, HeadAndTail
  <2>3. /\ hand' = [hand EXCEPT ![s] = q[1]]
        /\ queue' = [queue EXCEPT ![s] = Tail(q)]
        /\ UNCHANGED <<stage, result, via, slot, told, done>>
    BY <2>0, <1>10, <2>2 DEF Take
  <2>4. q[1] \in Call /\ Pending(q[1], s) /\ done[q[1]] = 0 /\ result[s] = "none"
    BY <2>0, <1>b, <1>c, <2>1, <2>2 DEF Queued, InHand
  <2>a. /\ queue'[s] = Tail(q) /\ hand'[s] = q[1]
    BY <2>0, <1>a, <2>3
  <2>b. /\ \A i \in 1..Len(q) : Pending(q[i], s) /\ done[q[i]] = 0
        /\ \A i, j \in 1..Len(q) : q[i] = q[j] => i = j
    BY <1>b, <2>0 DEF Queued
  <2>c. ASSUME NEW i \in 1..(Len(q) - 1)
        PROVE  /\ Pending(Tail(q)[i], s)' /\ done'[Tail(q)[i]] = 0
               /\ Tail(q)[i] # q[1]
               /\ \A j \in 1..(Len(q) - 1) : Tail(q)[i] = Tail(q)[j] => i = j
    <3>1. i + 1 \in 1..Len(q) /\ 1 \in 1..Len(q) /\ i + 1 # 1
      BY <2>2
    <3>2. \A j \in 1..(Len(q) - 1) : j + 1 \in 1..Len(q) /\ Tail(q)[j] = q[j + 1]
      BY <2>2
    <3>3. Pending(Tail(q)[i], s)' /\ done'[Tail(q)[i]] = 0
      BY <2>3, <2>b, <3>1, <3>2 DEF Pending
    <3>4. Tail(q)[i] # q[1]
      BY <2>b, <3>1, <3>2
    <3>5. \A j \in 1..(Len(q) - 1) : Tail(q)[i] = Tail(q)[j] => i + 1 = j + 1
      BY <2>b, <3>1, <3>2
    <3> QED
      BY <3>3, <3>4, <3>5
  <2>5. Queued(s)'
    BY <2>2, <2>a, <2>c DEF Queued
  <2>6. InHand(s)'
    BY <2>0, <1>a, <2>3, <2>4 DEF InHand, Pending
  <2>7. ASSUME NEW t \in Store \ {s} PROVE Queued(t)' /\ InHand(t)'
    BY <2>0, <1>a, <1>b, <2>3, <2>7 DEF Queued, InHand, Pending
  <2>8. ASSUME NEW k \in Call PROVE Placed(k)'
    <3>0. Placed(k) /\ UNCHANGED <<told, via, slot>>
      BY <1>b, <2>3
    <3>1. ASSUME told[k] = "waiting", via[k] = s, slot[k] = "empty", k # q[1]
          PROVE  \E i \in 1..Len(queue'[s]) : queue'[s][i] = k
      <4>1. hand[s] # k
        BY <2>1, <1>a
      <4>2. PICK i \in 1..Len(q) : q[i] = k
        BY <2>0, <3>0, <3>1, <4>1 DEF Placed
      <4>3. i - 1 \in 1..(Len(q) - 1) /\ Tail(q)[i - 1] = k
        BY <2>2, <3>1, <4>2
      <4> QED
        BY <2>a, <2>2, <4>3
    <3>2. CASE told[k] # "waiting" \/ slot[k] # "empty"
      BY <3>0, <3>2 DEF Placed
    <3>3. CASE told[k] = "waiting" /\ slot[k] = "empty" /\ via[k] = s
      BY <2>a, <3>0, <3>1, <3>3 DEF Placed
    <3>4. CASE told[k] = "waiting" /\ slot[k] = "empty" /\ via[k] # s
      <4>1. via[k] \in Store
        BY <3>0, <3>4 DEF Placed
      <4>2. hand'[via[k]] = hand[via[k]] /\ queue'[via[k]] = queue[via[k]]
        BY <1>a, <2>3, <3>4, <4>1
      <4> QED
        BY <3>0, <3>4, <4>2 DEF Placed
    <3> QED
      BY <3>2, <3>3, <3>4
  <2>9. ASSUME NEW k \in Call PROVE Truthful(k)'
    BY <2>0, <1>b, <2>3 DEF Truthful
  <2> QED
    BY <2>5, <2>6, <2>7, <2>8, <2>9 DEF Kept
<1>11. ASSUME NEW s \in Store, Execute(s) PROVE Kept'
  <2>1. hand[s] \in Call /\ Pending(hand[s], s) /\ done[hand[s]] = 0
    BY <1>a, <1>b, <1>11 DEF Execute, InHand
  <2>2. UNCHANGED <<stage, queue, hand, via, slot, told>>
    BY <1>11 DEF Execute
  <2>3. \/ /\ done' = [done EXCEPT ![hand[s]] = 1]
           /\ result' = [result EXCEPT ![s] = "ok"]
        \/ /\ result' = [result EXCEPT ![s] = "refused"]
           /\ done' = done
    BY <1>a, <2>1, <1>11 DEF Execute
  <2>a. \A k \in Call : k # hand[s] => done'[k] = done[k]
    BY <1>a, <2>1, <2>3
  <2>b. \A t \in Store : \A i \in 1..Len(queue[t]) : queue[t][i] # hand[s]
    BY <1>b, <1>c, <2>1 DEF Queued, Pending
  <2>4. ASSUME NEW t \in Store PROVE Queued(t)'
    BY <1>b, <1>c, <2>2, <2>a, <2>b DEF Queued, Pending
  <2>5. ASSUME NEW t \in Store PROVE InHand(t)'
    BY <1>a, <1>b, <2>1, <2>2, <2>3 DEF InHand, Pending
  <2>6. ASSUME NEW k \in Call PROVE Placed(k)' /\ Truthful(k)'
    BY <1>a, <1>b, <2>1, <2>2, <2>3 DEF Placed, Truthful, Pending
  <2> QED
    BY <2>4, <2>5, <2>6 DEF Kept
<1>12. ASSUME NEW s \in Store, Answer(s) PROVE Kept'
  <2>1. hand[s] \in Call /\ Pending(hand[s], s)
        /\ done[hand[s]] = IF result[s] = "ok" THEN 1 ELSE 0
    BY <1>a, <1>b, <1>12 DEF Answer, InHand
  <2>2. /\ slot' = [slot EXCEPT ![hand[s]] = result[s]]
        /\ hand' = [hand EXCEPT ![s] = NoCall]
        /\ result' = [result EXCEPT ![s] = "none"] /\ result[s] \in {"ok", "refused"}
        /\ UNCHANGED <<stage, queue, via, told, done>>
    BY <1>a, <1>12 DEF Answer
  <2>3. ASSUME NEW t \in Store PROVE Queued(t)'
    BY <1>a, <1>b, <1>c, <2>1, <2>2 DEF Queued, Pending
  <2>4. ASSUME NEW t \in Store PROVE InHand(t)'
    BY <1>a, <1>b, <2>1, <2>2 DEF InHand, Pending
  <2>5. ASSUME NEW k \in Call PROVE Placed(k)' /\ Truthful(k)'
    BY <1>a, <1>b, <2>1, <2>2 DEF Placed, Truthful, Pending
  <2> QED
    BY <2>3, <2>4, <2>5 DEF Kept
<1>13. ASSUME NEW s \in Store, Close(s) PROVE Kept'
  <2>1. UNCHANGED <<queue, hand, result, via, slot, told, done>>
    BY <1>13 DEF Close, calls
  <2>2. hand[s] = NoCall
    BY <1>a, <1>b, <1>13 DEF Close, InHand, Pending
  <2>3. \A i \in 1..Len(queue[s]) : FALSE
    BY <1>b, <1>c, <1>13 DEF Close, Queued, Pending
  <2>a. Queued(s)' /\ InHand(s)'
    BY <1>b, <2>1, <2>2, <2>3 DEF Queued, InHand
  <2>b. ASSUME NEW t \in Store \ {s} PROVE Queued(t)' /\ InHand(t)'
    <3>1. stage'[t] = stage[t]
      BY <1>a, <1>13 DEF Close
    <3> QED
      BY <1>b, <2>1, <3>1 DEF Queued, InHand, Pending
  <2>4. ASSUME NEW t \in Store PROVE Queued(t)' /\ InHand(t)'
    BY <2>a, <2>b
  <2>5. ASSUME NEW k \in Call PROVE Placed(k)' /\ Truthful(k)'
    BY <1>b, <2>1 DEF Placed, Truthful
  <2> QED
    BY <2>4, <2>5 DEF Kept
<1>14. ASSUME NEW s \in Store, Panic(s) PROVE Kept'
  <2>1. \A k \in Call : k \in HungUp(s) <=>
          hand[s] = k \/ \E i \in 1..Len(queue[s]) : queue[s][i] = k
    BY <1>a, <1>14 DEF Panic, HungUp, Held, Range
  <2>2. /\ stage' = [stage EXCEPT ![s] = "dead"]
        /\ slot' = [k \in Call |-> IF k \in HungUp(s) THEN "gone" ELSE slot[k]]
        /\ queue' = [queue EXCEPT ![s] = <<>>]
        /\ hand' = [hand EXCEPT ![s] = NoCall]
        /\ result' = [result EXCEPT ![s] = "none"]
        /\ UNCHANGED <<via, told, done>>
    BY <1>14 DEF Panic
  <2>3. ASSUME NEW k \in Call, k \in HungUp(s)
        PROVE  told[k] = "waiting" /\ via[k] = s /\ slot[k] = "empty"
    <3>1. Queued(s) /\ InHand(s) /\ k # NoCall
      BY <1>b
    <3>2. CASE hand[s] = k
      BY <3>1, <3>2 DEF InHand, Pending
    <3>3. CASE \E i \in 1..Len(queue[s]) : queue[s][i] = k
      BY <3>1, <3>3 DEF Queued, Pending
    <3> QED
      BY <2>1, <2>3, <3>2, <3>3
  <2>4. Queued(s)' /\ InHand(s)'
    BY <1>a, <2>2 DEF Queued, InHand
  <2>5. ASSUME NEW t \in Store \ {s} PROVE Queued(t)' /\ InHand(t)'
    BY <1>a, <1>b, <1>c, <2>2, <2>3, <2>5 DEF Queued, InHand, Pending
  <2>6. ASSUME NEW k \in Call PROVE Placed(k)' /\ Truthful(k)'
    <3>1. CASE k \in HungUp(s)
      BY <1>b, <2>2, <2>3, <3>1 DEF Placed, Truthful
    <3>2. CASE k \notin HungUp(s)
      <4>1. hand[s] # k /\ \A i \in 1..Len(queue[s]) : queue[s][i] # k
        BY <2>1, <3>2
      <4>2. slot'[k] = slot[k]
        BY <2>2, <3>2
      <4>3. \A t \in Store \ {s} : hand'[t] = hand[t] /\ queue'[t] = queue[t]
        BY <1>a, <2>2
      <4>4. Placed(k) /\ Truthful(k)
        BY <1>b
      <4>5. Truthful(k)'
        BY <2>2, <4>2, <4>4 DEF Truthful
      <4>6. Placed(k)'
        BY <2>2, <4>1, <4>2, <4>3, <4>4 DEF Placed
      <4> QED
        BY <4>5, <4>6
    <3> QED
      BY <3>1, <3>2
  <2> QED
    BY <2>4, <2>5, <2>6 DEF Kept
<1>15. ASSUME NEW k \in Call, NEW s \in Store, Send(k, s) PROVE Kept'
  <2>0. PICK q \in Seq(Call) : q = queue[s]
    BY <1>a
  <2>1. q \in Seq(Call) /\ Len(q) \in Nat /\ Len(Append(q, k)) = Len(q) + 1
    BY <1>a
  <2>2. /\ \A i \in 1..Len(q) : Append(q, k)[i] = q[i]
        /\ Append(q, k)[Len(q) + 1] = k
    BY <1>a
  <2>3. /\ told[k] = "new" /\ stage[s] = "serving"
        /\ told' = [told EXCEPT ![k] = "waiting"]
        /\ via' = [via EXCEPT ![k] = s]
        /\ queue' = [queue EXCEPT ![s] = Append(q, k)]
        /\ UNCHANGED <<stage, hand, result, slot, done>>
    BY <1>15, <2>0 DEF Send
  <2>4. slot[k] = "empty" /\ done[k] = 0
    BY <2>0, <1>b, <2>3 DEF Truthful
  <2>5. \A t \in Store : /\ hand[t] # k
                        /\ \A i \in 1..Len(queue[t]) : queue[t][i] # k
    BY SMTT(30), <2>0, <1>a, <1>b, <2>3 DEF Queued, InHand, Pending
  <2>a. /\ queue'[s] = Append(q, k) /\ hand'[s] = hand[s]
        /\ told'[k] = "waiting" /\ via'[k] = s
        /\ \A j \in Call \ {k} : told'[j] = told[j] /\ via'[j] = via[j]
    BY <2>0, <1>a, <2>3
  <2>b. ASSUME NEW i \in 1..(Len(q) + 1)
        PROVE  /\ Pending(Append(q, k)[i], s)' /\ done'[Append(q, k)[i]] = 0
               /\ Append(q, k)[i] # hand[s]
               /\ \A j \in 1..(Len(q) + 1) : Append(q, k)[i] = Append(q, k)[j] => i = j
    <3>1. \A j \in 1..(Len(q) + 1) : j = Len(q) + 1 \/ j \in 1..Len(q)
      BY <2>1
    <3>2. CASE i = Len(q) + 1
      <4>1. Append(q, k)[i] = k /\ \A j \in 1..Len(q) : Append(q, k)[j] # k
        BY <2>0, <2>2, <2>5, <3>2
      <4>2. Pending(k, s)' /\ done'[k] = 0 /\ k # hand[s]
        BY <2>3, <2>4, <2>5, <2>a DEF Pending
      <4> QED
        BY <3>1, <3>2, <4>1, <4>2
    <3>3. CASE i \in 1..Len(q)
      <4>1. /\ Append(q, k)[i] = q[i] /\ q[i] # k /\ q[i] \in Call
            /\ Pending(q[i], s) /\ done[q[i]] = 0 /\ q[i] # hand[s]
            /\ \A j \in 1..Len(q) : q[i] = q[j] => i = j
        BY <2>0, <1>b, <1>c, <2>2, <2>5, <3>3 DEF Queued
      <4>2. Pending(q[i], s)'
        BY <2>3, <2>a, <4>1 DEF Pending
      <4> QED
        BY <2>2, <2>3, <3>1, <4>1, <4>2
    <3> QED
      BY <3>1, <3>2, <3>3
  <2>6. Queued(s)'
    BY SMTT(30), <2>1, <2>3, <2>a, <2>b DEF Queued
  <2>7. ASSUME NEW t \in Store \ {s} PROVE Queued(t)'
    <3>1. queue'[t] = queue[t] /\ hand'[t] = hand[t] /\ queue[t] \in Seq(Call)
      BY <2>0, <1>a, <1>c, <2>3, <2>7
    <3>2. ASSUME NEW i \in 1..Len(queue[t])
          PROVE  /\ Pending(queue[t][i], t)' /\ done'[queue[t][i]] = 0
                 /\ queue[t][i] # hand[t]
                 /\ \A j \in 1..Len(queue[t]) : queue[t][i] = queue[t][j] => i = j
      <4>1. queue[t][i] \in Call \ {k}
        BY <2>5, <2>7, <3>1, <3>2
      <4>2. Pending(queue[t][i], t) /\ Queued(t)
        BY <1>b, <2>7, <3>2 DEF Queued
      <4> QED
        BY <2>3, <2>a, <2>7, <3>2, <4>1, <4>2 DEF Queued, Pending
    <3> QED
      BY <3>1, <3>2 DEF Queued
  <2>8. ASSUME NEW t \in Store PROVE InHand(t)'
    BY <2>0, <1>a, <1>b, <2>3, <2>5 DEF InHand, Pending
  <2>9. Placed(k)'
    <3>1. queue'[s] = Append(q, k) /\ via'[k] = s /\ s \in Store
      BY <2>0, <2>a
    <3>2. Len(q) + 1 \in 1..Len(queue'[s]) /\ queue'[s][Len(q) + 1] = k
      BY <2>1, <2>2, <3>1
    <3> QED
      BY <3>1, <3>2 DEF Placed
  <2>10. ASSUME NEW j \in Call \ {k} PROVE Placed(j)'
    <3>1. told'[j] = told[j] /\ via'[j] = via[j] /\ slot'[j] = slot[j] /\ hand' = hand
      BY <2>3, <2>a
    <3>2. \A n \in 1..Len(q) : n \in 1..Len(queue'[s]) /\ queue'[s][n] = q[n]
      BY <2>1, <2>2, <2>a
    <3>3. \A u \in Store \ {s} : queue'[u] = queue[u]
      BY <1>a, <2>3
    <3>4. Placed(j)
      BY <1>b
    <3> QED
      BY <2>0, <3>1, <3>2, <3>3, <3>4 DEF Placed
  <2>11. ASSUME NEW j \in Call PROVE Truthful(j)'
    BY <2>0, <1>a, <1>b, <2>3, <2>4 DEF Truthful
  <2> QED
    BY <2>6, <2>7, <2>8, <2>9, <2>10, <2>11 DEF Kept
<1>16. ASSUME NEW k \in Call, NEW s \in Store, SendFails(k, s) PROVE Kept'
  BY <1>a, <1>b, <1>c, <1>16
     DEF SendFails, Kept, Queued, InHand, Pending, Placed, Truthful
<1>17. ASSUME NEW k \in Call, Receive(k) PROVE Kept'
  BY <1>a, <1>b, <1>c, <1>17
     DEF Receive, Kept, Queued, InHand, Pending, Placed, Truthful
<1>18. ASSUME NEW p \in Process, Kill(p) PROVE Kept'
  <2>1. p \subseteq Store
    OBVIOUS
  <2>2. /\ stage' = [s \in Store |-> IF s \in p THEN "off" ELSE stage[s]]
        /\ queue' = [s \in Store |-> IF s \in p THEN <<>> ELSE queue[s]]
        /\ hand' = [s \in Store |-> IF s \in p THEN NoCall ELSE hand[s]]
        /\ result' = [s \in Store |-> IF s \in p THEN "none" ELSE result[s]]
        /\ told' = [k \in Call |->
             IF told[k] = "waiting" /\ via[k] \in p THEN "lost" ELSE told[k]]
        /\ UNCHANGED <<via, slot, done>>
    BY <1>18 DEF Kill
  <2>3. ASSUME NEW s \in p PROVE Queued(s)' /\ InHand(s)'
    BY <2>1, <2>2 DEF Queued, InHand
  <2>4. ASSUME NEW s \in Store \ p PROVE Queued(s)' /\ InHand(s)'
    BY <1>a, <1>b, <1>c, <2>2, <2>4 DEF Queued, InHand, Pending
  <2>5. ASSUME NEW k \in Call PROVE Placed(k)' /\ Truthful(k)'
    BY <1>a, <1>b, <2>2 DEF Placed, Truthful
  <2> QED
    BY <2>3, <2>4, <2>5 DEF Kept
<1>19. CASE UNCHANGED vars
  BY <1>19, KeptStays DEF vars
<1> QED
  BY <1>1, <1>2, <1>3, <1>4, <1>5, <1>6, <1>7, <1>8, <1>9, <1>10, <1>11, <1>12, <1>13,
     <1>14, <1>15, <1>16, <1>17, <1>18, <1>19 DEF Next

-----------------------------------------------------------------------------
(* An open handle works on the schema of this program.                      *)
LEMMA OpenShows == ASSUME StoreAssumption, IInv PROVE OpenIsCurrent
<1> SUFFICES ASSUME NEW s \in Store, handle[s] = "open"
             PROVE  schema.version = Latest
  BY DEF OpenIsCurrent
<1>1. schema.version \in Nat /\ Latest \in Nat
  BY DEF StoreAssumption, IInv, TypeOK, Schema, Version
<1>2. /\ seen[s] = Latest /\ seen[s] <= schema.version
      /\ schema.version > Latest => seen[s] = schema.version
  BY DEF IInv, Migrated, GoesBy, Opened
<1> QED
  BY <1>1, <1>2

(* A call that waits lies with a thread that serves.                        *)
LEMMA NobodyShows == ASSUME StoreAssumption, IInv PROVE NobodyIsForgotten
<1> SUFFICES ASSUME NEW k \in Call, told[k] = "waiting", slot[k] = "empty"
             PROVE  stage[via[k]] = "serving" /\ k \in Held(via[k])
  BY DEF NobodyIsForgotten
<1> DEFINE s == via[k]
<1>1. s \in Store
  BY DEF IInv, Kept, Placed
<1>2. Queued(s) /\ InHand(s) /\ Placed(k) /\ queue[s] \in Seq(Call)
  BY <1>1 DEF IInv, Kept, TypeOK
<1>3. CASE hand[s] = k
  BY <1>2, <1>3 DEF StoreAssumption, InHand, Pending, Held
<1>4. CASE \E i \in 1..Len(queue[s]) : queue[s][i] = k
  BY <1>2, <1>4 DEF Queued, Pending, Held, Range
<1> QED
  BY <1>2, <1>3, <1>4 DEF Placed

(* What the invariant says of the file, the handles and the callers.        *)
LEMMA WorkersShow ==
  StoreAssumption /\ IInv =>
    SchemaIsWhole /\ OpenIsCurrent /\ AnswersAreTrue /\ NobodyIsForgotten
BY OpenShows, NobodyShows DEF IInv, Migrated, Kept, Truthful, AnswersAreTrue

(* Every step keeps the invariant.                                          *)
LEMMA WorkersKeep == StoreAssumption /\ IInv /\ [Next]_vars => IInv'
BY TypeKeeps, MigratedKeeps, KeptKeeps DEF IInv

(* The invariant holds in every reachable state.                            *)
THEOREM Invariance == ASSUME StoreAssumption PROVE Spec => []IInv
<1>1. IInv /\ [Next]_vars => IInv'
  BY WorkersKeep
<1> QED
  BY Starts, <1>1, PTL DEF Spec

(* Every variable of the handles and their threads stays within its type.   *)
THEOREM Types == ASSUME StoreAssumption PROVE Spec => []TypeOK
<1>1. IInv => TypeOK
  BY DEF IInv
<1> QED
  BY Invariance, <1>1, PTL

(* The file has the tables and the history of one version at every moment,  *)
(* whichever threads migrate it and whenever one of them is killed.         *)
THEOREM WholeSchema == ASSUME StoreAssumption PROVE Spec => []SchemaIsWhole
<1>1. IInv => SchemaIsWhole
  BY WorkersShow
<1> QED
  BY Invariance, <1>1, PTL

(* An open handle works on the schema of this program.                      *)
THEOREM Current == ASSUME StoreAssumption PROVE Spec => []OpenIsCurrent
<1>1. IInv => OpenIsCurrent
  BY WorkersShow
<1> QED
  BY Invariance, <1>1, PTL

(* What callers are told of their commands is true, and a command takes     *)
(* effect once.                                                             *)
THEOREM Answers == ASSUME StoreAssumption PROVE Spec => []AnswersAreTrue
<1>1. IInv => AnswersAreTrue
  BY WorkersShow
<1> QED
  BY Invariance, <1>1, PTL

(* No caller waits for an answer that nobody will give.                     *)
THEOREM Remembered == ASSUME StoreAssumption PROVE Spec => []NobodyIsForgotten
<1>1. IInv => NobodyIsForgotten
  BY WorkersShow
<1> QED
  BY Invariance, <1>1, PTL
=============================================================================
