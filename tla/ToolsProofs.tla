---------------------------- MODULE ToolsProofs ----------------------------
(***************************************************************************)
(* Theorems about the tools' instance, for every value of the constants    *)
(* that satisfies its assumption: the consent to a call (ToolApproval);    *)
(* what a session says is what is in force, a change that is refused has   *)
(* changed nothing (SessionSettings), and keys are proven and tasks taken  *)
(* only for a provider that can be used (ProviderSetup, for text and for   *)
(* embeddings alike); where tools come from (ToolServers); and what the    *)
(* user decides (module DecisionProofs).                                   *)
(*                                                                         *)
(* Consent: the operation under way and the journal's entry of its call go *)
(* together (OperationFits), so that a start is in the journal before its  *)
(* effect and its effect before its success (EffectsAreBooked); an open    *)
(* request belongs to a call that waits, and the only call that waits      *)
(* without one is the one being decided (RequestsFit); a grant is taken    *)
(* away with the start it allows (ConsentFits).                            *)
(***************************************************************************)
EXTENDS DecisionProofs

-----------------------------------------------------------------------------
(* The consent to a call.                                                    *)
(* Types, and that a call which waits has asked.                           *)
CallsTyped == TypeOK /\ \A c \in Call : Waiting(c) => round[c] >= 1

OperationFits ==
  /\ op.call = NoCall => op = Idle
  /\ op.call # NoCall =>
       /\ phase = "up"
       /\ \/ op.step = "authorize" /\ status[op.call] \in {"requested", "waiting"}
          \/ op.step = "execute" /\ status[op.call] = "running" /\ op.call \notin touched
          \/ /\ op.step = "record" /\ status[op.call] = "running"
             /\ op.ok => op.call \in touched
  /\ phase = "up" => \A c \in Call : status[c] = "running" => op.call = c
  /\ \A c \in Call : status[c] = "absent" <=> key[c] = NoKey

Undecided == {"absent", "requested", "waiting", "denied"}

EffectsAreBooked ==
  \A c \in Call :
    /\ c \in touched => performed[c] > 0
    /\ status[c] = "completed" => performed[c] > 0
    /\ key[c] \notin Repeatable =>
         /\ performed[c] = IF c \in touched THEN 1 ELSE 0
         /\ status[c] \in Undecided => c \notin touched

RequestsFit ==
  /\ \A r \in Request : request[r] = "pending" => Waiting(r[1]) /\ r = LastRequest(r[1])
  /\ op.call # NoCall /\ op.step = "authorize" /\ Waiting(op.call) =>
       request[LastRequest(op.call)] # "pending"
  /\ phase = "up" => \A c \in Call : Waiting(c) =>
       request[LastRequest(c)] = "pending" \/ c \in stranded \/ op.call = c
  /\ phase # "up" => stranded = {} /\ \A r \in Request : request[r] \in {"none", "pending"}
  /\ phase = "recover" => \A c \in Call : Waiting(c) => request[LastRequest(c)] = "pending"

Once(k) == {t \in grants : t.scope = "once" /\ key[t.call] = k}

ConsentFits ==
  /\ IsFiniteSet(grants)
  /\ \A t \in grants : status[t.call] # "absent"
  /\ \A k \in Key : spent[k] + Cardinality(Once(k)) <= answers[k]

IInv == CallsTyped /\ OperationFits /\ EffectsAreBooked /\ RequestsFit /\ ConsentFits

-----------------------------------------------------------------------------
(* A count of the keys stays one when a number is added to an entry.       *)
LEMMA CountGrows ==
  ASSUME NEW count \in [Key -> Nat], NEW k, NEW n \in Nat
  PROVE  /\ [count EXCEPT ![k] = @ + n] \in [Key -> Nat]
         /\ \A j \in Key : [count EXCEPT ![k] = @ + n][j] = count[j] + (IF j = k THEN n ELSE 0)
<1> DEFINE more == [count EXCEPT ![k] = @ + n]
<1>1. CASE k \in Key
  <2>1. count[k] + n \in Nat
    BY <1>1
  <2>2. more \in [Key -> Nat]
    BY <2>1
  <2>3. \A j \in Key : more[j] = IF j = k THEN count[k] + n ELSE count[j]
    BY <1>1
  <2> QED BY <2>2, <2>3
<1>2. CASE k \notin Key
  <2>1. more = count
    BY <1>2
  <2>2. \A j \in Key : j # k /\ count[j] + 0 = count[j]
    BY <1>2
  <2> QED BY <2>1, <2>2
<1> QED BY <1>1, <1>2

LEMMA TypedInitially == Init => CallsTyped
BY ToolAssumption
DEF Init, CallsTyped, TypeOK, Waiting, Idle, Status, RuleEffect, Mode

(* Every step keeps the types.                                             *)
LEMMA TypedSteps == CallsTyped /\ [Next]_vars => CallsTyped'
<1> SUFFICES ASSUME CallsTyped, [Next]_vars PROVE CallsTyped'
  OBVIOUS
<1> USE ToolAssumption DEF CallsTyped, TypeOK, Waiting, Status, memory, settings, history
<1>1. CASE UNCHANGED vars
  BY <1>1 DEF vars
<1>2. ASSUME NEW c \in Call, NEW k \in Key, Invoke(c, k) PROVE CallsTyped'
  BY <1>2 DEF Invoke, At
<1>3. ASSUME NEW c \in Call, InvokeAgain(c) PROVE CallsTyped'
  BY <1>3 DEF InvokeAgain
<1>4. ASSUME NEW c \in Call, Retry(c) PROVE CallsTyped'
  BY <1>4 DEF Retry, At, Idle
<1>5. ASSUME NEW c \in Call, Refuse(c) PROVE CallsTyped'
  BY <1>5 DEF Refuse, Idle
<1>6. ASSUME NEW c \in Call, StartPermitted(c) PROVE CallsTyped'
  BY <1>6 DEF StartPermitted, Start, At
<1>7. ASSUME NEW c \in Call, Ask(c) PROVE CallsTyped'
  BY <1>7 DEF Ask, Idle, Request
<1>8. ASSUME NEW c \in Call, Record(c) PROVE CallsTyped'
  BY <1>8 DEF Record, Unfinished, Idle
<1>9. ASSUME NEW c \in Call, Deny(c) PROVE CallsTyped'
  BY <1>9 DEF Deny, LastRequest, Request
<1>10. ASSUME NEW c \in Call, Rehydrate(c) PROVE CallsTyped'
  BY <1>10 DEF Rehydrate, LastRequest, Request
<1>11. ASSUME NEW c \in Call, Recover(c) PROVE CallsTyped'
  BY <1>11 DEF Recover, Unfinished
<1>12. ASSUME NEW c \in Call, NEW t \in grants, StartGranted(c, t) PROVE CallsTyped'
  <2>1. grants' \subseteq grants
    BY <1>12 DEF StartGranted
  <2>2. spent' \in [Key -> Nat]
    <3>1. spent' = [spent EXCEPT ![key[c]] = @ + (IF t.scope = "once" THEN 1 ELSE 0)]
      BY <1>12 DEF StartGranted
    <3>2. (IF t.scope = "once" THEN 1 ELSE 0) \in Nat
      OBVIOUS
    <3> QED BY <3>1, <3>2, CountGrows
  <2> QED BY <1>12, <2>1, <2>2 DEF StartGranted, Start, At
<1>13. ASSUME NEW c \in Call, NEW effect \in BOOLEAN, NEW ok \in BOOLEAN,
              Execute(c, effect, ok)
       PROVE  CallsTyped'
  BY <1>13 DEF Execute, At
<1>14. ASSUME NEW c \in Call, NEW s \in Scope, Approve(c, s) PROVE CallsTyped'
  <2>1. request' \in [Request -> {"none", "pending", "allowed", "denied"}]
    BY <1>14 DEF Approve, LastRequest, Request
  <2>2. round[c] \in 1..MaxRound
    BY <1>14 DEF Approve
  <2>3. [call |-> c, round |-> round[c], scope |-> s]
          \in [call : Call, round : 1..MaxRound, scope : Scope]
    BY <2>2
  <2>4. grants' \subseteq [call : Call, round : 1..MaxRound, scope : Scope]
    BY <1>14, <2>3 DEF Approve
  <2>5. answers' \in [Key -> Nat]
    <3>1. answers' = [answers EXCEPT ![key[c]] = @ + (IF s = "once" THEN 1 ELSE 0)]
      BY <1>14 DEF Approve
    <3>2. (IF s = "once" THEN 1 ELSE 0) \in Nat
      OBVIOUS
    <3> QED BY <3>1, <3>2, CountGrows
  <2>6. op' \in [call : Call \cup {NoCall}, step : {"none", "authorize", "execute",
                "record"}, ok : BOOLEAN]
    BY <1>14 DEF Approve, At, Idle
  <2> QED BY <1>14, <2>1, <2>4, <2>5, <2>6 DEF Approve
<1>15. ASSUME NEW k \in Pluggable, Toggle(k) PROVE CallsTyped'
  BY <1>15 DEF Toggle, Edit
<1>16. ASSUME NEW k \in Key, NEW e \in RuleEffect, EditRule(k, e) PROVE CallsTyped'
  BY <1>16 DEF EditRule, Edit
<1>17. ASSUME NEW m \in Modes, SetMode(m) PROVE CallsTyped'
  BY <1>17 DEF SetMode, Edit
<1>18. ASSUME NEW B \in SUBSET Pathlike, Crash(B) PROVE CallsTyped'
  BY <1>18 DEF Crash, Idle
<1>19. CASE Rehydrated \/ Recovered
  BY <1>19 DEF Rehydrated, Recovered
<1> QED
  BY <1>1, <1>2, <1>3, <1>4, <1>5, <1>6, <1>7, <1>8, <1>9, <1>10, <1>11, <1>12, <1>13,
     <1>14, <1>15, <1>16, <1>17, <1>18, <1>19
  DEF Next

-----------------------------------------------------------------------------
LEMMA OperationFitsInitially == Init => OperationFits
BY ToolAssumption DEF Init, OperationFits, Idle

(* The operation under way and the entry of its call go together.          *)
LEMMA OperationSteps == CallsTyped /\ OperationFits /\ [Next]_vars => OperationFits'
<1> SUFFICES ASSUME CallsTyped, OperationFits, [Next]_vars PROVE OperationFits'
  OBVIOUS
<1> USE ToolAssumption
    DEF CallsTyped, TypeOK, OperationFits, Waiting, Status, Ready, Idle, At, settings, memory,
        history
<1>1. CASE UNCHANGED vars
  BY <1>1 DEF vars
<1>2. ASSUME NEW c \in Call, NEW k \in Key, Invoke(c, k) PROVE OperationFits'
  BY <1>2 DEF Invoke
<1>3. ASSUME NEW c \in Call, InvokeAgain(c) PROVE OperationFits'
  BY <1>3 DEF InvokeAgain
<1>4. ASSUME NEW c \in Call, Retry(c) PROVE OperationFits'
  BY <1>4 DEF Retry
<1>5. ASSUME NEW c \in Call, Refuse(c) PROVE OperationFits'
  BY <1>5 DEF Refuse
<1>6. ASSUME NEW c \in Call, Start(c), op = At(c, "authorize") PROVE OperationFits'
  BY <1>6 DEF Start
<1>7. ASSUME NEW c \in Call, Ask(c) PROVE OperationFits'
  BY <1>7 DEF Ask
<1>8. ASSUME NEW c \in Call, Record(c) PROVE OperationFits'
  BY <1>8 DEF Record, Unfinished
<1>9. ASSUME NEW c \in Call, Deny(c) PROVE OperationFits'
  BY <1>9 DEF Deny
<1>10. ASSUME NEW c \in Call, Rehydrate(c) PROVE OperationFits'
  BY <1>10 DEF Rehydrate
<1>11. ASSUME NEW c \in Call, Recover(c) PROVE OperationFits'
  BY <1>11 DEF Recover, Unfinished
<1>13. ASSUME NEW c \in Call, NEW effect \in BOOLEAN, NEW ok \in BOOLEAN,
              Execute(c, effect, ok)
       PROVE  OperationFits'
  BY <1>13 DEF Execute
<1>14. ASSUME NEW c \in Call, NEW s \in Scope, Approve(c, s) PROVE OperationFits'
  BY <1>14 DEF Approve
<1>15. CASE UNCHANGED <<key, status, op, phase, touched>>
  BY <1>15
<1>18. ASSUME NEW B \in SUBSET Pathlike, Crash(B) PROVE OperationFits'
  BY <1>18 DEF Crash
<1>19. CASE Rehydrated \/ Recovered
  BY <1>19 DEF Rehydrated, Recovered
<1> QED
  BY <1>1, <1>2, <1>3, <1>4, <1>5, <1>6, <1>7, <1>8, <1>9, <1>10, <1>11, <1>13, <1>14,
     <1>15, <1>18, <1>19
  DEF Next, StartPermitted, StartGranted, Toggle, EditRule, SetMode, Edit

-----------------------------------------------------------------------------
LEMMA EffectsAreBookedInitially == Init => EffectsAreBooked
BY DEF Init, EffectsAreBooked, Undecided

(* A start is entered before its effect, an effect before its success.     *)
LEMMA EffectSteps ==
  CallsTyped /\ OperationFits /\ EffectsAreBooked /\ [Next]_vars => EffectsAreBooked'
<1> SUFFICES ASSUME CallsTyped, OperationFits, EffectsAreBooked, [Next]_vars
             PROVE  EffectsAreBooked'
  OBVIOUS
<1> USE ToolAssumption
    DEF CallsTyped, TypeOK, OperationFits, EffectsAreBooked, Undecided, Waiting, Status, Ready,
        Idle, At, settings, memory, history
<1>1. CASE UNCHANGED vars
  BY <1>1 DEF vars
<1>2. ASSUME NEW c \in Call, NEW k \in Key, Invoke(c, k) PROVE EffectsAreBooked'
  BY <1>2 DEF Invoke
<1>4. ASSUME NEW c \in Call, Retry(c) PROVE EffectsAreBooked'
  BY <1>4 DEF Retry
<1>5. ASSUME NEW c \in Call, Refuse(c) PROVE EffectsAreBooked'
  BY <1>5 DEF Refuse
<1>6. ASSUME NEW c \in Call, Start(c), op = At(c, "authorize") PROVE EffectsAreBooked'
  BY <1>6 DEF Start
<1>7. ASSUME NEW c \in Call, Ask(c) PROVE EffectsAreBooked'
  BY <1>7 DEF Ask
<1>8. ASSUME NEW c \in Call, Record(c) PROVE EffectsAreBooked'
  BY <1>8 DEF Record, Unfinished
<1>9. ASSUME NEW c \in Call, Deny(c) PROVE EffectsAreBooked'
  BY <1>9 DEF Deny
<1>10. ASSUME NEW c \in Call, Rehydrate(c) PROVE EffectsAreBooked'
  BY <1>10 DEF Rehydrate
<1>11. ASSUME NEW c \in Call, Recover(c) PROVE EffectsAreBooked'
  BY <1>11 DEF Recover, Unfinished
<1>13. ASSUME NEW c \in Call, NEW effect \in BOOLEAN, NEW ok \in BOOLEAN,
              Execute(c, effect, ok)
       PROVE  EffectsAreBooked'
  BY <1>13 DEF Execute
<1>15. CASE UNCHANGED <<key, status, touched, performed>>
  BY <1>15
<1> QED
  BY <1>1, <1>2, <1>4, <1>5, <1>6, <1>7, <1>8, <1>9, <1>10, <1>11, <1>13, <1>15
  DEF Next, StartPermitted, StartGranted, InvokeAgain, Approve, Toggle, EditRule, SetMode,
      Edit, Crash, Rehydrated, Recovered

-----------------------------------------------------------------------------
LEMMA RequestsFitInitially == Init => RequestsFit
BY DEF Init, RequestsFit, Waiting, Idle

(* The open requests are those of the calls that wait.                     *)
LEMMA RequestSteps ==
  CallsTyped /\ OperationFits /\ RequestsFit /\ [Next]_vars => RequestsFit'
<1> SUFFICES ASSUME CallsTyped, OperationFits, RequestsFit, [Next]_vars PROVE RequestsFit'
  OBVIOUS
<1> USE ToolAssumption
    DEF CallsTyped, TypeOK, OperationFits, RequestsFit, Waiting, LastRequest, Request, Status,
        Ready, Idle, At, settings, memory, history
<1>1. CASE UNCHANGED vars
  BY <1>1 DEF vars
<1>2. ASSUME NEW c \in Call, NEW k \in Key, Invoke(c, k) PROVE RequestsFit'
  BY <1>2 DEF Invoke
<1>4. ASSUME NEW c \in Call, Retry(c) PROVE RequestsFit'
  BY <1>4 DEF Retry
<1>5. ASSUME NEW c \in Call, Refuse(c) PROVE RequestsFit'
  BY <1>5 DEF Refuse
<1>6. ASSUME NEW c \in Call, Start(c), op = At(c, "authorize") PROVE RequestsFit'
  BY <1>6 DEF Start
<1>7. ASSUME NEW c \in Call, Ask(c) PROVE RequestsFit'
  BY SMTT(30), <1>7 DEF Ask
<1>8. ASSUME NEW c \in Call, Record(c) PROVE RequestsFit'
  BY <1>8 DEF Record, Unfinished
<1>9. ASSUME NEW c \in Call, Deny(c) PROVE RequestsFit'
  BY <1>9 DEF Deny
<1>10. ASSUME NEW c \in Call, Rehydrate(c) PROVE RequestsFit'
  <2>1. CASE key[c] \in barred
    BY <1>10, <2>1 DEF Rehydrate
  <2>2. CASE key[c] \notin barred
    BY <1>10, <2>2 DEF Rehydrate
  <2> QED BY <2>1, <2>2
<1>11. ASSUME NEW c \in Call, Recover(c) PROVE RequestsFit'
  BY <1>11 DEF Recover, Unfinished
<1>13. ASSUME NEW c \in Call, NEW effect \in BOOLEAN, NEW ok \in BOOLEAN,
              Execute(c, effect, ok)
       PROVE  RequestsFit'
  BY <1>13 DEF Execute
<1>14. ASSUME NEW c \in Call, NEW s \in Scope, Approve(c, s) PROVE RequestsFit'
  BY <1>14 DEF Approve
<1>15. CASE UNCHANGED <<status, round, request, op, phase, stranded>>
  BY <1>15
<1>18. ASSUME NEW B \in SUBSET Pathlike, Crash(B) PROVE RequestsFit'
  BY <1>18 DEF Crash
<1>19. CASE Rehydrated \/ Recovered
  BY <1>19 DEF Rehydrated, Recovered
<1> QED
  BY <1>1, <1>2, <1>4, <1>5, <1>6, <1>7, <1>8, <1>9, <1>10, <1>11, <1>13, <1>14, <1>15,
     <1>18, <1>19
  DEF Next, StartPermitted, StartGranted, InvokeAgain, Toggle, EditRule, SetMode, Edit

-----------------------------------------------------------------------------
(* What is left when grants of one use are taken, added or kept.           *)
LEMMA OnceIsFinite == ASSUME IsFiniteSet(grants), NEW k PROVE IsFiniteSet(Once(k))
BY FS_Subset DEF Once

LEMMA ConsentFitsInitially == Init => ConsentFits
<1> SUFFICES ASSUME Init PROVE ConsentFits
  OBVIOUS
<1>1. \A k \in Key : Once(k) = {}
  BY DEF Init, Once
<1> QED BY <1>1, FS_EmptySet DEF Init, ConsentFits

(* An answer is used up with the start it allows.                          *)
LEMMA ConsentSteps ==
  CallsTyped /\ CallsTyped' /\ OperationFits /\ ConsentFits /\ [Next]_vars => ConsentFits'
<1> SUFFICES ASSUME CallsTyped, CallsTyped', OperationFits, ConsentFits, [Next]_vars
             PROVE  ConsentFits'
  OBVIOUS
<1>1. \A k \in Key : /\ spent[k] \in Nat /\ answers[k] \in Nat
                    /\ Cardinality(Once(k)) \in Nat
  BY OnceIsFinite, FS_CardinalityType DEF CallsTyped, TypeOK, ConsentFits
<1>2. \A t \in grants : t.call \in Call
  BY DEF CallsTyped, TypeOK
<1>3. CASE UNCHANGED <<key, status, grants, spent, answers>>
  BY <1>3 DEF ConsentFits, Once
<1>4. ASSUME UNCHANGED <<grants, spent, answers>>,
             \A t \in grants : /\ status[t.call] # "absent" => status'[t.call] # "absent"
                              /\ key'[t.call] = key[t.call]
      PROVE  ConsentFits'
  <2>1. \A k \in Key : Once(k)' = Once(k)
    BY <1>4 DEF Once
  <2> QED BY <1>4, <2>1 DEF ConsentFits
<1>5. ASSUME NEW c \in Call, NEW k \in Key, Invoke(c, k) PROVE ConsentFits'
  <2>1. \A t \in grants : t.call # c
    BY <1>5 DEF Invoke, ConsentFits
  <2>2. \A t \in grants : status'[t.call] = status[t.call] /\ key'[t.call] = key[t.call]
    BY <1>2, <1>5, <2>1 DEF Invoke, CallsTyped, TypeOK
  <2> QED BY <1>4, <1>5, <2>2 DEF Invoke, memory, history
<1>6. ASSUME NEW c \in Call, NEW t \in grants, StartGranted(c, t) PROVE ConsentFits'
  <2>1. /\ UNCHANGED <<key, answers>> /\ grants' \subseteq grants
        /\ key[t.call] = key[c] /\ status' = [status EXCEPT ![c] = "running"]
    BY <1>6 DEF StartGranted, Start, Covering
  <2>2. IsFiniteSet(grants')
    BY <2>1, FS_Subset DEF ConsentFits
  <2>3. \A x \in grants' : status'[x.call] # "absent"
    BY <1>2, <2>1 DEF ConsentFits, CallsTyped, TypeOK
  <2>4. ASSUME NEW k \in Key
        PROVE  spent'[k] + Cardinality(Once(k)') <= answers'[k]
    <3>1. CASE t.scope = "once" /\ key[c] = k
      <4>1. Once(k)' = Once(k) \ {t} /\ t \in Once(k)
        BY <1>6, <2>1, <3>1 DEF StartGranted, Once
      <4>2. Cardinality(Once(k)') = Cardinality(Once(k)) - 1
        BY <4>1, OnceIsFinite, FS_RemoveElement DEF ConsentFits
      <4>3. spent'[k] = spent[k] + 1
        BY <1>6, <3>1 DEF StartGranted, CallsTyped, TypeOK
      <4> QED BY <1>1, <2>1, <4>2, <4>3 DEF ConsentFits
    <3>2. CASE ~(t.scope = "once" /\ key[c] = k)
      <4>1. Once(k)' = Once(k)
        BY <1>6, <2>1, <3>2 DEF StartGranted, Once
      <4>2. spent'[k] = spent[k]
        <5>1. spent' = [spent EXCEPT ![key[c]] = @ + (IF t.scope = "once" THEN 1 ELSE 0)]
          BY <1>6 DEF StartGranted
        <5> QED BY <1>1, <3>2, <5>1 DEF CallsTyped, TypeOK
      <4> QED BY <2>1, <4>1, <4>2 DEF ConsentFits
    <3> QED BY <3>1, <3>2
  <2> QED BY <2>2, <2>3, <2>4 DEF ConsentFits
<1>7. ASSUME NEW c \in Call, NEW s \in Scope, Approve(c, s) PROVE ConsentFits'
  <2> DEFINE t == [call |-> c, round |-> round[c], scope |-> s]
  <2>1. /\ UNCHANGED <<key, status, spent>> /\ grants' = grants \cup {t}
        /\ status[c] = "waiting"
    BY <1>7 DEF Approve, Waiting
  <2>2. IsFiniteSet(grants')
    BY <2>1, FS_AddElement DEF ConsentFits
  <2>3. \A x \in grants' : status'[x.call] # "absent"
    BY <2>1 DEF ConsentFits
  <2>4. ASSUME NEW k \in Key
        PROVE  spent'[k] + Cardinality(Once(k)') <= answers'[k]
    <3>1. CASE s = "once" /\ key[c] = k
      <4>1. Once(k)' = Once(k) \cup {t}
        BY <2>1, <3>1 DEF Once
      <4>2. Cardinality(Once(k)') <= Cardinality(Once(k)) + 1
        <5>1. IsFiniteSet(Once(k))
          BY OnceIsFinite DEF ConsentFits
        <5>2. CASE t \in Once(k)
          <6>1. Once(k)' = Once(k)
            BY <4>1, <5>2
          <6> QED BY <1>1, <6>1
        <5>3. CASE t \notin Once(k)
          <6>1. Cardinality(Once(k) \cup {t}) = Cardinality(Once(k)) + 1
            BY <5>1, <5>3, FS_AddElement
          <6> QED BY <1>1, <4>1, <6>1
        <5> QED BY <5>2, <5>3
      <4>3. answers'[k] = answers[k] + 1
        BY <1>7, <3>1 DEF Approve, CallsTyped, TypeOK
      <4>4. Cardinality(Once(k)') \in Nat
        BY <4>1, OnceIsFinite, FS_AddElement, FS_CardinalityType DEF ConsentFits
      <4> QED BY <1>1, <2>1, <4>2, <4>3, <4>4 DEF ConsentFits
    <3>2. CASE ~(s = "once" /\ key[c] = k)
      <4>1. Once(k)' = Once(k)
        BY <2>1, <3>2 DEF Once
      <4>2. answers'[k] = answers[k]
        <5>1. answers' = [answers EXCEPT ![key[c]] = @ + (IF s = "once" THEN 1 ELSE 0)]
          BY <1>7 DEF Approve
        <5> QED BY <1>1, <3>2, <5>1 DEF CallsTyped, TypeOK
      <4> QED BY <2>1, <4>1, <4>2 DEF ConsentFits
    <3> QED BY <3>1, <3>2
  <2> QED BY <2>2, <2>3, <2>4 DEF ConsentFits
<1>8. ASSUME NEW B \in SUBSET Pathlike, Crash(B) PROVE ConsentFits'
  <2>1. grants' = {} /\ UNCHANGED <<spent, answers>>
    BY <1>8 DEF Crash
  <2>2. \A k \in Key : Once(k)' = {}
    BY <2>1 DEF Once
  <2> QED BY <1>1, <2>1, <2>2, FS_EmptySet DEF ConsentFits
<1>9. ASSUME NEW c \in Call,
             \/ Retry(c) \/ Refuse(c) \/ StartPermitted(c) \/ Ask(c) \/ Record(c)
             \/ Deny(c) \/ Rehydrate(c) \/ Recover(c)
      PROVE  ConsentFits'
  <2>1. UNCHANGED <<key, grants, spent, answers>>
    BY <1>9
    DEF Retry, Refuse, StartPermitted, Start, Ask, Record, Deny, Rehydrate, Recover, memory,
        history
  <2>2. \A d \in Call : status[d] # "absent" => status'[d] # "absent"
    BY <1>9
    DEF CallsTyped, TypeOK, Retry, Refuse, StartPermitted, Start, Ask, Record, Deny, Rehydrate,
        Recover, Unfinished
  <2> QED BY <1>2, <1>4, <2>1, <2>2
<1>10. ASSUME NEW c \in Call,
              \/ InvokeAgain(c)
              \/ \E effect, ok \in BOOLEAN : Execute(c, effect, ok)
       PROVE  ConsentFits'
  BY <1>3, <1>10 DEF InvokeAgain, Execute, memory, history
<1>11. CASE UNCHANGED vars \/ Rehydrated \/ Recovered
  BY <1>3, <1>11 DEF vars, Rehydrated, Recovered, memory, history
<1>12. CASE \/ \E k \in Pluggable : Toggle(k)
            \/ \E k \in Key, e \in RuleEffect : EditRule(k, e)
            \/ \E m \in Modes : SetMode(m)
  BY <1>3, <1>12 DEF Toggle, EditRule, SetMode, Edit, memory, history
<1> QED BY <1>5, <1>6, <1>7, <1>8, <1>9, <1>10, <1>11, <1>12 DEF Next

-----------------------------------------------------------------------------
LEMMA ConsentBegin == Init => IInv
BY TypedInitially, OperationFitsInitially, EffectsAreBookedInitially,
   RequestsFitInitially, ConsentFitsInitially
DEF IInv

LEMMA ConsentStep == IInv /\ [Next]_vars => IInv'
BY TypedSteps, OperationSteps, EffectSteps, RequestSteps, ConsentSteps DEF IInv

(* The invariant of the module's head.                                     *)
THEOREM Invariance == Spec => []IInv
BY ConsentBegin, ConsentStep, PTL DEF Spec

(* Journal, engine and application stay within their types.                *)
THEOREM Types == Spec => []TypeOK
BY Invariance, PTL DEF IInv, CallsTyped

(* The journal can be believed, whatever the order of calls, answers,      *)
(* retries and restarts: completed has happened, and what may not be       *)
(* repeated has happened at most once and not before it was allowed.       *)
THEOREM JournalIsTrue == Spec => []JournalTellsTruth
<1>1. IInv => JournalTellsTruth
  BY DEF IInv, CallsTyped, TypeOK, EffectsAreBooked, Undecided, JournalTellsTruth
<1> QED BY <1>1, Invariance, PTL

(* The user is asked for exactly the calls that wait for him, and every    *)
(* answer for one use allows one start at most.                            *)
THEOREM Consent == Spec => []ConsentHolds
<1>1. IInv => AskedOfUser
  BY ToolAssumption DEF IInv, CallsTyped, TypeOK, RequestsFit, AskedOfUser, Ready, Idle
<1>2. IInv => ConsentIsConserved
  BY DEF IInv, ConsentFits, Once, ConsentIsConserved
<1> QED BY <1>1, <1>2, Invariance, PTL DEF ConsentHolds

-----------------------------------------------------------------------------
(* The ledger's view of the journal.                                       *)
Fragile == {c \in Call : key[c] \in Key \ Repeatable}
StageOf(s) == CASE s \in {"requested", "waiting"} -> "undecided"
                [] s = "running" -> "started"
                [] OTHER -> s
Staged == [c \in Call |-> StageOf(status[c])]

(* The ledger sees an entry change as the journal does.                    *)
LEMMA StagedEntry ==
  ASSUME CallsTyped, NEW c \in Call, NEW s, status' = [status EXCEPT ![c] = s]
  PROVE  Staged' = [Staged EXCEPT ![c] = StageOf(s)]
BY DEF CallsTyped, TypeOK, Staged

(* Only entering a call changes what must not be repeated.                 *)
LEMMA FragileEntry ==
  ASSUME CallsTyped, NEW c \in Call, NEW k \in Key, key' = [key EXCEPT ![c] = k],
         key[c] = NoKey
  PROVE  Fragile' \in {Fragile, Fragile \cup {c}}
BY ToolAssumption DEF CallsTyped, TypeOK, Fragile

(* Every step of the runtime is a step of the ledger or is not seen there: *)
(* a call is entered, refused, started, touches the world, is settled and  *)
(* reopened as the ledger says.                                            *)
THEOREM Refinement == Spec => ImplementsToolLedger
<1> DEFINE view == <<Fragile, Staged, touched, performed>>
<1>1. Init => Ledger!Init
  <2> SUFFICES ASSUME Init PROVE Ledger!Init
    OBVIOUS
  <2>1. Fragile = {}
    BY ToolAssumption DEF Init, Fragile
  <2>2. Staged = [c \in Call |-> "absent"]
    BY DEF Init, Staged, StageOf
  <2> QED BY <2>1, <2>2 DEF Init, Ledger!Init, Fragile, Staged, StageOf
<1>2. IInv /\ IInv' /\ [Next]_vars => [Ledger!Next]_view
  <2> SUFFICES ASSUME IInv, IInv', [Next]_vars PROVE [Ledger!Next]_view
    OBVIOUS
  <2>1. ASSUME UNCHANGED <<key, status, touched, performed>> PROVE UNCHANGED view
    BY <2>1 DEF Fragile, Staged
  <2>2. ASSUME UNCHANGED key PROVE Fragile' = Fragile
    BY <2>2 DEF Fragile
  <2>3. ASSUME NEW c \in Call, NEW s, status' = [status EXCEPT ![c] = s],
               StageOf(s) = Staged[c], UNCHANGED <<key, touched, performed>>
        PROVE  UNCHANGED view
    BY <2>2, <2>3, StagedEntry DEF IInv, Staged
  <2>4. \A c \in Call : Staged[c] = StageOf(status[c])
    BY DEF Staged
  <2>5. \A c \in Call : c \in Fragile <=> key[c] \in Key \ Repeatable
    BY DEF Fragile
  <2>6. ASSUME NEW c \in Call, NEW k \in Key, Invoke(c, k) PROVE Ledger!Enter(c)
    <3>1. Staged[c] = "absent" /\ key[c] = NoKey
      BY <2>4, <2>6 DEF Invoke, StageOf, IInv, OperationFits
    <3>2. Staged' = [Staged EXCEPT ![c] = "undecided"]
      BY <2>6, StagedEntry DEF Invoke, IInv, StageOf
    <3>3. Fragile' \in {Fragile, Fragile \cup {c}}
      BY <2>6, <3>1, FragileEntry DEF Invoke, IInv
    <3> QED
      BY <2>6, <3>1, <3>2, <3>3
      DEF Invoke, Ledger!Enter, Fragile, Staged, StageOf, history
  <2>7. ASSUME NEW c \in Call, StageOf(status[c]) = "undecided",
               status' = [status EXCEPT ![c] = "denied"],
               UNCHANGED <<key, touched, performed>>
        PROVE  Ledger!Refuse(c)
    <3>1. Staged[c] = "undecided" /\ Staged' = [Staged EXCEPT ![c] = "denied"]
      BY <2>4, <2>7, StagedEntry DEF IInv, StageOf
    <3> QED BY <2>2, <2>7, <3>1 DEF Ledger!Refuse, Fragile, Staged, StageOf
  <2>8. ASSUME NEW c \in Call, op = At(c, "authorize"), Start(c), UNCHANGED key
        PROVE  Ledger!Start(c)
    <3>1. Staged[c] = "undecided"
      BY <2>4, <2>8, ToolAssumption DEF IInv, OperationFits, At, StageOf
    <3>2. Staged' = [Staged EXCEPT ![c] = "started"]
      BY <2>8, StagedEntry DEF Start, IInv, StageOf
    <3> QED BY <2>2, <2>8, <3>1, <3>2 DEF Start, Ledger!Start, Fragile, Staged, StageOf
  <2>9. ASSUME NEW c \in Call, NEW effect \in BOOLEAN, NEW ok \in BOOLEAN,
               Execute(c, effect, ok)
        PROVE  Ledger!Touch(c) \/ UNCHANGED view
    <3>1. status[c] = "running" /\ c \notin touched
      BY <2>9, ToolAssumption DEF Execute, IInv, OperationFits, At
    <3>2. Staged[c] = "started"
      BY <2>4, <3>1 DEF StageOf
    <3>3. UNCHANGED <<key, status>> /\ Staged' = Staged
      BY <2>9 DEF Execute, Staged
    <3>4. CASE effect
      <4>1. touched' = touched \cup {c} /\ performed' = [performed EXCEPT ![c] = @ + 1]
        BY <2>9, <3>4 DEF Execute
      <4> QED
        BY <2>2, <3>1, <3>2, <3>3, <4>1 DEF Ledger!Touch, Fragile, Staged, StageOf
    <3>5. CASE ~effect
      <4>1. touched' = touched /\ performed' = performed
        BY <2>9, <3>5 DEF Execute, IInv, CallsTyped, TypeOK
      <4> QED BY <2>1, <3>3, <4>1
    <3> QED BY <3>4, <3>5
  <2>10. ASSUME NEW c \in Call, status[c] = "running",
                status' = [status EXCEPT ![c] = Unfinished(c)],
                UNCHANGED <<key, touched, performed>>
         PROVE  \E s \in Ledger!Stage : Ledger!Settle(c, s)
    <3>1. Staged[c] = "started" /\ key[c] \in Key
      BY <2>4, <2>10 DEF StageOf, IInv, OperationFits, CallsTyped, TypeOK
    <3>2. PICK s \in {"failed", "uncertain"} : s = Unfinished(c)
      BY DEF Unfinished
    <3>3. Staged' = [Staged EXCEPT ![c] = s]
      BY <2>10, <3>2, StagedEntry DEF IInv, StageOf
    <3>4. \/ s = "failed" /\ c \notin Fragile
          \/ s = "uncertain" /\ c \in Fragile
      <4>1. c \in Fragile <=> key[c] \notin Repeatable
        BY <2>5, <3>1
      <4>2. CASE key[c] \in Repeatable
        BY <3>2, <4>1, <4>2 DEF Unfinished
      <4>3. CASE key[c] \notin Repeatable
        BY <3>2, <4>1, <4>3 DEF Unfinished
      <4> QED BY <4>2, <4>3
    <3>5. Ledger!Settle(c, s)
      BY <2>2, <2>10, <3>1, <3>3, <3>4 DEF Ledger!Settle, Fragile, Staged, StageOf
    <3> QED BY <3>5 DEF Ledger!Stage
  <2>11. ASSUME NEW c \in Call, Record(c) PROVE \E s \in Ledger!Stage : Ledger!Settle(c, s)
    <3>1. status[c] = "running" /\ (op.ok => c \in touched)
      BY <2>11, ToolAssumption DEF Record, IInv, OperationFits
    <3>2. CASE op.ok
      <4>1. status' = [status EXCEPT ![c] = "completed"]
        BY <2>11, <3>2 DEF Record
      <4>2. Staged[c] = "started" /\ Staged' = [Staged EXCEPT ![c] = "completed"]
        BY <2>4, <3>1, <4>1, StagedEntry DEF IInv, StageOf
      <4>3. Ledger!Settle(c, "completed")
        BY <2>2, <2>11, <3>1, <3>2, <4>2
        DEF Record, Ledger!Settle, Fragile, Staged, StageOf, history
      <4> QED BY <4>3 DEF Ledger!Stage
    <3>3. CASE ~op.ok
      BY <2>10, <2>11, <3>1, <3>3 DEF Record, history
    <3> QED BY <3>2, <3>3
  <2>12. ASSUME NEW c \in Call, Recover(c) PROVE \E s \in Ledger!Stage : Ledger!Settle(c, s)
    BY <2>10, <2>12 DEF Recover, history
  <2>13. ASSUME NEW c \in Call, Retry(c) PROVE Ledger!Reopen(c)
    <3>1. Staged[c] = "failed" /\ Staged' = [Staged EXCEPT ![c] = "undecided"]
      BY <2>4, <2>13, StagedEntry DEF Retry, IInv, StageOf
    <3> QED
      BY <2>2, <2>13, <3>1 DEF Retry, Ledger!Reopen, Fragile, Staged, StageOf, history
  <2>14. ASSUME NEW c \in Call, Refuse(c) PROVE Ledger!Refuse(c)
    <3>1. StageOf(status[c]) = "undecided"
      BY <2>14, ToolAssumption DEF Refuse, IInv, OperationFits, At, StageOf
    <3> QED BY <2>7, <2>14, <3>1 DEF Refuse, history
  <2>15. ASSUME NEW c \in Call, Deny(c) PROVE Ledger!Refuse(c)
    BY <2>7, <2>15 DEF Deny, Waiting, StageOf, history
  <2>16. ASSUME NEW c \in Call, Rehydrate(c) PROVE Ledger!Refuse(c) \/ UNCHANGED view
    <3>1. CASE key[c] \in barred
      BY <2>7, <2>16, <3>1 DEF Rehydrate, Waiting, StageOf, history
    <3>2. CASE key[c] \notin barred
      BY <2>1, <2>16, <3>2 DEF Rehydrate, history
    <3> QED BY <3>1, <3>2
  <2>17. ASSUME NEW c \in Call, Ask(c) PROVE UNCHANGED view
    <3>1. StageOf(status[c]) = "undecided"
      BY <2>17, ToolAssumption DEF Ask, IInv, OperationFits, At, StageOf
    <3> QED BY <2>3, <2>4, <2>17, <3>1 DEF Ask, StageOf, history
  <2>18. ASSUME NEW c \in Call, InvokeAgain(c) \/ \E s \in Scope : Approve(c, s)
         PROVE  UNCHANGED view
    BY <2>1, <2>18 DEF InvokeAgain, Approve, history
  <2>19. CASE \/ UNCHANGED vars \/ Rehydrated \/ Recovered
              \/ \E k \in Pluggable : Toggle(k)
              \/ \E k \in Key, e \in RuleEffect : EditRule(k, e)
              \/ \E m \in Modes : SetMode(m)
              \/ \E B \in SUBSET Pathlike : Crash(B)
    BY <2>1, <2>19
    DEF vars, Rehydrated, Recovered, Toggle, EditRule, SetMode, Edit, Crash, history
  <2>20. ASSUME NEW c \in Call, StartPermitted(c) \/ \E t \in grants : StartGranted(c, t)
         PROVE  Ledger!Start(c)
    BY <2>8, <2>20 DEF StartPermitted, StartGranted, Start
  <2> HIDE DEF view
  <2> QED
    BY <2>6, <2>9, <2>11, <2>12, <2>13, <2>14, <2>15, <2>16, <2>17, <2>18, <2>19, <2>20
    DEF Next, Ledger!Next
<1> QED
  BY <1>1, <1>2, Invariance, PTL
  DEF Spec, ImplementsToolLedger, Ledger!LedgerSpec, Ledger!ledgerVars, Fragile, Staged,
      StageOf

-----------------------------------------------------------------------------
(* The settings of the sessions.                                             *)

AnyValue == {"on", "off", "manual", "full", Fallback, NoModel, Unset}
AnyLayer == [Settings!SettingKey -> AnyValue]

(* The shapes of what the commands read and write.                           *)
SettingsTyped ==
  /\ boot \in {"down", "ready", "copying", "seeding"}
  /\ saved \in [Session -> [made : BOOLEAN, settings : AnyLayer,
                            model : Model \cup {Placeholder, NoModel}]]
  /\ current \in Session
  /\ own \in AnyLayer /\ runtime \in AnyLayer
  /\ registry \subseteq Model \cup {Placeholder}
  /\ selected \in Model \cup {Placeholder}
  /\ copies \in Seq(Settings!SettingKey \X AnyValue)
  /\ refused \in BOOLEAN /\ missed \in Nat

(* A session that was not made has nothing; a program that is down has no   *)
(* command to refuse.                                                       *)
NothingEarly ==
  /\ \A s \in Session : ~saved[s].made => saved[s].settings = Settings!NoLayer
  /\ boot = "down" => ~refused
  /\ boot \in {"copying", "seeding"} => copies # <<>> /\ saved[current].made

(* While a new session is seeded, what it still lacks is yet to be copied,   *)
(* and that is what its layer says already.                                  *)
Seeded ==
  boot = "seeding" =>
    /\ \A k \in Settings!SettingKey :
         \/ own[k] = saved[current].settings[k]
         \/ \E i \in 1..Len(copies) : copies[i][1] = k
    /\ \A i \in 1..Len(copies) : copies[i][2] = own[copies[i][1]]

(* What is in force is right from the first moment on in which the program   *)
(* runs, also within the commands that take several steps.                   *)
Forced ==
  boot # "down" =>
    /\ boot # "seeding" => own = saved[current].settings
    /\ "policy" \notin adrift =>
         policy = Settings!PolicyOf(Settings!Effective(own, runtime))
    /\ missed = 0 =>
         /\ route = Settings!RouteOf(Settings!Effective(own, runtime))
         /\ saved[current].made
    /\ selected \in registry
    /\ "model" \notin adrift => selected = saved[current].model

SettingsInv == SettingsTyped /\ NothingEarly /\ Seeded /\ Forced

(* The settings are the three of the code.                                   *)
LEMMA KeysAre == Settings!SettingKey = {"enabled", "targets", "permission"}
  BY DEF Settings!SettingKey, Settings!KeyOrder, Settings!ToSet

(* A layer in which one key is said otherwise is a layer.                    *)
LEMMA LayerExcept ==
  ASSUME NEW layer \in AnyLayer, NEW k, NEW v \in AnyValue
  PROVE  [layer EXCEPT ![k] = v] \in AnyLayer
  BY DEF AnyLayer

(* A layer that says nothing.                                                *)
LEMMA NoLayerTyped == Settings!NoLayer \in AnyLayer
  BY DEF AnyLayer, AnyValue, Settings!NoLayer

(* What a new session inherits.                                              *)
LEMMA InheritedTyped ==
  ASSUME NEW layer \in AnyLayer
  PROVE  Settings!Inherited(layer) \in AnyLayer
  BY KeysAre DEF AnyLayer, AnyValue, Settings!Inherited

(* What a layer says of one setting: nothing, or one pair.                   *)
LEMMA CopyIs ==
  ASSUME NEW layer \in AnyLayer, NEW k \in Settings!SettingKey
  PROVE  /\ Settings!Copy(layer, k) \in Seq(Settings!SettingKey \X AnyValue)
         /\ Len(Settings!Copy(layer, k)) = IF layer[k] = Unset THEN 0 ELSE 1
         /\ layer[k] # Unset => Settings!Copy(layer, k)[1] = <<k, layer[k]>>
  <1>1. <<k, layer[k]>> \in Settings!SettingKey \X AnyValue
    BY DEF AnyLayer
  <1>2. CASE layer[k] = Unset
    BY <1>2 DEF Settings!Copy
  <1>3. CASE layer[k] # Unset
    BY <1>1, <1>3 DEF Settings!Copy
  <1>4. QED
    BY <1>2, <1>3

(* The settings to be copied: those the layer has, as it has them.           *)
LEMMA PairsAre ==
  ASSUME NEW layer \in AnyLayer
  PROVE  /\ Settings!Pairs(layer) \in Seq(Settings!SettingKey \X AnyValue)
         /\ \A i \in 1..Len(Settings!Pairs(layer)) :
              Settings!Pairs(layer)[i][2] = layer[Settings!Pairs(layer)[i][1]]
         /\ \A k \in Settings!SettingKey :
              \/ layer[k] = Unset
              \/ \E i \in 1..Len(Settings!Pairs(layer)) : Settings!Pairs(layer)[i][1] = k
  <1> DEFINE Elem == Settings!SettingKey \X AnyValue
             a == Settings!Copy(layer, "enabled")
             b == Settings!Copy(layer, "targets")
             c == Settings!Copy(layer, "permission")
  <1>1. /\ a \in Seq(Elem) /\ b \in Seq(Elem) /\ c \in Seq(Elem)
        /\ Len(a) = IF layer["enabled"] = Unset THEN 0 ELSE 1
        /\ Len(b) = IF layer["targets"] = Unset THEN 0 ELSE 1
        /\ Len(c) = IF layer["permission"] = Unset THEN 0 ELSE 1
        /\ layer["enabled"] # Unset => a[1] = <<"enabled", layer["enabled"]>>
        /\ layer["targets"] # Unset => b[1] = <<"targets", layer["targets"]>>
        /\ layer["permission"] # Unset => c[1] = <<"permission", layer["permission"]>>
    BY CopyIs, KeysAre
  <1>2. Settings!Pairs(layer) = (a \o b) \o c
    BY DEF Settings!Pairs
  <1> HIDE DEF a, b, c, Elem
  <1>3. /\ a \o b \in Seq(Elem) /\ Len(a \o b) = Len(a) + Len(b)
        /\ \A i \in 1..Len(a) + Len(b) :
             (a \o b)[i] = IF i <= Len(a) THEN a[i] ELSE b[i - Len(a)]
    BY <1>1, ConcatProperties
  <1> DEFINE ab == a \o b
  <1> HIDE DEF ab
  <1>4. /\ ab \o c \in Seq(Elem) /\ Len(ab \o c) = Len(ab) + Len(c)
        /\ \A i \in 1..Len(ab) + Len(c) :
             (ab \o c)[i] = IF i <= Len(ab) THEN ab[i] ELSE c[i - Len(ab)]
    BY <1>1, <1>3, ConcatProperties DEF ab
  <1> DEFINE s == ab \o c
             EIs == layer["enabled"] # Unset
             TIs == layer["targets"] # Unset
             PIs == layer["permission"] # Unset
  <1>5. \A i \in 1..Len(s) : \/ EIs /\ s[i] = <<"enabled", layer["enabled"]>>
                             \/ TIs /\ s[i] = <<"targets", layer["targets"]>>
                             \/ PIs /\ s[i] = <<"permission", layer["permission"]>>
    BY SMTT(20), <1>1, <1>3, <1>4 DEF ab
  <1>6. /\ EIs => s[1] = <<"enabled", layer["enabled"]>> /\ 1 \in 1..Len(s)
        /\ TIs => /\ s[Len(a) + 1] = <<"targets", layer["targets"]>>
                  /\ Len(a) + 1 \in 1..Len(s)
        /\ PIs => /\ s[Len(s)] = <<"permission", layer["permission"]>>
                  /\ Len(s) \in 1..Len(s)
    BY <1>1, <1>3, <1>4 DEF ab
  <1>7. s = Settings!Pairs(layer)
    BY <1>2 DEF ab
  <1> HIDE DEF s, EIs, TIs, PIs
  <1>8. s \in Seq(Elem)
    BY <1>4 DEF s
  <1>9. \A i \in 1..Len(s) : s[i][2] = layer[s[i][1]]
    BY <1>5
  <1>10. \A k \in Settings!SettingKey :
           layer[k] = Unset \/ \E i \in 1..Len(s) : s[i][1] = k
    BY <1>6, KeysAre DEF EIs, TIs, PIs
  <1>11. QED
    BY <1>7, <1>8, <1>9, <1>10 DEF Elem

(* What a refused change may not do, of one step.                            *)
UndoneStep ==
  refused' /\ Settings!Accepts(registry, route) /\ "model" \notin adrift
    /\ missed' <= missed + 1
    => UNCHANGED <<saved, current, own, runtime, policy, route, selected>>

UndoneChange ==
  refused' /\ Settings!Accepts(registry, route) /\ "model" \notin adrift
    /\ missed' <= missed + 1 /\ Settings!Change
    => UNCHANGED <<saved, current, own, runtime, policy, route, selected>>

(* No program runs, and no session was made.                                 *)
LEMMA SettingsBegin == Settings!Init => SettingsInv
  <1> SUFFICES ASSUME Settings!Init
               PROVE  SettingsInv
    OBVIOUS
  <1> USE DEF Settings!Init
  <1>1. SettingsTyped
    <2>1. /\ saved \in [Session -> [made : BOOLEAN, settings : AnyLayer,
                                 model : Model \cup {Placeholder, NoModel}]]
          /\ own \in AnyLayer /\ runtime \in AnyLayer
      BY NoLayerTyped DEF Settings!Unmade
    <2>2. copies \in Seq(Settings!SettingKey \X AnyValue) /\ current \in Session
          /\ missed \in Nat
      BY InstanceAssumption DEF InstanceAssumption
    <2>3. QED
      BY <2>1, <2>2 DEF SettingsTyped
  <1>2. NothingEarly
    BY DEF NothingEarly, Settings!Unmade
  <1>3. Seeded /\ Forced
    BY DEF Seeded, Forced
  <1>4. QED
    BY <1>1, <1>2, <1>3 DEF SettingsInv

(* A refusal: nothing but the mark of it changes.                            *)
LEMMA RefusedKeeps ==
  ASSUME SettingsInv, boot = "ready", Settings!Refused
  PROVE  SettingsInv' /\ UndoneStep
  <1> USE DEF Settings!Refused, Settings!memory
  <1>1. SettingsTyped'
    BY DEF SettingsInv, SettingsTyped
  <1>2. NothingEarly' /\ Seeded'
    BY DEF SettingsInv, NothingEarly, Seeded
  <1>3. Forced'
    BY DEF SettingsInv, Forced
  <1>4. UndoneStep
    BY DEF UndoneStep
  <1>5. QED
    BY <1>1, <1>2, <1>3, <1>4 DEF SettingsInv

(* A setting that is set or cleared, of the session or of the process.       *)
LEMMA PutKeeps ==
  ASSUME SettingsInv, boot = "ready",
         NEW layer \in AnyLayer, NEW process \in AnyLayer,
         Settings!Put(layer, process, layer)
  PROVE  SettingsInv' /\ UndoneStep
  <1> DEFINE asked == Settings!Effective(layer, process)
             writes == layer # saved[current].settings
  <1>1. CASE Settings!Refused
    BY <1>1, RefusedKeeps
  <1>2. CASE Settings!Undone(asked)
    <2> USE DEF SettingsInv
    <2>1. /\ Settings!NotWritten /\ refused' = TRUE
          /\ UNCHANGED <<boot, saved, current, own, runtime, policy, registry, selected,
                         copies, adrift>>
          /\ route' = IF Settings!Accepts(registry, route) THEN route
                      ELSE Settings!RouteOf(asked)
      BY <1>2 DEF Settings!Undone
    <2> HIDE DEF asked
    <2>2. /\ missed' \in Nat
          /\ (missed' = missed /\ ~saved[current].made) \/ missed' = missed + 1
      BY <2>1 DEF SettingsTyped, Settings!NotWritten
    <2>3. SettingsTyped'
      BY <2>1, <2>2 DEF SettingsTyped
    <2>4. NothingEarly' /\ Seeded'
      BY <2>1 DEF NothingEarly, Seeded
    <2>5. missed' # 0
      BY <2>2 DEF Forced, SettingsTyped
    <2>6. Forced'
      BY <2>1, <2>5 DEF Forced
    <2>7. UndoneStep
      BY <2>1 DEF UndoneStep
    <2>8. QED
      BY <2>3, <2>4, <2>6, <2>7
  <1>3. CASE /\ missed' = missed
             /\ saved' = [saved EXCEPT ![current].settings = layer]
             /\ own' = layer /\ runtime' = process
             /\ Settings!InForceNow(asked)
             /\ refused' = FALSE /\ adrift' = adrift \ {"policy"}
             /\ UNCHANGED <<boot, current, registry, selected, copies>>
             /\ writes => saved[current].made
    <2> USE DEF SettingsInv
    <2> HIDE DEF asked
    <2>1. SettingsTyped'
      BY <1>3 DEF SettingsTyped
    <2>2. saved'[current].settings = layer /\ saved'[current].made = saved[current].made
          /\ saved'[current].model = saved[current].model
          /\ \A s \in Session \ {current} : saved'[s] = saved[s]
      BY <1>3 DEF SettingsTyped
    <2>3. NothingEarly' /\ Seeded'
      BY <1>3, <2>2 DEF NothingEarly, Seeded
    <2>4. Forced'
      BY <1>3, <2>2 DEF Forced, Settings!InForceNow, asked
    <2>5. UndoneStep
      BY <1>3 DEF UndoneStep
    <2>6. QED
      BY <2>1, <2>3, <2>4, <2>5
  <1>4. QED
    BY <1>1, <1>2, <1>3 DEF Settings!Put, Settings!Written

(* A setting of the session, or of this run only.                            *)
LEMMA SetSettingKeeps ==
  SettingsInv /\ Settings!SetSetting => SettingsInv' /\ UndoneStep
  <1> SUFFICES ASSUME SettingsInv, Settings!SetSetting
               PROVE  SettingsInv' /\ UndoneStep
    OBVIOUS
  <1>1. /\ boot = "ready" /\ own = saved[current].settings
        /\ own \in AnyLayer /\ runtime \in AnyLayer
    BY DEF Settings!SetSetting, SettingsInv, SettingsTyped, Forced
  <1>2. \/ \E k \in Settings!SettingKey, v \in AnyValue : Settings!SetSession(k, v)
        \/ \E k \in Settings!SettingKey, v \in AnyValue : Settings!SetRuntime(k, v)
    BY KeysAre DEF Settings!SetSetting, AnyValue
  <1>3. ASSUME NEW k \in Settings!SettingKey, NEW v \in AnyValue,
               Settings!SetSession(k, v)
        PROVE  SettingsInv' /\ UndoneStep
    <2>1. [own EXCEPT ![k] = v] \in AnyLayer
      BY <1>1, LayerExcept
    <2>2. Settings!Put([own EXCEPT ![k] = v], runtime, [own EXCEPT ![k] = v])
      BY <1>1, <1>3 DEF Settings!SetSession
    <2>3. QED
      BY <1>1, <2>1, <2>2, PutKeeps
  <1>4. ASSUME NEW k \in Settings!SettingKey, NEW v \in AnyValue,
               Settings!SetRuntime(k, v)
        PROVE  SettingsInv' /\ UndoneStep
    <2>1. [runtime EXCEPT ![k] = v] \in AnyLayer
      BY <1>1, LayerExcept
    <2>2. Settings!Put(own, [runtime EXCEPT ![k] = v], own)
      BY <1>1, <1>4 DEF Settings!SetRuntime
    <2>3. QED
      BY <1>1, <2>1, <2>2, PutKeeps
  <1>5. QED
    BY <1>2, <1>3, <1>4

(* The permission is not what /failover sets.                                *)
LEMMA FailoverKeeps ==
  SettingsInv /\ Settings!ConfigureFailover => SettingsInv' /\ UndoneStep
  <1> SUFFICES ASSUME SettingsInv, Settings!ConfigureFailover
               PROVE  SettingsInv' /\ UndoneStep
    OBVIOUS
  <1>1. boot = "ready"
    BY DEF Settings!ConfigureFailover
  <1>2. PICK target \in {Fallback, NoModel} :
          LET process == [runtime EXCEPT !["targets"] = target,
                            !["enabled"] = IF target = NoModel THEN "off" ELSE "on"]
              wanted == Settings!RouteOf(Settings!Effective(own, process))
          IN IF ~Settings!Accepts(registry, wanted) THEN Settings!Refused
             ELSE /\ runtime' = process /\ route' = wanted /\ refused' = FALSE
                  /\ UNCHANGED <<boot, saved, current, own, policy, registry,
                                 selected, copies, adrift, missed>>
    BY DEF Settings!ConfigureFailover
  <1> DEFINE process == [runtime EXCEPT !["targets"] = target,
                           !["enabled"] = IF target = NoModel THEN "off" ELSE "on"]
  <1>3. CASE Settings!Refused
    BY <1>1, <1>3, RefusedKeeps
  <1>4. CASE ~Settings!Refused
    <2>1. /\ runtime' = process /\ refused' = FALSE
          /\ route' = Settings!RouteOf(Settings!Effective(own, process))
          /\ UNCHANGED <<boot, saved, current, own, policy, registry,
                         selected, copies, adrift, missed>>
      BY <1>2, <1>4
    <2>2. process \in AnyLayer /\ process["permission"] = runtime["permission"]
      BY KeysAre DEF SettingsInv, SettingsTyped, AnyLayer, AnyValue
    <2> HIDE DEF process
    <2>3. SettingsTyped'
      BY <2>1, <2>2 DEF SettingsInv, SettingsTyped
    <2>4. NothingEarly' /\ Seeded'
      BY <2>1 DEF SettingsInv, NothingEarly, Seeded
    <2>5. Settings!PolicyOf(Settings!Effective(own, process))
            = Settings!PolicyOf(Settings!Effective(own, runtime))
      BY <2>2, KeysAre DEF Settings!PolicyOf, Settings!Effective
    <2>6. Forced'
      BY <2>1, <2>5 DEF SettingsInv, Forced
    <2>7. QED
      BY <2>1, <2>3, <2>4, <2>6 DEF SettingsInv, UndoneStep
  <1>5. QED
    BY <1>3, <1>4

(* The list of models is fetched again.                                      *)
LEMMA RefreshKeeps ==
  SettingsInv /\ Settings!RefreshModels => SettingsInv' /\ UndoneStep
  <1> SUFFICES ASSUME SettingsInv, Settings!RefreshModels
               PROVE  SettingsInv' /\ UndoneStep
    OBVIOUS
  <1>1. PICK offer \in SUBSET Model : Settings!RefreshProvider(offer)
    BY DEF Settings!RefreshModels
  <1>2. boot = "ready"
    BY DEF Settings!RefreshModels
  <1>3. CASE Settings!Refused
    BY <1>2, <1>3, RefusedKeeps
  <1>4. CASE ~Settings!Refused
    <2>1. /\ selected \in offer \cup {Placeholder}
          /\ registry' = offer \cup {Placeholder} /\ refused' = FALSE
          /\ UNCHANGED <<boot, saved, current, own, runtime, policy, route,
                         selected, copies, adrift, missed>>
      BY <1>1, <1>4 DEF Settings!RefreshProvider
    <2>2. SettingsTyped'
      BY <2>1 DEF SettingsInv, SettingsTyped
    <2>3. NothingEarly' /\ Seeded' /\ Forced'
      BY <2>1 DEF SettingsInv, NothingEarly, Seeded, Forced
    <2>4. QED
      BY <2>1, <2>2, <2>3 DEF SettingsInv, UndoneStep
  <1>5. QED
    BY <1>3, <1>4

(* A model is chosen, or the one that was in use is chosen again.            *)
LEMMA SelectKeeps ==
  SettingsInv /\ Settings!SelectModel => SettingsInv' /\ UndoneStep
  <1> SUFFICES ASSUME SettingsInv, Settings!SelectModel
               PROVE  SettingsInv' /\ UndoneStep
    OBVIOUS
  <1>1. PICK model \in Model, offer \in SUBSET Model :
          /\ IF model \in registry THEN offer = {}
             ELSE registry = {Placeholder} /\ model \in offer
          /\ \/ Settings!Choose(registry \cup offer, model)
             \/ Settings!Unchoose(registry \cup offer, model)
    BY DEF Settings!SelectModel
  <1>2. /\ boot = "ready"
        /\ UNCHANGED <<boot, current, own, runtime, policy, route, copies>>
    BY DEF Settings!SelectModel
  <1> DEFINE models == registry \cup offer
  <1>3. /\ models \subseteq Model \cup {Placeholder} /\ model \in models
        /\ registry \subseteq models
    BY <1>1 DEF SettingsInv, SettingsTyped
  <1> HIDE DEF models
  <1>4. CASE /\ saved' = saved /\ selected' = selected /\ adrift' = adrift
             /\ missed' \in {missed, missed + 1} /\ registry' \in {models, registry}
             /\ refused' \in BOOLEAN
             /\ missed' = missed => saved[current].made \/ registry' = models
    <2>1. SettingsTyped'
      BY <1>2, <1>3, <1>4 DEF SettingsInv, SettingsTyped
    <2>2. NothingEarly' /\ Seeded' /\ Forced'
      BY <1>2, <1>3, <1>4 DEF SettingsInv, SettingsTyped, NothingEarly, Seeded, Forced
    <2>3. QED
      BY <1>2, <1>4, <2>1, <2>2 DEF SettingsInv, UndoneStep
  <1>5. ASSUME NEW m \in models, saved[current].made,
               saved' = [saved EXCEPT ![current].model = m], selected' = m,
               registry' = models, adrift' = adrift \ {"model"},
               missed' \in Nat, missed' = 0 => missed = 0, refused' \in BOOLEAN,
               refused' /\ "model" \notin adrift /\ missed' <= missed + 1 =>
                 m = selected /\ m = saved[current].model
        PROVE  SettingsInv' /\ UndoneStep
    <2>1. SettingsTyped'
      BY <1>2, <1>3, <1>5 DEF SettingsInv, SettingsTyped
    <2>2. saved'[current].model = m /\ saved'[current].made
          /\ saved'[current].settings = saved[current].settings
          /\ \A s \in Session \ {current} : saved'[s] = saved[s]
      BY <1>5 DEF SettingsInv, SettingsTyped
    <2>3. NothingEarly' /\ Seeded'
      BY <1>2, <1>5, <2>2 DEF SettingsInv, NothingEarly, Seeded
    <2>4. Forced'
      BY <1>2, <1>5, <2>2 DEF SettingsInv, Forced
    <2>5. m = saved[current].model => saved' = saved
      BY <1>5 DEF SettingsInv, SettingsTyped
    <2>6. UndoneStep
      BY <1>2, <1>5, <2>5 DEF UndoneStep
    <2>7. QED
      BY <2>1, <2>3, <2>4, <2>6 DEF SettingsInv
  <1>6. CASE Settings!Choose(models, model)
    <2>1. CASE saved[current].model = model
      BY <1>4, <1>6, <2>1 DEF Settings!Choose
    <2>2. CASE /\ saved[current].model # model
               /\ Settings!NotWritten /\ refused' = TRUE
               /\ UNCHANGED <<saved, registry, selected, adrift>>
      <3>1. (missed' = missed /\ ~saved[current].made) \/ missed' = missed + 1
        BY <2>2 DEF Settings!NotWritten
      <3>2. SettingsTyped'
        BY <1>2, <2>2, <3>1 DEF SettingsInv, SettingsTyped
      <3>3. missed' # 0
        BY <1>2, <3>1 DEF SettingsInv, SettingsTyped, Forced
      <3>4. NothingEarly' /\ Seeded' /\ Forced'
        BY <1>2, <2>2, <3>3 DEF SettingsInv, NothingEarly, Seeded, Forced
      <3>5. QED
        BY <1>2, <2>2, <3>2, <3>4 DEF SettingsInv, UndoneStep
    <2>3. CASE /\ saved[current].model # model /\ Settings!Written
               /\ saved' = [saved EXCEPT ![current].model = model]
               /\ selected' = model /\ registry' = models
               /\ refused' = FALSE /\ adrift' = adrift \ {"model"}
      BY <1>3, <1>5, <2>3 DEF Settings!Written, SettingsInv, SettingsTyped
    <2>4. QED
      BY <1>6, <2>1, <2>2, <2>3 DEF Settings!Choose
  <1>7. CASE Settings!Unchoose(models, model)
    <2>1. /\ saved[current].made /\ missed \in Nat /\ selected \in models
          /\ adrift' = adrift \ {"model"} /\ registry' = models /\ refused' = TRUE
          /\ "model" \notin adrift => selected = saved[current].model
      BY <1>2, <1>3, <1>7 DEF Settings!Unchoose, SettingsInv, SettingsTyped, Forced
    <2>2. CASE /\ missed' = missed + 1 /\ UNCHANGED selected
               /\ saved' = [saved EXCEPT ![current].model = selected]
      <3>1. /\ selected' = selected /\ missed' \in Nat /\ missed' # 0 /\ refused' \in BOOLEAN
            /\ "model" \notin adrift => selected = selected /\ selected = saved[current].model
        BY <2>1, <2>2
      <3>2. QED
        BY ONLY <1>5, <2>1, <2>2, <3>1
    <2>3. CASE /\ missed' = missed + 2 /\ selected' = model
               /\ saved' = [saved EXCEPT ![current].model = model]
      <3>1. /\ missed' \in Nat /\ missed' # 0 /\ refused' \in BOOLEAN
            /\ ~(missed' <= missed + 1)
        BY <2>1, <2>3
      <3>2. QED
        BY ONLY <1>3, <1>5, <2>1, <2>3, <3>1
    <2>4. QED
      BY <1>7, <2>2, <2>3 DEF Settings!Unchoose
  <1>8. QED
    BY <1>1, <1>6, <1>7 DEF models

(* A change of session stops before the other session is in force.           *)
LEMMA HalfSwitchedKeeps ==
  ASSUME SettingsInv, boot = "ready", NEW asked, Settings!HalfSwitched(asked)
  PROVE  SettingsInv'
  <1> USE DEF Settings!HalfSwitched
  <1>1. SettingsTyped'
    BY DEF SettingsInv, SettingsTyped
  <1>2. NothingEarly' /\ Seeded' /\ Forced'
    BY DEF SettingsInv, NothingEarly, Seeded, Forced
  <1>3. QED
    BY <1>1, <1>2 DEF SettingsInv

(* The settings and the model of another session come into force.            *)
LEMMA SwitchKeeps ==
  ASSUME SettingsInv, NEW s \in Session, Settings!SwitchSession(s)
  PROVE  SettingsInv'
  <1> DEFINE asked == Settings!Effective(saved[s].settings, runtime)
  <1>1. boot = "ready" /\ saved[s].made /\ saved[s].settings \in AnyLayer
    BY DEF Settings!SwitchSession, SettingsInv, SettingsTyped
  <1>2. CASE Settings!Refused
    BY <1>1, <1>2, RefusedKeeps
  <1>3. CASE Settings!HalfSwitched(asked)
    BY <1>1, <1>3, HalfSwitchedKeeps
  <1>4. CASE /\ current' = s /\ Settings!InForceNow(asked)
             /\ own' = saved[s].settings
             /\ Settings!Reconcile(s)
             /\ UNCHANGED <<boot, runtime, registry, copies>>
    <2> USE DEF SettingsInv
    <2>1. /\ saved' = saved \/ saved' = [saved EXCEPT ![s].model = selected]
          /\ refused' \in BOOLEAN /\ adrift' \in {{}, {"model"}}
          /\ missed' \in Nat
          /\ missed' = 0 => missed = 0
          /\ \/ selected' = selected
             \/ selected' = saved[s].model /\ selected' \in registry /\ saved' = saved
      <3>1. missed \in Nat
        BY DEF SettingsTyped
      <3>2. /\ saved' = saved \/ saved' = [saved EXCEPT ![s].model = selected]
            /\ refused' \in BOOLEAN /\ adrift' \in {{}, {"model"}}
            /\ missed' = missed \/ missed' = missed + 1
        BY <1>4 DEF Settings!Reconcile
      <3>3. \/ selected' = selected
            \/ selected' = saved[s].model /\ selected' \in registry /\ saved' = saved
        BY <1>4 DEF Settings!Reconcile
      <3>4. QED
        BY <3>1, <3>2, <3>3
    <2>2. /\ saved'[s].settings = saved[s].settings /\ saved'[s].made
          /\ \A x \in Session : /\ saved'[x].made = saved[x].made
                                /\ saved'[x].settings = saved[x].settings
      BY <1>1, <2>1 DEF SettingsTyped
    <2>3. selected' \in registry /\ ("model" \notin adrift' => selected' = saved'[s].model)
      BY <1>1, <1>4, <2>1 DEF Settings!Reconcile, Forced, SettingsTyped
    <2>4. SettingsTyped'
      <3>1. saved' \in [Session -> [made : BOOLEAN, settings : AnyLayer,
                                   model : Model \cup {Placeholder, NoModel}]]
        BY <2>1 DEF SettingsTyped
      <3>2. selected' \in Model \cup {Placeholder} /\ own' \in AnyLayer
        BY <1>1, <1>4, <2>1 DEF SettingsTyped
      <3>3. /\ current' \in Session /\ refused' \in BOOLEAN /\ missed' \in Nat
            /\ UNCHANGED <<boot, runtime, registry, copies>>
        BY <1>4, <2>1
      <3>4. QED
        BY ONLY SettingsInv, <3>1, <3>2, <3>3 DEF SettingsInv, SettingsTyped
    <2>5. NothingEarly' /\ Seeded'
      BY <1>1, <1>4, <2>1, <2>2 DEF NothingEarly, Seeded
    <2>6. Forced'
      BY <1>1, <1>4, <2>2, <2>3 DEF Forced, Settings!InForceNow
    <2>7. QED
      BY <2>1, <2>4, <2>5, <2>6
  <1>5. QED
    BY <1>2, <1>3, <1>4 DEF Settings!SwitchSession

(* What a new session has is nothing, and that is what is in force.          *)
LEMMA NewKeeps ==
  ASSUME SettingsInv, NEW s \in Session, Settings!NewSession(s)
  PROVE  SettingsInv'
  <1> DEFINE asked == Settings!Effective(Settings!NoLayer, runtime)
             created == [saved EXCEPT ![s].made = TRUE]
             chosen == [created EXCEPT ![s].model = selected]
             listed == Settings!Pairs(Settings!Inherited(saved[current].settings))
  <1>1. /\ boot = "ready" /\ ~saved[s].made
        /\ saved[s].settings = Settings!NoLayer
    BY DEF Settings!NewSession, SettingsInv, NothingEarly
  <1>2. listed \in Seq(Settings!SettingKey \X AnyValue)
    BY PairsAre, InheritedTyped DEF SettingsInv, SettingsTyped
  <1>3. CASE Settings!Refused
    BY <1>1, <1>3, RefusedKeeps
  <1>4. CASE Settings!HalfSwitched(asked)
    BY <1>1, <1>4, HalfSwitchedKeeps
  <1>5. CASE /\ current' = s /\ own' = Settings!NoLayer /\ Settings!InForceNow(asked)
             /\ \/ /\ saved' = chosen /\ adrift' = {} /\ copies' = listed
                   /\ boot' = IF listed = <<>> THEN "ready" ELSE "copying"
                   /\ refused' = FALSE /\ UNCHANGED missed
                \/ /\ missed < MaxMissed /\ missed' = missed + 1
                   /\ saved' \in {saved, created}
                   /\ adrift' = {"model"} /\ refused' = TRUE
                   /\ UNCHANGED <<boot, copies>>
             /\ UNCHANGED <<runtime, registry, selected>>
    <2> USE DEF SettingsInv
    <2> HIDE DEF listed
    <2> DEFINE Typed(fun) ==
                 /\ fun \in [Session -> [made : BOOLEAN, settings : AnyLayer,
                                         model : Model \cup {Placeholder, NoModel}]]
                 /\ \A x \in Session : fun[x].settings = saved[x].settings
                 /\ \A x \in Session \ {s} : fun[x] = saved[x]
    <2>a. Typed(saved)
      BY DEF SettingsTyped
    <2>b. Typed(created)
      BY DEF SettingsTyped
    <2>c. Typed(chosen)
      <3>1. \A fun : Typed(fun) => Typed([fun EXCEPT ![s].model = selected])
        BY DEF SettingsTyped
      <3> HIDE DEF Typed, created
      <3>2. QED
        BY <2>b, <3>1
    <2>1. Typed(saved')
      <3> HIDE DEF Typed, created, chosen
      <3>1. QED
        BY <1>5, <2>a, <2>b, <2>c
    <2>2. SettingsTyped'
      <3>1. saved' \in [Session -> [made : BOOLEAN, settings : AnyLayer,
                                   model : Model \cup {Placeholder, NoModel}]]
        BY <2>1
      <3>2. copies' \in Seq(Settings!SettingKey \X AnyValue) /\ missed' \in Nat
        BY <1>2, <1>5 DEF SettingsTyped
      <3> HIDE DEF Typed, created, chosen, asked
      <3>3. QED
        BY <1>1, <1>5, <3>1, <3>2, NoLayerTyped DEF SettingsTyped
    <2>3. "model" \notin adrift' => saved'[s].model = selected /\ saved'[s].made
      BY <1>5 DEF SettingsTyped
    <2>4. NothingEarly' /\ Seeded'
      BY <1>1, <1>5, <2>1, <2>3 DEF NothingEarly, Seeded
    <2>5. missed' = 0 => "model" \notin adrift'
      BY <1>5 DEF SettingsTyped
    <2>6. Forced'
      BY <1>1, <1>5, <2>1, <2>3, <2>5 DEF Forced, Settings!InForceNow
    <2>7. QED
      BY <1>5, <2>2, <2>4, <2>6
  <1>6. QED
    BY <1>3, <1>4, <1>5 DEF Settings!NewSession

(* The program ends, and takes its memory with it.                           *)
LEMMA ForgetKeeps ==
  ASSUME SettingsInv, Settings!Forget, UNCHANGED saved, missed' \in Nat
  PROVE  SettingsInv'
  <1> USE DEF Settings!Forget
  <1>1. SettingsTyped'
    <2>1. copies' \in Seq(Settings!SettingKey \X AnyValue)
      OBVIOUS
    <2>2. own' \in AnyLayer /\ runtime' \in AnyLayer /\ Home \in Session
      BY NoLayerTyped, InstanceAssumption DEF InstanceAssumption
    <2>3. QED
      BY <2>1, <2>2 DEF SettingsInv, SettingsTyped
  <1>2. NothingEarly' /\ Seeded' /\ Forced'
    BY DEF SettingsInv, NothingEarly, Seeded, Forced
  <1>3. QED
    BY <1>1, <1>2 DEF SettingsInv

(* The next setting that is copied: when the last one is, nothing lacks.     *)
LEMMA CopyKeeps ==
  ASSUME SettingsInv, Settings!CopySetting
  PROVE  SettingsInv'
  <1> DEFINE at == Head(copies)[1]
             asIs == Head(copies)[2]
             layer == [own EXCEPT ![at] = asIs]
             stored == [saved[current].settings EXCEPT ![at] = asIs]
             asked == Settings!Effective(layer, runtime)
  <1>1. /\ boot \in {"copying", "seeding"} /\ copies # <<>>
        /\ copies \in Seq(Settings!SettingKey \X AnyValue)
        /\ saved[current].settings \in AnyLayer /\ own \in AnyLayer /\ missed \in Nat
    BY DEF Settings!CopySetting, SettingsInv, NothingEarly, SettingsTyped
  <1>2. /\ Head(copies) = copies[1] /\ Len(copies) \in Nat \ {0}
        /\ Head(copies) \in Settings!SettingKey \X AnyValue
        /\ Tail(copies) \in Seq(Settings!SettingKey \X AnyValue)
        /\ Len(Tail(copies)) = Len(copies) - 1
        /\ \A i \in 1..Len(Tail(copies)) : Tail(copies)[i] = copies[i + 1]
    BY <1>1, HeadTailProperties, LenProperties
  <1>3. at \in Settings!SettingKey /\ asIs \in AnyValue
    BY <1>2
  <1>4. CASE /\ saved' = [saved EXCEPT ![current].settings = stored]
             /\ own' = layer /\ Settings!InForceNow(asked)
             /\ copies' = Tail(copies) /\ refused' = FALSE
             /\ boot' = IF Tail(copies) = <<>> THEN "ready" ELSE boot
             /\ UNCHANGED <<current, runtime, registry, selected, adrift, missed>>
    <2>1. layer \in AnyLayer /\ stored \in AnyLayer
      BY <1>1, <1>3, LayerExcept
    <2>2. /\ saved'[current].settings = stored /\ saved'[current].made = saved[current].made
          /\ saved'[current].model = saved[current].model
          /\ \A s \in Session \ {current} : saved'[s] = saved[s]
      BY <1>4 DEF SettingsInv, SettingsTyped
    <2>3. /\ \A k \in Settings!SettingKey :
               /\ layer[k] = IF k = at THEN asIs ELSE own[k]
               /\ stored[k] = IF k = at THEN asIs ELSE saved[current].settings[k]
          /\ layer = stored <=> \A k \in Settings!SettingKey : layer[k] = stored[k]
      BY <1>1, <2>1 DEF AnyLayer
    <2>4. at = copies[1][1] /\ asIs = copies[1][2] /\ 1 \in 1..Len(copies)
      BY <1>2
    <2>5. own = saved[current].settings => layer = stored
      OBVIOUS
    <2> HIDE DEF layer, stored, at, asIs
    <2>6. SettingsTyped'
      <3>1. saved' \in [Session -> [made : BOOLEAN, settings : AnyLayer,
                                   model : Model \cup {Placeholder, NoModel}]]
        BY <1>4, <2>1 DEF SettingsInv, SettingsTyped
      <3>2. QED
        BY <1>2, <1>4, <2>1, <3>1 DEF SettingsInv, SettingsTyped
    <2>7. NothingEarly'
      BY <1>1, <1>4, <2>2 DEF SettingsInv, NothingEarly
    <2>8. boot = "seeding" => \A k \in Settings!SettingKey :
            layer[k] = stored[k] \/ \E i \in 1..Len(Tail(copies)) : Tail(copies)[i][1] = k
      <3>1. boot = "seeding" => \A k \in Settings!SettingKey :
              layer[k] = stored[k] \/ \E i \in 1..Len(copies) : i # 1 /\ copies[i][1] = k
        BY <2>3, <2>4 DEF SettingsInv, Seeded
      <3>2. \A i \in 1..Len(copies) : i # 1 =>
              i - 1 \in 1..Len(Tail(copies)) /\ Tail(copies)[i - 1] = copies[i]
        BY <1>2
      <3>3. QED
        BY <3>1, <3>2
    <2>9. boot = "seeding" => \A i \in 1..Len(Tail(copies)) :
            Tail(copies)[i][2] = layer[Tail(copies)[i][1]]
      <3>1. boot = "seeding" => layer = own
        BY <1>1, <2>1, <2>3, <2>4 DEF SettingsInv, Seeded, AnyLayer
      <3>2. \A i \in 1..Len(Tail(copies)) : i + 1 \in 1..Len(copies)
        BY <1>2
      <3>3. QED
        <4>1. ASSUME boot = "seeding", NEW i \in 1..Len(Tail(copies))
              PROVE  Tail(copies)[i][2] = layer[Tail(copies)[i][1]]
          <5>1. i + 1 \in 1..Len(copies) /\ Tail(copies)[i] = copies[i + 1]
            BY <1>2, <3>2
          <5>2. copies[i + 1][2] = own[copies[i + 1][1]]
            BY <4>1, <5>1 DEF SettingsInv, Seeded
          <5>3. QED
            BY ONLY <3>1, <4>1, <5>1, <5>2
        <4>2. QED
          BY <4>1
    <2>10. Seeded'
      BY <1>4, <2>2, <2>8, <2>9 DEF Seeded
    <2>11. boot' # "seeding" => layer = stored
      <3>1. boot = "copying" => layer = stored
        BY <2>5 DEF SettingsInv, Forced
      <3>2. \A s \in Seq(Settings!SettingKey \X AnyValue) : s = <<>> => Len(s) = 0
        OBVIOUS
      <3>3. boot = "seeding" /\ Tail(copies) = <<>> => layer = stored
        <4>1. Tail(copies) = <<>> => 1..Len(Tail(copies)) = {}
          BY <1>2, <3>2
        <4>2. QED
          BY ONLY <2>3, <2>8, <4>1
      <3>4. QED
        BY <1>1, <1>4, <3>1, <3>3
    <2>12. Forced'
      BY <1>1, <1>4, <2>2, <2>11 DEF SettingsInv, Forced, Settings!InForceNow
    <2>13. QED
      BY <1>4, <2>6, <2>7, <2>10, <2>12 DEF SettingsInv
  <1>5. CASE /\ missed' \in {missed, missed + 1}
             /\ boot = "seeding" /\ Settings!Forget /\ UNCHANGED saved
    BY <1>1, <1>5, ForgetKeeps
  <1>6. CASE /\ missed' \in {missed, missed + 1}
             /\ boot # "seeding" /\ boot' = "ready" /\ copies' = <<>> /\ refused' = TRUE
             /\ UNCHANGED <<saved, current, own, runtime, policy, registry, route,
                            selected, adrift>>
    <2>1. SettingsTyped'
      <3>1. copies' \in Seq(Settings!SettingKey \X AnyValue) /\ missed' \in Nat
        BY <1>1, <1>6
      <3>2. QED
        BY <1>6, <3>1 DEF SettingsInv, SettingsTyped
    <2>2. NothingEarly' /\ Seeded' /\ Forced'
      BY <1>1, <1>6 DEF SettingsInv, NothingEarly, Seeded, Forced
    <2>3. QED
      BY <1>6, <2>1, <2>2 DEF SettingsInv
  <1>7. QED
    BY <1>4, <1>5, <1>6 DEF Settings!CopySetting

(* A program starts in what its session says, or seeds a new one.            *)
LEMMA StartKeeps ==
  ASSUME SettingsInv, NEW s \in Session, NEW other \in Session,
         NEW offer \in SUBSET Model, NEW m \in Model \cup {Placeholder},
         Settings!Start(s, other, offer, m)
  PROVE  SettingsInv'
  <1> DEFINE past == saved[s]
             layer == IF past.made THEN past.settings
                      ELSE Settings!Inherited(saved[other].settings)
             asked == Settings!Effective(layer, Settings!NoLayer)
             models == offer \cup {Placeholder}
             listed == IF past.made THEN <<>> ELSE Settings!Pairs(layer)
             created == [saved EXCEPT ![s].made = TRUE]
             begun == [created EXCEPT ![s].model = IF @ = NoModel THEN m ELSE @]
  <1>1. /\ boot = "down" /\ ~refused /\ missed \in Nat
        /\ past \in [made : BOOLEAN, settings : AnyLayer,
                        model : Model \cup {Placeholder, NoModel}]
        /\ ~past.made => past.settings = Settings!NoLayer
        /\ past.model \in models \cup {NoModel} /\ m \in models
    BY DEF Settings!Start, SettingsInv, SettingsTyped, NothingEarly
  <1>2. layer \in AnyLayer
    BY <1>1, InheritedTyped DEF SettingsInv, SettingsTyped
  <1> DEFINE Typed(fun) ==
               /\ fun \in [Session -> [made : BOOLEAN, settings : AnyLayer,
                                       model : Model \cup {Placeholder, NoModel}]]
               /\ \A x \in Session : fun[x].settings = saved[x].settings
               /\ \A x \in Session \ {s} : fun[x] = saved[x]
  <1>3. Typed(saved) /\ Typed(created) /\ created[s].made
        /\ created[s].model = past.model
    BY DEF SettingsInv, SettingsTyped
  <1>4. Typed(begun) /\ begun[s].made
        /\ begun[s].model = IF past.model = NoModel THEN m ELSE past.model
    <2> HIDE DEF created, past
    <2>1. \A fun : Typed(fun) =>
            LET fun2 == [fun EXCEPT ![s].model = IF @ = NoModel THEN m ELSE @]
            IN  /\ Typed(fun2) /\ fun2[s].made = fun[s].made
                /\ fun2[s].model = IF fun[s].model = NoModel THEN m ELSE fun[s].model
      BY DEF SettingsInv, SettingsTyped
    <2> HIDE DEF Typed
    <2>2. QED
      BY <1>3, <2>1
  <1>5. /\ listed \in Seq(Settings!SettingKey \X AnyValue)
        /\ \A i \in 1..Len(listed) : listed[i][2] = layer[listed[i][1]]
        /\ \A k \in Settings!SettingKey :
             \/ layer[k] = past.settings[k]
             \/ \E i \in 1..Len(listed) : listed[i][1] = k
        /\ listed = <<>> => layer = past.settings
    <2>1. CASE past.made
      BY <2>1
    <2>2. CASE ~past.made
      <3>1. \A k \in Settings!SettingKey : past.settings[k] = Unset
        BY <1>1, <2>2 DEF Settings!NoLayer
      <3>2. /\ Settings!Pairs(layer) \in Seq(Settings!SettingKey \X AnyValue)
            /\ \A i \in 1..Len(Settings!Pairs(layer)) :
                 Settings!Pairs(layer)[i][2] = layer[Settings!Pairs(layer)[i][1]]
            /\ \A k \in Settings!SettingKey :
                 \/ layer[k] = Unset
                 \/ \E i \in 1..Len(Settings!Pairs(layer)) : Settings!Pairs(layer)[i][1] = k
        <4> HIDE DEF layer
        <4>1. QED
          BY <1>2, PairsAre
      <3> DEFINE p == Settings!Pairs(layer)
      <3>3. listed = p
        BY <2>2
      <3> HIDE DEF layer, p, listed, past
      <3>4. p = <<>> => layer = past.settings
        BY <1>1, <1>2, <3>1, <3>2 DEF p, AnyLayer
      <3>5. QED
        BY <3>1, <3>2, <3>3, <3>4 DEF p
    <2>3. QED
      BY <2>1, <2>2
  <1>6. CASE /\ missed' = missed + 1 /\ saved' \in {saved, created}
             /\ UNCHANGED <<boot, Settings!memory, refused, adrift>>
    <2>1. SettingsTyped'
      <3>1. saved' \in [Session -> [made : BOOLEAN, settings : AnyLayer,
                                   model : Model \cup {Placeholder, NoModel}]]
        BY <1>3, <1>6
      <3>2. QED
        BY <1>6, <3>1 DEF SettingsInv, SettingsTyped, Settings!memory
    <2>2. NothingEarly' /\ Seeded' /\ Forced'
      BY <1>1, <1>3, <1>6 DEF SettingsInv, NothingEarly, Seeded, Forced, Settings!memory
    <2>3. QED
      BY <1>1, <1>6, <2>1, <2>2 DEF SettingsInv
  <1>7. CASE /\ saved' = begun
             /\ current' = s /\ own' = layer /\ runtime' = Settings!NoLayer
             /\ Settings!InForceNow(asked)
             /\ registry' = models
             /\ selected' = IF past.model = NoModel THEN m ELSE past.model
             /\ copies' = listed
             /\ boot' = IF listed = <<>> THEN "ready" ELSE "seeding"
             /\ refused' = FALSE /\ adrift' = {} /\ UNCHANGED missed
    <2>1. /\ selected' \in models /\ selected' = saved'[s].model /\ saved'[s].made
          /\ saved'[s].settings = past.settings
      BY <1>1, <1>4, <1>7
    <2>2. SettingsTyped'
      <3>1. saved' \in [Session -> [made : BOOLEAN, settings : AnyLayer,
                                   model : Model \cup {Placeholder, NoModel}]]
        BY <1>4, <1>7
      <3>2. selected' \in Model \cup {Placeholder}
            /\ registry' \subseteq Model \cup {Placeholder}
        BY <1>7, <2>1
      <3> HIDE DEF layer, listed, begun, models
      <3>3. QED
        BY <1>1, <1>2, <1>5, <1>7, <3>1, <3>2, NoLayerTyped DEF SettingsTyped
    <2>3. NothingEarly'
      <3>1. \A x \in Session : x # s => saved'[x] = saved[x]
        BY <1>4, <1>7
      <3>2. QED
        BY <1>7, <2>1, <3>1 DEF SettingsInv, NothingEarly
    <2> HIDE DEF layer, listed, begun, models, past, asked
    <2>4. Seeded'
      BY <1>5, <1>7, <2>1 DEF Seeded
    <2>5. Forced'
      BY <1>5, <1>7, <2>1 DEF Forced, Settings!InForceNow, asked
    <2>6. QED
      BY <1>7, <2>2, <2>3, <2>4, <2>5 DEF SettingsInv
  <1>8. QED
    BY <1>6, <1>7 DEF Settings!Start

(* A refused change within a session is as if it had not been.               *)
LEMMA ChangeKeeps ==
  SettingsInv /\ Settings!Change => SettingsInv' /\ UndoneStep
  BY SetSettingKeeps, FailoverKeeps, RefreshKeeps, SelectKeeps DEF Settings!Change

(* One step for every command; what a refused one leaves is said of a change *)
(* within a session only.                                                    *)
LEMMA SettingsStep ==
  SettingsInv /\ Settings!Next => SettingsInv' /\ UndoneChange
  <1> SUFFICES ASSUME SettingsInv, Settings!Next
               PROVE  SettingsInv'
    BY ChangeKeeps DEF UndoneStep, UndoneChange
  <1>1. CASE Settings!Stop
    BY <1>1, ForgetKeeps DEF Settings!Stop, SettingsInv, SettingsTyped
  <1>2. CASE Settings!StartSession
    BY <1>2, StartKeeps DEF Settings!StartSession
  <1>3. QED
    BY <1>1, <1>2, ChangeKeeps, SwitchKeeps, NewKeeps, CopyKeeps DEF Settings!Next

(* The invariant is stronger than the property the runs check.               *)
LEMMA SettingsInForce ==
  SettingsInv => Settings!InForce
  BY DEF SettingsInv, Forced, Settings!InForce
-----------------------------------------------------------------------------
(* The set-up of providers.                                                  *)

(* The names of providers are apart: those of text K built in and C added,   *)
(* those of embeddings KV and CV likewise, and the names that are no         *)
(* providers.                                                                *)
Apart(K, C, KV, CV) ==
  /\ K \cap C = {} /\ KV \cap CV = {} /\ (K \cup C) \cap (KV \cup CV) = {}
  /\ {Nobody, Placeholder, "ready"} \cap (K \cup C \cup KV \cup CV) = {}
  /\ First \in VectorModel /\ NoKey \notin Secret

SetupTyped(K, C, KV, CV) ==
  /\ credential \in [K \cup C \cup KV \cup CV -> Secret \cup {NoKey}]
  /\ proven \in [K \cup C \cup KV \cup CV -> Secret \cup {NoKey}]
  /\ offered \subseteq C
  /\ default \in K \cup C \cup {Nobody}
  /\ vector \in [KV \cup CV -> SUBSET VectorModel]
  /\ active \subseteq (KV \cup CV) \X VectorModel
  /\ provider \in K \cup C \cup {Placeholder}
  /\ recorded \in K \cup C \cup {Placeholder, Nobody}

Steps == {"none", "name", "protocol", "url", "key", "default", "switch", "keySelect",
          "vectorKind", "vectorName", "vectorUrl", "vectorModels", "vectorDimensions",
          "select", "dimensions", "vectorSwitch", "vectorClear"}

QuestionType(K, C, KV, CV) ==
  [at : Steps, provider : K \cup C \cup KV \cup CV \cup {Nobody}, adding : BOOLEAN,
   old : Secret \cup {NoKey}, asked : SUBSET VectorModel, found : SUBSET VectorModel]

(* Whom a question is about, and what has been stored when it is asked.      *)
Question(K, C, KV, CV, q) ==
  /\ q \in QuestionType(K, C, KV, CV)
  /\ q.at \in {"protocol", "url"} => q.provider \in C \ offered
  /\ q.at = "vectorUrl" => q.provider \in CV /\ vector[q.provider] = {}
  /\ q.at = "key" => \/ q.provider \in C \ offered
                     \/ q.provider \in KV
                     \/ q.provider \in CV /\ vector[q.provider] = {}
  /\ q.at = "default" => q.adding /\ q.provider \in C \ offered /\ q.old = NoKey
  /\ q.at \in {"vectorModels", "vectorDimensions"} => q.adding
  /\ q.at \in {"vectorModels", "vectorDimensions", "select", "dimensions"} =>
       /\ q.provider \in KV \cup CV
       /\ q.adding \/ vector[q.provider] # {}
  /\ q.adding => /\ q.at \in {"default", "vectorModels", "vectorDimensions", "select",
                              "dimensions"}
                 /\ credential[q.provider] # NoKey

(* A program that is down asks nothing, and one that asks for a new key of a *)
(* provider it has asks nothing else.                                        *)
Asked(K, C, KV, CV) ==
  /\ Question(K, C, KV, CV, setup)
  /\ ~running => setup.at = "none" /\ pending = Nobody
  /\ pending # Nobody => setup.at = "none" /\ pending \in K \cup offered

(* KeysAreProven and ReadyIsUsable, in the names of this module.             *)
Proven(K, C, KV, CV) ==
  /\ \A p \in (K \cup C \cup KV \cup CV) \ loose :
       /\ proven[p] = IF setup.adding /\ setup.provider = p THEN setup.old
                      ELSE credential[p]
       /\ p \in C => (p \in offered <=> proven[p] # NoKey)
       /\ p \in KV \cup CV => (vector[p] # {} <=> proven[p] # NoKey)
  /\ \A entry \in active : entry[2] \in vector[entry[1]]

Usable(K) ==
  ready /\ "ready" \notin loose /\ provider \notin loose
    => provider \in K \cup offered /\ credential[provider] # NoKey

SetupInv(K, C, KV, CV) ==
  /\ SetupTyped(K, C, KV, CV) /\ Asked(K, C, KV, CV)
  /\ Proven(K, C, KV, CV) /\ Usable(K)

(* The invariant is stronger than the properties the runs check.             *)
LEMMA SetupShows ==
  ASSUME NEW K, NEW C, NEW KV, NEW CV, SetupInv(K, C, KV, CV)
  PROVE  Setup(K, C, KV, CV)!KeysAreProven /\ Setup(K, C, KV, CV)!ReadyIsUsable
  <1>1. Setup(K, C, KV, CV)!ReadyIsUsable
    BY DEF SetupInv, Usable, Setup!ReadyIsUsable, Setup!Listed
  <1>2. \A p \in (DOMAIN credential) \ loose :
          /\ proven[p] = IF setup.adding /\ setup.provider = p THEN setup.old
                         ELSE credential[p]
          /\ p \in C => (p \in offered) = (proven[p] # NoKey)
          /\ p \in Setup(K, C, KV, CV)!VectorProvider =>
               (p \in Setup(K, C, KV, CV)!VectorListed) = (proven[p] # NoKey)
    <2>1. \A p \in (DOMAIN credential) \ loose :
            /\ proven[p] = IF setup.adding /\ setup.provider = p THEN setup.old
                           ELSE credential[p]
            /\ p \in C => (p \in offered <=> proven[p] # NoKey)
            /\ p \in Setup(K, C, KV, CV)!VectorProvider =>
                 (p \in Setup(K, C, KV, CV)!VectorListed <=> proven[p] # NoKey)
      BY DEF SetupInv, SetupTyped, Proven, Setup!VectorProvider, Setup!VectorListed
    <2>2. QED
      BY ONLY <2>1
  <1>3. Setup(K, C, KV, CV)!KeysAreProven
    BY <1>2 DEF SetupInv, Proven, Setup!KeysAreProven
  <1>4. QED
    BY <1>1, <1>3

(* Nothing was set up, and the program does not run.                         *)
LEMMA SetupBegin ==
  ASSUME NEW K, NEW C, NEW KV, NEW CV, Setup(K, C, KV, CV)!Init
  PROVE  SetupInv(K, C, KV, CV)
  <1> USE DEF Setup!Init, Setup!NoSetup, Setup!VectorProvider, Setup!Text
  <1>1. SetupTyped(K, C, KV, CV)
    BY DEF SetupTyped
  <1>2. Asked(K, C, KV, CV)
    <2>1. setup = [at |-> "none", provider |-> Nobody, adding |-> FALSE, old |-> NoKey,
                   asked |-> {}, found |-> {}]
      OBVIOUS
    <2>2. setup \in QuestionType(K, C, KV, CV)
      BY ONLY <2>1 DEF QuestionType, Steps
    <2>3. setup.at = "none" /\ setup.adding = FALSE /\ pending = Nobody
      BY <2>1
    <2>4. QED
      BY ONLY <2>2, <2>3 DEF Asked, Question
  <1>3. Proven(K, C, KV, CV) /\ Usable(K)
    BY DEF Proven, Usable
  <1>4. QED
    BY <1>1, <1>2, <1>3 DEF SetupInv

(* No wizard is open.                                                        *)
LEMMA NoQuestion ==
  ASSUME NEW K, NEW C, NEW KV, NEW CV
  PROVE  /\ Setup(K, C, KV, CV)!NoSetup \in QuestionType(K, C, KV, CV)
         /\ Setup(K, C, KV, CV)!NoSetup.at = "none"
         /\ Setup(K, C, KV, CV)!NoSetup.adding = FALSE
  BY DEF Setup!NoSetup, QuestionType, Steps

(* ... which says nothing of what is stored, before a step or after it.      *)
LEMMA QuietQuestion ==
  ASSUME NEW K, NEW C, NEW KV, NEW CV, NEW q \in QuestionType(K, C, KV, CV),
         q.at = "none", q.adding = FALSE
  PROVE  Question(K, C, KV, CV, q) /\ Question(K, C, KV, CV, q)'
  BY DEF Question

(* A question follows another one, and nothing else happens.                 *)
LEMMA AskKeeps ==
  ASSUME NEW K, NEW C, NEW KV, NEW CV, SetupInv(K, C, KV, CV), NEW q,
         Setup(K, C, KV, CV)!Ask(q), Question(K, C, KV, CV, q), running, pending = Nobody,
         q.adding = setup.adding,
         q.adding => q.provider = setup.provider /\ q.old = setup.old
  PROVE  SetupInv(K, C, KV, CV)'
  <1>1. /\ setup' = q
        /\ UNCHANGED <<running, credential, proven, loose, failures, offered, default,
                       vector, active, recorded, provider, ready, pending>>
    BY DEF Setup!Ask, Setup!store, Setup!files, Setup!choice
  <1>2. SetupTyped(K, C, KV, CV)'
    BY <1>1 DEF SetupInv, SetupTyped
  <1>3. Asked(K, C, KV, CV)'
    BY <1>1 DEF SetupInv, Asked, Question
  <1>4. Proven(K, C, KV, CV)' /\ Usable(K)'
    BY <1>1 DEF SetupInv, Proven, Usable
  <1>5. QED
    BY <1>2, <1>3, <1>4 DEF SetupInv

(* The wizard ends, and nothing else happens.                                *)
LEMMA EndKeeps ==
  ASSUME NEW K, NEW C, NEW KV, NEW CV, SetupInv(K, C, KV, CV),
         setup' = Setup(K, C, KV, CV)!NoSetup,
         UNCHANGED <<credential, proven, offered, default, vector, active, recorded,
                     provider, ready>>,
         loose' = loose \/ loose' = loose \cup {setup.provider},
         setup.adding => loose' = loose \cup {setup.provider},
         pending' = Nobody
  PROVE  SetupInv(K, C, KV, CV)'
  <1>1. Question(K, C, KV, CV, setup)' /\ setup'.at = "none" /\ setup'.adding = FALSE
    BY NoQuestion, QuietQuestion
  <1>2. SetupTyped(K, C, KV, CV)'
    BY DEF SetupInv, SetupTyped
  <1>3. Asked(K, C, KV, CV)'
    BY <1>1 DEF Asked
  <1>4. Proven(K, C, KV, CV)' /\ Usable(K)'
    BY <1>1 DEF SetupInv, Proven, Usable
  <1>5. QED
    BY <1>2, <1>3, <1>4 DEF SetupInv

(* The key of p is put back, and the wizard has ended.                       *)
LEMMA PutBackKeeps ==
  ASSUME NEW K, NEW C, NEW KV, NEW CV, Apart(K, C, KV, CV), SetupInv(K, C, KV, CV),
         NEW p \in K \cup C \cup KV \cup CV, NEW old \in Secret \cup {NoKey}, NEW n,
         Setup(K, C, KV, CV)!PutBack(p, old, n),
         Question(K, C, KV, CV, setup)', setup'.at = "none", setup'.adding = FALSE,
         UNCHANGED <<running, offered, default, vector, active, recorded, provider, ready>>,
         pending' = Nobody,
         setup.adding => setup.provider = p,
         p \notin loose => proven[p] = old,
         p \in K \cup offered => old = credential[p]
  PROVE  SetupInv(K, C, KV, CV)'
  <1>1. /\ proven' = proven
        /\ \/ credential' = [credential EXCEPT ![p] = old] /\ loose' = loose
           \/ credential' = credential /\ loose' = loose \cup {p}
    BY DEF Setup!PutBack
  <1>2. SetupTyped(K, C, KV, CV)'
    BY <1>1 DEF SetupInv, SetupTyped
  <1>3. Asked(K, C, KV, CV)'
    BY DEF Asked
  <1>4. Proven(K, C, KV, CV)'
    BY <1>1 DEF SetupInv, SetupTyped, Proven
  <1>5. Usable(K)'
    BY <1>1 DEF SetupInv, SetupTyped, Usable, Apart
  <1>6. QED
    BY <1>2, <1>3, <1>4, <1>5 DEF SetupInv

(* A wizard that ends takes back the key it has stored.                      *)
LEMMA GiveUpKeeps ==
  ASSUME NEW K, NEW C, NEW KV, NEW CV, Apart(K, C, KV, CV), SetupInv(K, C, KV, CV), NEW n,
         setup.at # "none", Setup(K, C, KV, CV)!GiveUp(n)
  PROVE  SetupInv(K, C, KV, CV)'
  <1>1. /\ pending' = Nobody /\ setup' = Setup(K, C, KV, CV)!NoSetup
        /\ UNCHANGED <<running, offered, default, vector, active, recorded, provider,
                       ready>>
    BY DEF SetupInv, Asked, Setup!GiveUp, Setup!files, Setup!choice
  <1>2. CASE setup.adding
    <2>1. Setup(K, C, KV, CV)!PutBack(setup.provider, setup.old, n)
      BY <1>2 DEF Setup!GiveUp
    <2>2. /\ setup.provider \in (C \ offered) \cup KV \cup CV
          /\ setup.old \in Secret \cup {NoKey}
          /\ setup.provider \notin loose => proven[setup.provider] = setup.old
      BY <1>2 DEF SetupInv, Asked, Question, QuestionType, Proven
    <2>3. setup.provider \notin K \cup offered
      BY <2>2 DEF Apart, SetupInv, SetupTyped
    <2>4. Question(K, C, KV, CV, setup)' /\ setup'.at = "none" /\ setup'.adding = FALSE
      BY <1>1, NoQuestion, QuietQuestion
    <2>5. QED
      BY <1>1, <2>1, <2>2, <2>3, <2>4, PutBackKeeps
  <1>3. CASE ~setup.adding
    <2>1. UNCHANGED <<credential, proven, loose>>
      BY <1>3 DEF Setup!GiveUp
    <2>2. QED
      BY <1>1, <1>3, <2>1, EndKeeps
  <1>4. QED
    BY <1>2, <1>3

(* The first questions of a wizard, and the answers that ask the next one.   *)
LEMMA AskingIs ==
  ASSUME NEW K, NEW C, NEW KV, NEW CV, NEW step \in Steps,
         NEW p \in K \cup C \cup KV \cup CV \cup {Nobody}
  PROVE  LET q == Setup(K, C, KV, CV)!Asking(step, p)
         IN  q \in QuestionType(K, C, KV, CV) /\ q.at = step /\ q.provider = p /\ ~q.adding
  BY NoQuestion DEF Setup!Asking, Setup!NoSetup, QuestionType

(* A question that stores nothing, asked while no key is being added.        *)
LEMMA BeginWizardKeeps ==
  ASSUME NEW K, NEW C, NEW KV, NEW CV, SetupInv(K, C, KV, CV), ~setup.adding,
         running, pending = Nobody, NEW step \in Steps,
         NEW p \in K \cup C \cup KV \cup CV \cup {Nobody},
         Setup(K, C, KV, CV)!Ask(Setup(K, C, KV, CV)!Asking(step, p)),
         step \notin {"default", "vectorModels", "vectorDimensions", "dimensions"},
         step \in {"protocol", "url"} => p \in C \ offered,
         step = "vectorUrl" => p \in CV /\ vector[p] = {},
         step = "key" => \/ p \in C \ offered
                         \/ p \in KV
                         \/ p \in CV /\ vector[p] = {},
         step = "select" => p \in KV \cup CV /\ vector[p] # {}
  PROVE  SetupInv(K, C, KV, CV)'
  <1> DEFINE q == Setup(K, C, KV, CV)!Asking(step, p)
  <1>1. q \in QuestionType(K, C, KV, CV) /\ q.at = step /\ q.provider = p /\ ~q.adding
    BY AskingIs
  <1>2. q.adding = setup.adding
    BY <1>1 DEF SetupInv, Asked, Question, QuestionType
  <1> HIDE DEF q
  <1>3. Question(K, C, KV, CV, q)
    BY <1>1 DEF Question
  <1>4. QED
    BY <1>1, <1>2, <1>3, AskKeeps DEF q

(* What an idle program is not doing.                                        *)
LEMMA IdleMeans ==
  ASSUME NEW K, NEW C, NEW KV, NEW CV, Setup(K, C, KV, CV)!Idle
  PROVE  running /\ setup.at = "none" /\ setup.adding = FALSE /\ pending = Nobody
  BY DEF Setup!Idle, Setup!NoSetup

(* A wizard is open only while the program runs, and no key is asked for     *)
(* then.                                                                     *)
LEMMA OpenMeans ==
  ASSUME NEW K, NEW C, NEW KV, NEW CV, SetupInv(K, C, KV, CV), setup.at # "none"
  PROVE  running /\ pending = Nobody
  BY DEF SetupInv, Asked

(* The commands that open a wizard, and the choice of the kind of vectors.   *)
LEMMA FirstQuestionKeeps ==
  ASSUME NEW K, NEW C, NEW KV, NEW CV, SetupInv(K, C, KV, CV),
         \/ Setup(K, C, KV, CV)!AddProvider
         \/ Setup(K, C, KV, CV)!SetUpVectors
         \/ Setup(K, C, KV, CV)!UpdateKey
         \/ Setup(K, C, KV, CV)!ChooseKind
  PROVE  SetupInv(K, C, KV, CV)'
  <1>1. ASSUME NEW step \in {"name", "vectorKind", "keySelect"},
               Setup(K, C, KV, CV)!Idle,
               Setup(K, C, KV, CV)!Ask(Setup(K, C, KV, CV)!Asking(step, Nobody))
        PROVE  SetupInv(K, C, KV, CV)'
    BY <1>1, IdleMeans, BeginWizardKeeps DEF Steps
  <1>2. CASE Setup(K, C, KV, CV)!ChooseKind
    <2>1. setup.at = "vectorKind" /\ running /\ pending = Nobody /\ ~setup.adding
      BY <1>2, OpenMeans DEF Setup!ChooseKind, SetupInv, Asked, Question
    <2>2. CASE Setup(K, C, KV, CV)!Ask(Setup(K, C, KV, CV)!Asking("vectorName", Nobody))
      BY <2>1, <2>2, BeginWizardKeeps DEF Steps
    <2>3. ASSUME NEW p \in KV,
                 Setup(K, C, KV, CV)!Ask(Setup(K, C, KV, CV)!Asking("key", p))
          PROVE  SetupInv(K, C, KV, CV)'
      BY <2>1, <2>3, BeginWizardKeeps DEF Steps
    <2>4. QED
      BY <1>2, <2>2, <2>3 DEF Setup!ChooseKind
  <1>3. QED
    BY <1>1, <1>2 DEF Setup!AddProvider, Setup!SetUpVectors, Setup!UpdateKey

(* An answer leads to the next question about the same provider.             *)
LEMMA AnswerKeeps ==
  ASSUME NEW K, NEW C, NEW KV, NEW CV, SetupInv(K, C, KV, CV), Setup(K, C, KV, CV)!Answer
  PROVE  SetupInv(K, C, KV, CV)'
  <1>1. /\ setup.at \in {"name", "protocol", "url", "vectorName", "vectorUrl"}
        /\ running /\ pending = Nobody /\ ~setup.adding
    BY OpenMeans DEF Setup!Answer, Setup!NextQuestion, SetupInv, Asked, Question
  <1>2. PICK p \in CASE setup.at = "name" -> C \ offered
                     [] setup.at = "vectorName" ->
                          CV \ Setup(K, C, KV, CV)!VectorListed
                     [] OTHER -> {setup.provider} :
          Setup(K, C, KV, CV)!Ask(
            Setup(K, C, KV, CV)!Asking(Setup(K, C, KV, CV)!NextQuestion[setup.at], p))
    BY DEF Setup!Answer
  <1>3. \/ p \in C \ offered /\ setup.at \in {"name", "protocol", "url"}
        \/ p \in CV /\ vector[p] = {} /\ setup.at \in {"vectorName", "vectorUrl"}
    BY <1>1, <1>2 DEF SetupInv, Asked, Question, Setup!VectorListed, Setup!VectorProvider
  <1>4. PICK step \in {"protocol", "url", "key", "vectorUrl"} :
          /\ step = Setup(K, C, KV, CV)!NextQuestion[setup.at]
          /\ setup.at \in {"name", "protocol", "url"} => step \in {"protocol", "url", "key"}
          /\ setup.at \in {"vectorName", "vectorUrl"} => step \in {"vectorUrl", "key"}
    BY <1>1 DEF Setup!NextQuestion
  <1>5. Setup(K, C, KV, CV)!Ask(Setup(K, C, KV, CV)!Asking(step, p))
    BY <1>2, <1>4
  <1>6. QED
    BY <1>1, <1>3, <1>4, <1>5, BeginWizardKeeps DEF Steps

(* The wizard is left.                                                       *)
LEMMA CancelKeeps ==
  ASSUME NEW K, NEW C, NEW KV, NEW CV, Apart(K, C, KV, CV), SetupInv(K, C, KV, CV),
         Setup(K, C, KV, CV)!CancelSetup
  PROVE  SetupInv(K, C, KV, CV)'
  BY GiveUpKeeps DEF Setup!CancelSetup

(* The key is stored before it is known to work, and what was there is kept. *)
LEMMA SubmitKeyKeeps ==
  ASSUME NEW K, NEW C, NEW KV, NEW CV, Apart(K, C, KV, CV), SetupInv(K, C, KV, CV),
         NEW secret \in Secret, Setup(K, C, KV, CV)!SubmitKey(secret)
  PROVE  SetupInv(K, C, KV, CV)'
  <1> DEFINE p == setup.provider
             old == IF p \in C THEN NoKey ELSE credential[p]
  <1>1. /\ setup.at = "key" /\ running /\ pending = Nobody /\ setup.adding = FALSE
        /\ pending' = Nobody
        /\ UNCHANGED <<running, offered, default, vector, active, recorded, provider,
                       ready>>
        /\ \/ p \in C \ offered
           \/ p \in KV
           \/ p \in CV /\ vector[p] = {}
    BY OpenMeans DEF Setup!SubmitKey, SetupInv, Asked, Question, QuestionType, Setup!files,
       Setup!choice
  <1>2. /\ old \in Secret \cup {NoKey} /\ p \notin K \cup offered
        /\ p \notin loose => proven[p] = old
    BY <1>1 DEF Apart, SetupInv, SetupTyped, Proven
  <1>3. CASE /\ setup' = Setup(K, C, KV, CV)!NoSetup
             /\ UNCHANGED <<credential, proven, loose>>
    BY <1>1, <1>3, EndKeeps
  <1>4. CASE /\ setup' = Setup(K, C, KV, CV)!NoSetup
             /\ Setup(K, C, KV, CV)!PutBack(p, old, 0)
    <2>1. Question(K, C, KV, CV, setup)' /\ setup'.at = "none" /\ setup'.adding = FALSE
      BY <1>4, NoQuestion, QuietQuestion
    <2> HIDE DEF old
    <2>2. QED
      BY <1>1, <1>2, <1>4, <2>1, PutBackKeeps
  <1>5. CASE /\ credential' = [credential EXCEPT ![p] = secret]
             /\ setup' = [Setup(K, C, KV, CV)!Asking(Setup(K, C, KV, CV)!AfterKey(p), p)
                            EXCEPT !.adding = TRUE, !.old = old,
                                   !.found = IF p \in KV THEN {First} ELSE {}]
             /\ UNCHANGED <<proven, loose>>
    <2>1. PICK step \in {"default", "vectorModels", "select"} :
            /\ step = Setup(K, C, KV, CV)!AfterKey(p)
            /\ step = "default" <=> p \in C
      BY <1>1 DEF Apart, Setup!AfterKey
    <2> HIDE DEF old
    <2>2. /\ setup' \in QuestionType(K, C, KV, CV) /\ setup'.at = step
          /\ setup'.provider = p /\ setup'.adding = TRUE /\ setup'.old = old
      <3>1. setup' = [at |-> step, provider |-> p, adding |-> TRUE, old |-> old,
                      asked |-> {}, found |-> IF p \in KV THEN {First} ELSE {}]
        BY <1>5, <2>1 DEF Setup!Asking, Setup!NoSetup
      <3>2. QED
        BY <1>1, <1>2, <2>1, <3>1 DEF QuestionType, Steps, Apart
    <2>3. SetupTyped(K, C, KV, CV)'
      BY <1>1, <1>5 DEF SetupInv, SetupTyped
    <2>4. /\ credential'[p] = secret /\ secret # NoKey
          /\ \A x \in K \cup C \cup KV \cup CV : x # p => credential'[x] = credential[x]
      BY <1>1, <1>5 DEF SetupInv, SetupTyped, Apart
    <2>5. Question(K, C, KV, CV, setup)'
      BY <1>1, <1>2, <2>1, <2>2, <2>4 DEF Question, old
    <2>6. Asked(K, C, KV, CV)'
      BY <1>1, <2>5 DEF Asked
    <2>7. Proven(K, C, KV, CV)'
      BY <1>1, <1>2, <1>5, <2>2, <2>4 DEF SetupInv, Proven
    <2>8. Usable(K)'
      BY <1>1, <1>5, <2>4 DEF SetupInv, SetupTyped, Usable
    <2>9. QED
      BY <2>3, <2>6, <2>7, <2>8 DEF SetupInv
  <1>6. QED
    BY <1>3, <1>4, <1>5 DEF Setup!SubmitKey

(* The default model of a new provider is chosen, or all of it is undone.    *)
LEMMA ChooseDefaultKeeps ==
  ASSUME NEW K, NEW C, NEW KV, NEW CV, Apart(K, C, KV, CV), SetupInv(K, C, KV, CV),
         Setup(K, C, KV, CV)!ChooseDefault
  PROVE  SetupInv(K, C, KV, CV)'
  <1> DEFINE p == setup.provider
  <1>1. /\ running /\ pending = Nobody /\ setup.adding = TRUE /\ setup.old = NoKey
        /\ p \in C \ offered /\ credential[p] # NoKey
        /\ setup' = Setup(K, C, KV, CV)!NoSetup
        /\ UNCHANGED <<running, vector, active, pending>>
    BY OpenMeans DEF Setup!ChooseDefault, SetupInv, Asked, Question, QuestionType
  <1>2. /\ Question(K, C, KV, CV, setup)' /\ setup'.at = "none" /\ setup'.adding = FALSE
        /\ Asked(K, C, KV, CV)'
    BY <1>1, NoQuestion, QuietQuestion DEF Asked
  <1> HIDE DEF p
  <1>3. CASE /\ offered' = offered \cup {p} /\ Setup(K, C, KV, CV)!Selected(p)
             /\ proven' = [proven EXCEPT ![p] = credential[p]]
             /\ loose' = loose \ {p, "ready"} /\ UNCHANGED credential
    <2>1. SetupTyped(K, C, KV, CV)'
      BY <1>1, <1>3 DEF SetupInv, SetupTyped, Setup!Selected
    <2>2. Proven(K, C, KV, CV)'
      BY <1>1, <1>2, <1>3 DEF SetupInv, SetupTyped, Proven, Apart, p
    <2>3. Usable(K)'
      BY <1>1, <1>3 DEF Usable, Setup!Selected
    <2>4. QED
      BY <1>2, <2>1, <2>2, <2>3 DEF SetupInv
  <1>4. ASSUME NEW n, NEW S, S \in {loose, loose \cup {"ready"}},
               Setup(K, C, KV, CV)!RollBack(p, n, S),
               UNCHANGED <<ready, default, proven>>,
               recorded' \in {recorded, provider, p},
               provider' = provider \/ (provider' = p /\ "ready" \in S)
        PROVE  SetupInv(K, C, KV, CV)'
    <2>1. PICK lost \in SUBSET {"catalog", "key"} :
            /\ offered' = IF "catalog" \in lost THEN offered \cup {p} ELSE offered
            /\ credential' = IF "key" \in lost THEN credential
                             ELSE [credential EXCEPT ![p] = NoKey]
            /\ loose' = IF lost = {} THEN S ELSE S \cup {p}
      BY <1>4 DEF Setup!RollBack
    <2>2. SetupTyped(K, C, KV, CV)'
      BY <1>1, <1>4, <2>1 DEF SetupInv, SetupTyped
    <2>3. /\ \A x \in K \cup C \cup KV \cup CV : x # p =>
               credential'[x] = credential[x] /\ (x \in offered' <=> x \in offered)
          /\ loose \subseteq loose'
          /\ p \in loose' \/ (offered' = offered /\ credential'[p] = NoKey)
      <3> USE DEF SetupInv
      <3>1. CASE lost = {}
        BY <1>1, <1>4, <2>1, <3>1 DEF SetupInv, SetupTyped
      <3>2. CASE lost # {}
        <4>1. loose' = S \cup {p} /\ loose \subseteq S
          BY <1>4, <2>1, <3>2
        <4>2. credential' \in {credential, [credential EXCEPT ![p] = NoKey]}
              /\ offered' \in {offered, offered \cup {p}}
          BY <2>1
        <4>3. QED
          BY ONLY <1>1, <4>1, <4>2, SetupTyped(K, C, KV, CV) DEF SetupTyped
      <3>3. QED
        BY <3>1, <3>2
    <2>4. Proven(K, C, KV, CV)'
      BY <1>1, <1>2, <1>4, <2>3 DEF SetupInv, Proven, p
    <2>5. p \notin K \cup offered
      BY <1>1 DEF Apart
    <2>6. Usable(K)'
      BY <1>1, <1>4, <2>1, <2>3, <2>5 DEF SetupInv, SetupTyped, Usable
    <2>7. QED
      BY <1>2, <2>2, <2>4, <2>6 DEF SetupInv
  <1>5. CASE /\ Setup(K, C, KV, CV)!RollBack(p, 0, loose)
             /\ UNCHANGED <<Setup(K, C, KV, CV)!choice, default, proven>>
    <2>1. UNCHANGED <<ready, default, proven, recorded, provider>>
      BY <1>5 DEF Setup!choice
    <2>2. /\ recorded' \in {recorded, provider, p} /\ provider' = provider
          /\ loose \in {loose, loose \cup {"ready"}}
      BY <2>1
    <2>3. QED
      BY ONLY <1>4, <1>5, <2>1, <2>2
  <1>6. CASE /\ recorded' = provider /\ UNCHANGED provider
             /\ Setup(K, C, KV, CV)!RollBack(p, 1, loose)
             /\ UNCHANGED <<ready, default, proven>>
    <2>1. /\ recorded' \in {recorded, provider, p} /\ provider' = provider
          /\ loose \in {loose, loose \cup {"ready"}}
      BY <1>6
    <2>2. QED
      BY ONLY <1>4, <1>6, <2>1
  <1>7. CASE /\ recorded' = p /\ provider' = p
             /\ Setup(K, C, KV, CV)!RollBack(p, 2, loose \cup {"ready"})
             /\ UNCHANGED <<ready, default, proven>>
    <2>1. /\ "ready" \in loose \cup {"ready"}
          /\ loose \cup {"ready"} \in {loose, loose \cup {"ready"}}
      OBVIOUS
    <2>2. QED
      BY <1>4, <1>7, <2>1
  <1>8. QED
    BY <1>3, <1>5, <1>6, <1>7 DEF Setup!ChooseDefault, p

(* Another provider is selected, or the one before selected again.           *)
LEMMA SwitchProviderKeeps ==
  ASSUME NEW K, NEW C, NEW KV, NEW CV, Apart(K, C, KV, CV), SetupInv(K, C, KV, CV),
         setup.adding = FALSE, pending = Nobody, NEW p,
         Setup(K, C, KV, CV)!SwitchProvider(p)
  PROVE  SetupInv(K, C, KV, CV)'
  <1>1. /\ p \in K \cup offered /\ credential[p] # NoKey
        /\ setup' = Setup(K, C, KV, CV)!NoSetup
        /\ UNCHANGED <<running, credential, proven, offered, vector, active, pending>>
        /\ \/ Setup(K, C, KV, CV)!Selected(p) /\ loose' = loose \ {"ready"}
           \/ UNCHANGED <<recorded, provider, ready, default, loose>>
           \/ recorded' = provider /\ UNCHANGED <<provider, ready, default, loose>>
           \/ /\ recorded' = p /\ provider' = p /\ UNCHANGED <<ready, default>>
              /\ loose' = loose \cup {"ready"}
    BY DEF Setup!SwitchProvider, Setup!Reselect, Setup!choice, Setup!Listed
  <1>2. /\ setup'.at = "none" /\ setup'.adding = FALSE /\ Asked(K, C, KV, CV)'
    BY <1>1, NoQuestion, QuietQuestion DEF Asked
  <1>3. SetupTyped(K, C, KV, CV)'
    BY <1>1 DEF SetupInv, SetupTyped, Setup!Selected
  <1>4. Proven(K, C, KV, CV)'
    BY <1>1, <1>2 DEF SetupInv, Proven, Apart
  <1>5. Usable(K)'
    BY <1>1 DEF SetupInv, SetupTyped, Usable, Setup!Selected
  <1>6. QED
    BY <1>2, <1>3, <1>4, <1>5 DEF SetupInv

(* ... from the wizard or by the command.                                    *)
LEMMA ChooseProviderKeeps ==
  ASSUME NEW K, NEW C, NEW KV, NEW CV, Apart(K, C, KV, CV), SetupInv(K, C, KV, CV),
         Setup(K, C, KV, CV)!ChooseProvider
  PROVE  SetupInv(K, C, KV, CV)'
  <1>1. CASE /\ Setup(K, C, KV, CV)!Idle
             /\ Setup(K, C, KV, CV)!Ask(Setup(K, C, KV, CV)!Asking("switch", Nobody))
    BY <1>1, IdleMeans, BeginWizardKeeps DEF Steps
  <1>2. ASSUME Setup(K, C, KV, CV)!Idle \/ setup.at = "switch"
        PROVE  setup.adding = FALSE /\ pending = Nobody
    BY <1>2, IdleMeans, OpenMeans DEF SetupInv, Asked, Question, QuestionType
  <1>3. QED
    BY <1>1, <1>2, SwitchProviderKeeps DEF Setup!ChooseProvider

(* A provider is removed, with its key and from use.                         *)
LEMMA RemoveProviderKeeps ==
  ASSUME NEW K, NEW C, NEW KV, NEW CV, Apart(K, C, KV, CV), SetupInv(K, C, KV, CV),
         NEW p, Setup(K, C, KV, CV)!RemoveProvider(p)
  PROVE  SetupInv(K, C, KV, CV)'
  <1>1. /\ running /\ setup.at = "none" /\ setup.adding = FALSE /\ pending = Nobody
        /\ p \in C /\ p \in offered /\ offered' = offered \ {p}
        /\ UNCHANGED <<running, vector, active, setup, pending>>
    BY IdleMeans DEF Setup!RemoveProvider, SetupInv, SetupTyped
  <1>2. Asked(K, C, KV, CV)' /\ setup'.adding = FALSE
    BY <1>1, QuietQuestion DEF SetupInv, Asked, Question
  <1>3. CASE /\ default = p /\ loose' = loose \cup {p}
             /\ UNCHANGED <<credential, default, recorded, provider, ready, proven>>
    <2>1. SetupTyped(K, C, KV, CV)'
      BY <1>1, <1>3 DEF SetupInv, SetupTyped
    <2>2. Proven(K, C, KV, CV)' /\ Usable(K)'
      BY <1>1, <1>3 DEF SetupInv, Proven, Usable
    <2>3. QED
      BY <1>2, <2>1, <2>2 DEF SetupInv
  <1>4. ASSUME NEW lost \in SUBSET {"key", "selection"},
               "selection" \in lost => provider = p,
               default' = IF default = p THEN Nobody ELSE default,
               credential' = IF "key" \in lost THEN credential
                             ELSE [credential EXCEPT ![p] = NoKey],
               proven' = [proven EXCEPT ![p] = NoKey],
               IF provider # p \/ "selection" \in lost
               THEN UNCHANGED <<recorded, provider, ready>>
               ELSE recorded' = Placeholder /\ provider' = Placeholder /\ ready' = FALSE,
               loose' = loose \cup (IF "key" \in lost THEN {p} ELSE {})
                          \cup (IF "selection" \in lost THEN {"ready"} ELSE {})
        PROVE  SetupInv(K, C, KV, CV)'
    <2>1. SetupTyped(K, C, KV, CV)'
      BY <1>1, <1>4 DEF SetupInv, SetupTyped
    <2>2. /\ \A x \in K \cup C \cup KV \cup CV : x # p =>
               credential'[x] = credential[x] /\ proven'[x] = proven[x]
          /\ proven'[p] = NoKey /\ loose \subseteq loose'
          /\ p \in loose' \/ credential'[p] = NoKey
          /\ "selection" \in lost => "ready" \in loose'
      BY <1>1, <1>4 DEF SetupInv, SetupTyped
    <2>3. Proven(K, C, KV, CV)'
      BY <1>1, <2>2 DEF SetupInv, Proven, Apart
    <2>4. Usable(K)'
      BY <1>1, <1>4, <2>2 DEF SetupInv, SetupTyped, Usable
    <2>5. QED
      BY <1>2, <2>1, <2>3, <2>4 DEF SetupInv
  <1>5. QED
    BY <1>3, <1>4 DEF Setup!RemoveProvider, Setup!choice

(* A new key is asked for.                                                   *)
LEMMA ConnectKeeps ==
  ASSUME NEW K, NEW C, NEW KV, NEW CV, SetupInv(K, C, KV, CV), NEW p,
         Setup(K, C, KV, CV)!Connect(p)
  PROVE  SetupInv(K, C, KV, CV)'
  <1>1. /\ running /\ setup.adding = FALSE /\ p \in K \cup offered
        /\ setup' = Setup(K, C, KV, CV)!NoSetup /\ pending' = p
        /\ UNCHANGED <<running, credential, proven, loose, failures, offered, default,
                       vector, active, recorded, provider, ready>>
    BY IdleMeans, OpenMeans DEF Setup!Connect, Setup!store, Setup!files, Setup!choice,
       Setup!Listed, SetupInv, Asked, Question, QuestionType
  <1>2. /\ setup'.at = "none" /\ setup'.adding = FALSE /\ Asked(K, C, KV, CV)'
    BY <1>1, NoQuestion, QuietQuestion DEF Asked
  <1>3. SetupTyped(K, C, KV, CV)'
    BY <1>1 DEF SetupInv, SetupTyped
  <1>4. Proven(K, C, KV, CV)' /\ Usable(K)'
    BY <1>1, <1>2 DEF SetupInv, Proven, Usable
  <1>5. QED
    BY <1>2, <1>3, <1>4 DEF SetupInv

(* ... and not given.                                                        *)
LEMMA CancelCredentialKeeps ==
  ASSUME NEW K, NEW C, NEW KV, NEW CV, SetupInv(K, C, KV, CV),
         Setup(K, C, KV, CV)!CancelCredential
  PROVE  SetupInv(K, C, KV, CV)'
  <1>1. /\ pending # Nobody /\ pending' = Nobody
        /\ UNCHANGED <<running, credential, proven, loose, offered, default, vector, active,
                       recorded, provider, ready, setup>>
    BY DEF Setup!CancelCredential, Setup!store, Setup!files, Setup!choice
  <1>2. setup.at = "none" /\ setup.adding = FALSE
    BY <1>1 DEF SetupInv, Asked, Question, QuestionType
  <1>3. Asked(K, C, KV, CV)'
    BY <1>1, <1>2, QuietQuestion DEF SetupInv, Asked, Question
  <1>4. SetupTyped(K, C, KV, CV)'
    BY <1>1 DEF SetupInv, SetupTyped
  <1>5. Proven(K, C, KV, CV)' /\ Usable(K)'
    BY <1>1 DEF SetupInv, Proven, Usable
  <1>6. QED
    BY <1>3, <1>4, <1>5 DEF SetupInv

(* A new key takes the place of the old one, or the old one is put back.     *)
LEMMA SubmitCredentialKeeps ==
  ASSUME NEW K, NEW C, NEW KV, NEW CV, Apart(K, C, KV, CV), SetupInv(K, C, KV, CV),
         NEW secret \in Secret, Setup(K, C, KV, CV)!SubmitCredential(secret)
  PROVE  SetupInv(K, C, KV, CV)'
  <1>1. /\ pending # Nobody /\ pending' = Nobody /\ pending \in K \cup offered
        /\ setup.at = "none" /\ setup.adding = FALSE
        /\ UNCHANGED <<running, offered, default, vector, active, recorded, provider, setup>>
        /\ credential[pending] \in Secret \cup {NoKey} /\ pending \in K \cup C
    BY DEF Setup!SubmitCredential, Setup!files, SetupInv, SetupTyped, Asked, Question,
       QuestionType
  <1>2. /\ Question(K, C, KV, CV, setup)' /\ setup'.at = "none" /\ setup'.adding = FALSE
        /\ Asked(K, C, KV, CV)'
    BY <1>1, QuietQuestion DEF SetupInv, Asked, Question
  <1>3. CASE /\ credential' = [credential EXCEPT ![pending] = secret]
             /\ proven' = [proven EXCEPT ![pending] = secret]
             /\ ready' = (ready \/ provider = pending)
             /\ loose' = loose \ {pending}
    <2>1. SetupTyped(K, C, KV, CV)'
      BY <1>1, <1>3 DEF SetupInv, SetupTyped
    <2>2. /\ credential'[pending] = secret /\ proven'[pending] = secret /\ secret # NoKey
          /\ \A x \in K \cup C \cup KV \cup CV : x # pending =>
               credential'[x] = credential[x] /\ proven'[x] = proven[x]
      BY <1>1, <1>3 DEF SetupInv, SetupTyped, Apart
    <2>3. pending \notin KV \cup CV /\ (pending \in C => pending \in offered)
      BY <1>1 DEF Apart
    <2>4. Proven(K, C, KV, CV)'
      BY <1>1, <1>3, <2>2, <2>3 DEF SetupInv, Proven
    <2>5. Usable(K)'
      BY <1>1, <1>3, <2>2 DEF SetupInv, SetupTyped, Usable, Apart
    <2>6. QED
      BY <1>2, <2>1, <2>4, <2>5 DEF SetupInv
  <1>4. CASE Setup(K, C, KV, CV)!PutBack(pending, credential[pending], 0) /\ UNCHANGED ready
    <2>1. pending \notin loose => proven[pending] = credential[pending]
      BY <1>1 DEF SetupInv, Proven
    <2>2. QED
      BY <1>1, <1>2, <1>4, <2>1, PutBackKeeps
  <1>5. CASE UNCHANGED <<credential, proven, ready, loose>>
    <2>1. SetupTyped(K, C, KV, CV)' /\ Proven(K, C, KV, CV)' /\ Usable(K)'
      BY <1>1, <1>5 DEF SetupInv, SetupTyped, Proven, Usable
    <2>2. QED
      BY <1>2, <2>1 DEF SetupInv
  <1>6. QED
    BY <1>3, <1>4, <1>5 DEF Setup!SubmitCredential

(* A question about the same provider follows one whose models are probed.   *)
LEMMA ReaskKeeps ==
  ASSUME NEW K, NEW C, NEW KV, NEW CV, SetupInv(K, C, KV, CV), NEW q,
         setup.at \in {"vectorModels", "vectorDimensions", "select"},
         q \in QuestionType(K, C, KV, CV),
         q.at \in {"vectorDimensions", "select", "dimensions"},
         q.at = "vectorDimensions" => setup.adding,
         q.provider = setup.provider, q.adding = setup.adding, q.old = setup.old,
         Setup(K, C, KV, CV)!Ask(q)
  PROVE  SetupInv(K, C, KV, CV)'
  <1>1. running /\ pending = Nobody
    BY OpenMeans
  <1>2. Question(K, C, KV, CV, q)
    BY DEF SetupInv, Asked, Question
  <1>3. QED
    BY <1>1, <1>2, AskKeeps

(* The models that were named are probed.                                    *)
LEMMA ProbeKeeps ==
  ASSUME NEW K, NEW C, NEW KV, NEW CV, Apart(K, C, KV, CV), SetupInv(K, C, KV, CV),
         setup.at \in {"vectorModels", "vectorDimensions"},
         NEW asked \in SUBSET VectorModel, NEW found \in SUBSET VectorModel,
         Setup(K, C, KV, CV)!ProbeFrom(asked, found)
  PROVE  SetupInv(K, C, KV, CV)'
  <1>1. setup \in QuestionType(K, C, KV, CV) /\ setup.adding
    BY DEF SetupInv, Asked, Question
  <1>2. ASSUME NEW step \in {"select", "vectorDimensions"}, NEW more \in SUBSET VectorModel,
               Setup(K, C, KV, CV)!Ask(
                 [setup EXCEPT !.at = step, !.asked = asked, !.found = more])
        PROVE  SetupInv(K, C, KV, CV)'
    <2> DEFINE q == [setup EXCEPT !.at = step, !.asked = asked, !.found = more]
    <2>1. /\ q \in QuestionType(K, C, KV, CV) /\ q.at = step
          /\ q.provider = setup.provider /\ q.adding = setup.adding /\ q.old = setup.old
      BY <1>1 DEF QuestionType, Steps
    <2>2. Setup(K, C, KV, CV)!Ask(q)
      BY <1>2
    <2> HIDE DEF q
    <2>3. /\ setup.at \in {"vectorModels", "vectorDimensions", "select"}
          /\ q.at \in {"vectorDimensions", "select", "dimensions"}
          /\ q.at = "vectorDimensions" => setup.adding
      BY <1>1, <2>1
    <2>4. QED
      BY ONLY SetupInv(K, C, KV, CV), <2>1, <2>2, <2>3, ReaskKeeps
  <1>3. QED
    BY <1>2, GiveUpKeeps DEF Setup!ProbeFrom

(* Models are named, or the dimensions of one given.                         *)
LEMMA NameModelsKeeps ==
  ASSUME NEW K, NEW C, NEW KV, NEW CV, Apart(K, C, KV, CV), SetupInv(K, C, KV, CV),
         Setup(K, C, KV, CV)!NameModels \/ Setup(K, C, KV, CV)!GiveDimensions
  PROVE  SetupInv(K, C, KV, CV)'
  <1>1. CASE Setup(K, C, KV, CV)!NameModels
    BY <1>1, ProbeKeeps DEF Setup!NameModels
  <1>2. CASE Setup(K, C, KV, CV)!GiveDimensions
    <2>1. PICK model \in setup.asked \ setup.found :
            Setup(K, C, KV, CV)!ProbeFrom(setup.asked, setup.found \cup {model})
      BY <1>2 DEF Setup!GiveDimensions
    <2>2. /\ setup.at = "vectorDimensions" /\ setup.asked \in SUBSET VectorModel
          /\ setup.found \cup {model} \in SUBSET VectorModel
      BY <1>2 DEF Setup!GiveDimensions, SetupInv, Asked, Question, QuestionType
    <2>3. QED
      BY <2>1, <2>2, ProbeKeeps
  <1>3. QED
    BY <1>1, <1>2

(* A verified model is made the active one, or the wizard ends.              *)
LEMMA CommitKeeps ==
  ASSUME NEW K, NEW C, NEW KV, NEW CV, Apart(K, C, KV, CV), SetupInv(K, C, KV, CV),
         setup.at \in {"select", "dimensions"}, NEW model \in VectorModel,
         Setup(K, C, KV, CV)!Commit(model)
  PROVE  SetupInv(K, C, KV, CV)'
  <1> DEFINE p == setup.provider
             verified == Setup(K, C, KV, CV)!Verified \cup {model}
  <1>1. /\ setup \in QuestionType(K, C, KV, CV) /\ running /\ pending = Nobody
        /\ p \in KV \cup CV /\ (setup.adding \/ vector[p] # {})
        /\ setup.adding => credential[p] # NoKey
        /\ vector[p] \in SUBSET VectorModel
    BY OpenMeans DEF SetupInv, SetupTyped, Asked, Question
  <1>2. verified \in SUBSET VectorModel /\ model \in verified
    BY <1>1 DEF Setup!Verified, QuestionType
  <1> HIDE DEF p, verified
  <1>3. CASE /\ setup' = Setup(K, C, KV, CV)!NoSetup
             /\ vector' = [vector EXCEPT ![p] = verified]
             /\ active' = {<<p, model>>}
             /\ proven' = IF setup.adding THEN [proven EXCEPT ![p] = credential[p]]
                          ELSE proven
             /\ loose' = IF setup.adding THEN loose \ {p} ELSE loose
             /\ UNCHANGED <<running, credential, offered, default, recorded, provider,
                            ready, pending>>
    <2>1. /\ setup'.at = "none" /\ setup'.adding = FALSE /\ Asked(K, C, KV, CV)'
      BY <1>1, <1>3, NoQuestion, QuietQuestion DEF Asked
    <2>2. /\ vector'[p] = verified /\ verified # {}
          /\ \A x \in KV \cup CV : x # p => vector'[x] = vector[x]
          /\ setup.adding => proven'[p] = credential[p]
          /\ \A x \in K \cup C \cup KV \cup CV :
               ~setup.adding \/ x # p => proven'[x] = proven[x]
      BY <1>1, <1>2, <1>3 DEF SetupInv, SetupTyped
    <2>3. SetupTyped(K, C, KV, CV)'
      <3>1. vector' \in [KV \cup CV -> SUBSET VectorModel]
        BY <1>1, <1>2, <1>3 DEF SetupInv, SetupTyped
      <3>2. proven' \in [K \cup C \cup KV \cup CV -> Secret \cup {NoKey}]
        BY <1>1, <1>3 DEF SetupInv, SetupTyped
      <3>3. active' \subseteq (KV \cup CV) \X VectorModel
        BY <1>1, <1>3
      <3>4. QED
        BY <1>3, <3>1, <3>2, <3>3 DEF SetupInv, SetupTyped
    <2>4. \A x \in (K \cup C \cup KV \cup CV) \ loose' :
            /\ proven'[x] = credential[x]
            /\ x \in C => (x \in offered <=> proven'[x] # NoKey)
            /\ x \in KV \cup CV => (vector'[x] # {} <=> proven'[x] # NoKey)
      <3>1. p \notin C
        BY <1>1 DEF Apart
      <3>2. QED
        BY <1>1, <1>3, <2>2, <3>1 DEF SetupInv, Proven, p
    <2>5. \A entry \in active' : entry[2] \in vector'[entry[1]]
      BY <1>2, <1>3, <2>2
    <2>6. Proven(K, C, KV, CV)'
      BY <1>3, <2>1, <2>4, <2>5 DEF Proven
    <2>7. Usable(K)'
      BY <1>1, <1>3 DEF SetupInv, SetupTyped, Usable, Apart
    <2>8. QED
      BY <2>1, <2>3, <2>6, <2>7 DEF SetupInv
  <1>4. CASE Setup(K, C, KV, CV)!GiveUp(1)
    <2>1. setup.at # "none"
      OBVIOUS
    <2>2. QED
      BY <1>4, <2>1, GiveUpKeeps
  <1>5. QED
    BY <1>3, <1>4 DEF Setup!Commit, Setup!choice, p, verified

(* A model is chosen, from those offered or not.                             *)
LEMMA SelectVectorModelKeeps ==
  ASSUME NEW K, NEW C, NEW KV, NEW CV, Apart(K, C, KV, CV), SetupInv(K, C, KV, CV),
         Setup(K, C, KV, CV)!SelectVectorModel
  PROVE  SetupInv(K, C, KV, CV)'
  <1>1. /\ setup.at \in {"select", "dimensions"} /\ running /\ pending = Nobody
        /\ setup \in QuestionType(K, C, KV, CV)
        /\ setup.provider \in KV \cup CV
        /\ vector[setup.provider] \in SUBSET VectorModel
    BY OpenMeans DEF Setup!SelectVectorModel, SetupInv, SetupTyped, Asked, Question
  <1>2. Setup(K, C, KV, CV)!Offered \subseteq VectorModel
    BY <1>1 DEF Setup!Offered, Setup!Verified, QuestionType
  <1>3. CASE /\ setup' = Setup(K, C, KV, CV)!NoSetup
             /\ loose' = IF setup.adding THEN loose \cup {setup.provider} ELSE loose
             /\ UNCHANGED <<running, credential, proven, failures, Setup(K, C, KV, CV)!files,
                            Setup(K, C, KV, CV)!choice, pending>>
    <2>1. /\ loose' = loose \/ loose' = loose \cup {setup.provider}
          /\ setup.adding => loose' = loose \cup {setup.provider}
          /\ pending' = Nobody
          /\ UNCHANGED <<credential, proven, offered, default, vector, active, recorded,
                         provider, ready>>
      BY <1>1, <1>3 DEF Setup!files, Setup!choice
    <2>2. QED
      BY <1>3, <2>1, EndKeeps
  <1>4. ASSUME NEW model \in VectorModel, Setup(K, C, KV, CV)!Commit(model)
        PROVE  SetupInv(K, C, KV, CV)'
    BY <1>1, <1>4, CommitKeeps
  <1>5. CASE setup.at = "select" /\ Setup(K, C, KV, CV)!GiveUp(0)
    BY <1>5, GiveUpKeeps
  <1>6. ASSUME NEW model \in VectorModel, setup.at = "select",
               Setup(K, C, KV, CV)!Ask([setup EXCEPT !.at = "dimensions", !.asked = {model}])
        PROVE  SetupInv(K, C, KV, CV)'
    <2> DEFINE q == [setup EXCEPT !.at = "dimensions", !.asked = {model}]
    <2>1. /\ q \in QuestionType(K, C, KV, CV) /\ q.at = "dimensions"
          /\ q.provider = setup.provider /\ q.adding = setup.adding /\ q.old = setup.old
      BY <1>1 DEF QuestionType, Steps
    <2>2. Setup(K, C, KV, CV)!Ask(q)
      BY <1>6
    <2> HIDE DEF q
    <2>3. /\ setup.at \in {"vectorModels", "vectorDimensions", "select"}
          /\ q.at \in {"vectorDimensions", "select", "dimensions"}
          /\ q.at = "vectorDimensions" => setup.adding
      BY <1>6, <2>1
    <2>4. QED
      BY ONLY SetupInv(K, C, KV, CV), <2>1, <2>2, <2>3, ReaskKeeps
  <1>7. CASE /\ setup.at = "dimensions"
             /\ \E model \in setup.asked : Setup(K, C, KV, CV)!Commit(model)
    <2>1. setup.asked \subseteq VectorModel
      BY <1>1 DEF QuestionType
    <2>2. QED
      BY <1>4, <1>7, <2>1
  <1>8. QED
    BY <1>2, <1>3, <1>4, <1>5, <1>6, <1>7 DEF Setup!SelectVectorModel

(* A provider of embeddings is chosen that is set up already.                *)
LEMMA SwitchVectorsKeeps ==
  ASSUME NEW K, NEW C, NEW KV, NEW CV, SetupInv(K, C, KV, CV),
         Setup(K, C, KV, CV)!SwitchVectors
  PROVE  SetupInv(K, C, KV, CV)'
  <1>1. CASE /\ Setup(K, C, KV, CV)!Idle
             /\ Setup(K, C, KV, CV)!Ask(Setup(K, C, KV, CV)!Asking("vectorSwitch", Nobody))
    BY <1>1, IdleMeans, BeginWizardKeeps DEF Steps
  <1>2. ASSUME Setup(K, C, KV, CV)!Idle \/ setup.at = "vectorSwitch"
        PROVE  running /\ pending = Nobody /\ ~setup.adding
    BY <1>2, IdleMeans, OpenMeans DEF SetupInv, Asked, Question
  <1>3. ASSUME Setup(K, C, KV, CV)!Idle \/ setup.at = "vectorSwitch",
               NEW p \in Setup(K, C, KV, CV)!VectorListed,
               Setup(K, C, KV, CV)!Ask(Setup(K, C, KV, CV)!Asking("select", p))
        PROVE  SetupInv(K, C, KV, CV)'
    <2>1. p \in KV \cup CV /\ vector[p] # {}
      BY DEF Setup!VectorListed, Setup!VectorProvider
    <2>2. QED
      BY <1>2, <1>3, <2>1, BeginWizardKeeps DEF Steps
  <1>4. QED
    BY <1>1, <1>3 DEF Setup!SwitchVectors

(* All providers of embeddings go, and as many of their keys as can be       *)
(* deleted.                                                                  *)
LEMMA ClearVectorsKeeps ==
  ASSUME NEW K, NEW C, NEW KV, NEW CV, Apart(K, C, KV, CV), SetupInv(K, C, KV, CV),
         Setup(K, C, KV, CV)!ClearVectors
  PROVE  SetupInv(K, C, KV, CV)'
  <1>1. CASE /\ Setup(K, C, KV, CV)!Idle
             /\ Setup(K, C, KV, CV)!Ask(Setup(K, C, KV, CV)!Asking("vectorClear", Nobody))
    BY <1>1, IdleMeans, BeginWizardKeeps DEF Steps
  <1>2. CASE /\ setup.at = "vectorClear" /\ setup' = Setup(K, C, KV, CV)!NoSetup
             /\ UNCHANGED <<running, offered, default, Setup(K, C, KV, CV)!choice, pending>>
             /\ \/ UNCHANGED <<credential, proven, loose, vector, active>>
                \/ \E lost \in SUBSET Setup(K, C, KV, CV)!VectorListed :
                     /\ credential' = [p \in DOMAIN credential |->
                          IF p \in Setup(K, C, KV, CV)!VectorListed \ lost THEN NoKey
                          ELSE credential[p]]
                     /\ proven' = [p \in DOMAIN proven |->
                          IF p \in Setup(K, C, KV, CV)!VectorListed THEN NoKey ELSE proven[p]]
                     /\ loose' = loose \cup lost
                     /\ vector' = [p \in KV \cup CV |-> {}] /\ active' = {}
    <2> DEFINE L == Setup(K, C, KV, CV)!VectorListed
    <2>1. /\ running /\ pending = Nobody /\ setup.adding = FALSE
          /\ UNCHANGED <<recorded, provider, ready>>
          /\ L = {p \in KV \cup CV : vector[p] # {}}
      BY <1>2, OpenMeans DEF SetupInv, Asked, Question, QuestionType, Setup!choice,
         Setup!VectorListed, Setup!VectorProvider
    <2>2. CASE UNCHANGED <<credential, proven, loose, vector, active>>
      BY <1>2, <2>1, <2>2, EndKeeps
    <2>3. ASSUME NEW lost \in SUBSET L,
                 credential' = [p \in DOMAIN credential |->
                                  IF p \in L \ lost THEN NoKey ELSE credential[p]],
                 proven' = [p \in DOMAIN proven |-> IF p \in L THEN NoKey ELSE proven[p]],
                 loose' = loose \cup lost,
                 vector' = [p \in KV \cup CV |-> {}], active' = {}
          PROVE  SetupInv(K, C, KV, CV)'
      <3> HIDE DEF L
      <3>1. /\ setup'.at = "none" /\ setup'.adding = FALSE /\ Asked(K, C, KV, CV)'
        <4>1. setup' = Setup(K, C, KV, CV)!NoSetup /\ pending' = Nobody
          BY <1>2, <2>1
        <4>2. QED
          BY ONLY <4>1, NoQuestion, QuietQuestion DEF Asked
      <3>2. SetupTyped(K, C, KV, CV)'
        BY <1>2, <2>1, <2>3 DEF SetupInv, SetupTyped
      <3>3. Proven(K, C, KV, CV)'
        BY <1>2, <2>1, <2>3, <3>1 DEF SetupInv, SetupTyped, Proven, Apart
      <3>4. Usable(K)'
        BY <1>2, <2>1, <2>3 DEF SetupInv, SetupTyped, Usable, Apart
      <3>5. QED
        BY <3>1, <3>2, <3>3, <3>4 DEF SetupInv
    <2>4. QED
      BY <1>2, <2>2, <2>3
  <1>3. QED
    BY <1>1, <1>2 DEF Setup!ClearVectors, Setup!VectorProvider

(* The program starts with the default provider, or with its session's.      *)
LEMMA SetupStartKeeps ==
  ASSUME NEW K, NEW C, NEW KV, NEW CV, Apart(K, C, KV, CV), SetupInv(K, C, KV, CV),
         Setup(K, C, KV, CV)!Start
  PROVE  SetupInv(K, C, KV, CV)'
  <1> DEFINE Wanted(resumed) == IF default # Nobody THEN default ELSE resumed
             Best(resumed) == IF Wanted(resumed) \in K \cup offered THEN Wanted(resumed)
                           ELSE Placeholder
             Own(resumed) == IF resumed = Nobody THEN Best(resumed) ELSE resumed
  <1>1. /\ ~running /\ running' = TRUE
        /\ UNCHANGED <<credential, proven, offered, default, vector, active, setup, pending>>
    BY DEF Setup!Start, Setup!files
  <1>2. PICK resumed \in K \cup offered \cup {Placeholder, Nobody} :
          /\ recorded' = Own(resumed) /\ provider' = Own(resumed)
          /\ ready' = (Best(resumed) # Placeholder /\ credential[Best(resumed)] # NoKey)
          /\ loose' = IF Own(resumed) = Best(resumed) THEN loose \ {"ready"}
                      ELSE loose \cup {"ready"}
    BY DEF Setup!Start, Setup!Listed
  <1>3. Best(resumed) \in K \cup offered \cup {Placeholder}
    OBVIOUS
  <1>4. Own(resumed) \in K \cup offered \cup {Placeholder}
    BY <1>3
  <1> HIDE DEF Best, Own
  <1>5. /\ setup.at = "none" /\ setup.adding = FALSE /\ pending = Nobody
        /\ setup \in QuestionType(K, C, KV, CV) /\ offered \subseteq C
    BY <1>1 DEF SetupInv, SetupTyped, Asked, Question, QuestionType
  <1>6. Asked(K, C, KV, CV)' /\ setup'.adding = FALSE
    BY <1>1, <1>5, QuietQuestion DEF Asked
  <1>7. SetupTyped(K, C, KV, CV)'
    BY <1>1, <1>2, <1>4, <1>5 DEF SetupInv, SetupTyped
  <1>8. Proven(K, C, KV, CV)'
    BY <1>1, <1>2 DEF SetupInv, Proven, Apart
  <1>9. Usable(K)'
    BY <1>1, <1>2, <1>3 DEF Usable
  <1>10. QED
    BY <1>6, <1>7, <1>8, <1>9 DEF SetupInv

(* What a killed program leaves: no question, and no task taken.             *)
LEMMA DownKeeps ==
  ASSUME NEW K, NEW C, NEW KV, NEW CV, SetupInv(K, C, KV, CV),
         Setup(K, C, KV, CV)!Down, SetupTyped(K, C, KV, CV)',
         UNCHANGED proven, loose \subseteq loose',
         setup.adding => setup.provider \in loose',
         \A x \in (K \cup C \cup KV \cup CV) \ loose' :
           /\ credential'[x] = credential[x]
           /\ x \in C => (x \in offered' <=> x \in offered)
           /\ x \in KV \cup CV => (vector'[x] # {} <=> vector[x] # {}),
         \A entry \in active' : entry[2] \in vector'[entry[1]]
  PROVE  SetupInv(K, C, KV, CV)'
  <1>1. /\ setup' = Setup(K, C, KV, CV)!NoSetup /\ pending' = Nobody
        /\ running' = FALSE /\ ready' = FALSE
    BY DEF Setup!Down
  <1>2. /\ Asked(K, C, KV, CV)' /\ setup'.adding = FALSE
    BY <1>1, NoQuestion, QuietQuestion DEF Asked
  <1>3. Proven(K, C, KV, CV)'
    BY <1>2 DEF SetupInv, Proven
  <1>4. Usable(K)'
    BY <1>1 DEF Usable
  <1>5. QED
    BY <1>2, <1>3, <1>4 DEF SetupInv

(* The process is killed between two steps.                                  *)
LEMMA SetupKillKeeps ==
  ASSUME NEW K, NEW C, NEW KV, NEW CV, SetupInv(K, C, KV, CV), Setup(K, C, KV, CV)!Kill
  PROVE  SetupInv(K, C, KV, CV)'
  <1>1. /\ Setup(K, C, KV, CV)!Down /\ provider' = Placeholder
        /\ loose' = IF setup.adding THEN loose \cup {setup.provider} ELSE loose
        /\ UNCHANGED <<credential, proven, offered, default, vector, active, recorded>>
    BY DEF Setup!Kill, Setup!Down, Setup!files
  <1>2. SetupTyped(K, C, KV, CV)'
    BY <1>1 DEF SetupInv, SetupTyped
  <1>3. \A entry \in active' : entry[2] \in vector'[entry[1]]
    BY <1>1 DEF SetupInv, Proven
  <1>4. QED
    BY <1>1, <1>2, <1>3, DownKeeps

(* ... and one that is killed between two writes.                            *)
LEMMA KillWithinKeeps ==
  ASSUME NEW K, NEW C, NEW KV, NEW CV, Apart(K, C, KV, CV), SetupInv(K, C, KV, CV),
         Setup(K, C, KV, CV)!KillWithin
  PROVE  SetupInv(K, C, KV, CV)'
  <1>1. Setup(K, C, KV, CV)!Down /\ UNCHANGED proven /\ provider' = Placeholder
    BY DEF Setup!KillWithin, Setup!Down
  <1>2. CASE /\ setup.at = "default"
             /\ offered' = offered \cup {setup.provider}
             /\ recorded' \in {recorded, setup.provider}
             /\ loose' = loose \cup {setup.provider}
             /\ UNCHANGED <<credential, default, vector, active>>
    <2>1. setup.provider \in C
      BY <1>2 DEF SetupInv, Asked, Question
    <2>2. SetupTyped(K, C, KV, CV)'
      BY <1>1, <1>2, <2>1 DEF SetupInv, SetupTyped
    <2>3. \A entry \in active' : entry[2] \in vector'[entry[1]]
      BY <1>2 DEF SetupInv, Proven
    <2>4. QED
      BY <1>1, <1>2, <2>2, <2>3, DownKeeps
  <1>3. ASSUME NEW p \in offered, Setup(K, C, KV, CV)!Idle, offered' = offered \ {p},
               default' \in {default, IF default = p THEN Nobody ELSE default},
               credential' \in {credential, [credential EXCEPT ![p] = NoKey]},
               loose' = loose \cup {p}, UNCHANGED <<vector, active, recorded>>
        PROVE  SetupInv(K, C, KV, CV)'
    <2>1. setup.adding = FALSE
      BY <1>3, IdleMeans
    <2>2. SetupTyped(K, C, KV, CV)'
      BY <1>1, <1>3 DEF SetupInv, SetupTyped
    <2>3. \A entry \in active' : entry[2] \in vector'[entry[1]]
      BY <1>3 DEF SetupInv, Proven
    <2>4. \A x \in (K \cup C \cup KV \cup CV) \ loose' : credential'[x] = credential[x]
      BY <1>3 DEF SetupInv, SetupTyped
    <2>5. QED
      BY <1>1, <1>3, <2>1, <2>2, <2>3, <2>4, DownKeeps
  <1>4. ASSUME NEW cleared \in SUBSET Setup(K, C, KV, CV)!VectorListed,
               setup.at = "vectorClear",
               vector' = [p \in KV \cup CV |-> {}], active' = {},
               credential' = [p \in DOMAIN credential |->
                                IF p \in cleared THEN NoKey ELSE credential[p]],
               loose' = loose \cup Setup(K, C, KV, CV)!VectorListed,
               UNCHANGED <<offered, default, recorded>>
        PROVE  SetupInv(K, C, KV, CV)'
    <2>1. ~setup.adding
      BY <1>4 DEF SetupInv, Asked, Question
    <2>2. SetupTyped(K, C, KV, CV)'
      BY <1>1, <1>4 DEF SetupInv, SetupTyped
    <2>3. \A x \in (K \cup C \cup KV \cup CV) \ loose' :
            /\ credential'[x] = credential[x]
            /\ x \in KV \cup CV => (vector'[x] # {} <=> vector[x] # {})
      BY <1>4 DEF SetupInv, SetupTyped, Setup!VectorListed, Setup!VectorProvider
    <2>4. QED
      BY <1>1, <1>4, <2>1, <2>2, <2>3, DownKeeps
  <1>5. ASSUME NEW secret \in Secret, pending # Nobody,
               credential' = [credential EXCEPT ![pending] = secret],
               loose' = loose \cup {pending},
               UNCHANGED <<offered, default, vector, active, recorded>>
        PROVE  SetupInv(K, C, KV, CV)'
    <2>1. ~setup.adding
      BY <1>5 DEF SetupInv, Asked, Question
    <2>2. SetupTyped(K, C, KV, CV)'
      BY <1>1, <1>5 DEF SetupInv, SetupTyped
    <2>3. \A entry \in active' : entry[2] \in vector'[entry[1]]
      BY <1>5 DEF SetupInv, Proven
    <2>4. \A x \in (K \cup C \cup KV \cup CV) \ loose' : credential'[x] = credential[x]
      BY <1>5 DEF SetupInv, SetupTyped
    <2>5. QED
      BY <1>1, <1>5, <2>1, <2>2, <2>3, <2>4, DownKeeps
  <1>6. QED
    BY <1>2, <1>3, <1>4, <1>5 DEF Setup!KillWithin, Setup!files, Setup!VectorProvider

(* One step for every command.                                               *)
LEMMA SetupStep ==
  ASSUME NEW K, NEW C, NEW KV, NEW CV, Apart(K, C, KV, CV), SetupInv(K, C, KV, CV),
         Setup(K, C, KV, CV)!Next
  PROVE  SetupInv(K, C, KV, CV)'
  BY FirstQuestionKeeps, AnswerKeeps, CancelKeeps, SubmitKeyKeeps, SubmitCredentialKeeps,
     ChooseDefaultKeeps, ChooseProviderKeeps, CancelCredentialKeeps, RemoveProviderKeeps,
     ConnectKeeps, NameModelsKeeps, SelectVectorModelKeeps, SwitchVectorsKeeps,
     ClearVectorsKeeps, SetupStartKeeps, SetupKillKeeps, KillWithinKeeps DEF Setup!Next

(* The other parts of the instance leave the set-up alone.                   *)
LEMMA SetupStays ==
  ASSUME NEW K, NEW C, NEW KV, NEW CV, SetupInv(K, C, KV, CV), providersFixed
  PROVE  SetupInv(K, C, KV, CV)'
  <1>1. SetupTyped(K, C, KV, CV)'
    BY DEF providersFixed, SetupInv, SetupTyped
  <1>2. Asked(K, C, KV, CV)'
    BY DEF providersFixed, SetupInv, Asked, Question
  <1>3. Proven(K, C, KV, CV)' /\ Usable(K)'
    BY DEF providersFixed, SetupInv, Proven, Usable
  <1>4. QED
    BY <1>1, <1>2, <1>3 DEF SetupInv

-----------------------------------------------------------------------------
(* The servers, the plugins and the catalogue.                               *)

(* What a plugin brings, whether it is in or not.                            *)
Brings(p) == {SkillsOf[p][i] : i \in DOMAIN SkillsOf[p]} \cup
             {ServersOf[p][i] : i \in DOMAIN ServersOf[p]}

(* What a command has yet to do.                                             *)
StillLeft == {command.left[i] : i \in DOMAIN command.left}

(* All the tools of an owner.                                                *)
Numbers == 1..MaxTool
AllTools(o) == {o} \X Numbers

(* What is in the catalogue of an owner.                                     *)
Registered(o) == {t \in catalog : t[1] = o}

(* The command under way, and whose it is.                                   *)
Doing(what) == command.do \in what
Working(what, o) == command.do \in what /\ command.on = o

CommandTyped ==
  /\ command = Servers!Idle \/
       command \in [do : {"connect", "activate", "register", "extend"},
                    on : Server \cup Plugin, left : Seq(Numbers \cup Skill \cup Server),
                    done : SUBSET (Servers!Tool \cup Skill \cup Server)]
  /\ Doing({"connect"}) =>
       /\ command.on \in Server /\ StillLeft \subseteq Numbers
       /\ command.done \subseteq AllTools(command.on)
       /\ server[command.on].status = "connecting" /\ server[command.on].enabled
  /\ Doing({"activate", "register"}) =>
       /\ command.on \in Plugin /\ StillLeft \subseteq Numbers
       /\ plugin[command.on].status = "activating"
       /\ command.done \cup ({command.on} \X StillLeft) = AllTools(command.on)
       /\ Doing({"activate"}) => command.done = {}
  /\ Doing({"extend"}) =>
       /\ command.on \in Plugin
       /\ plugin[command.on].status = "active" /\ ~extension[command.on]
       /\ command.done \cup StillLeft = Brings(command.on)

(* What the manager knows of a server.                                       *)
ServerRecord ==
  [status : Servers!Status, enabled : BOOLEAN, tools : SUBSET Servers!Tool]

PluginRecord ==
  [status : Servers!Lifecycle, review : 0..(MaxChange + 1), tools : SUBSET Servers!Tool]

(* The types, but for the command's.                                         *)
ServersTyped ==
  /\ file \in [Server -> Servers!Entry]
  /\ server \in [Server -> ServerRecord]
  /\ catalog \subseteq Servers!Tool
  /\ plugin \in [Plugin -> PluginRecord]
  /\ disk \in [Plugin -> [version : 1..(MaxChange + 1), gone : SUBSET {"entry", "parts"}]]
  /\ \A p \in Plugin : disk[p].version <= changes + 1
  /\ changes \in 0..MaxChange
  /\ extension \in [Plugin -> BOOLEAN]
  /\ skill \in [Skill -> {"none", "user"} \cup Plugin]
  /\ loaded \subseteq Skill

(* Whose tools are in the catalogue, also while one connects or activates.   *)
CatalogOwned ==
  /\ \A s \in Server :
       /\ Registered(s) =
            IF Working({"connect"}, s) THEN command.done ELSE server[s].tools
       /\ server[s].tools # {} => server[s].status \in {"ready", "degraded"}
  /\ \A p \in Plugin :
       /\ Registered(p) =
            IF Working({"activate", "register"}, p) THEN command.done ELSE plugin[p].tools
       /\ plugin[p].tools # {} => plugin[p].status \in {"active", "draining"}
       /\ plugin[p].status = "active" => plugin[p].tools = AllTools(p)

(* The file is in force at any time.                                         *)
FileInForce ==
  /\ configs = file
  /\ allowed = {s \in Server : file[s] = "on"}
  /\ \A s \in Server : file[s] # "none" =>
       /\ server[s].status # "absent"
       /\ server[s].enabled = (file[s] = "on")
       /\ ~server[s].enabled => server[s].status = "disconnected"

(* Who has brought in a skill or a server: a plugin, or one that is at it.   *)
In(p, x) ==
  \/ extension[p] /\ x \in Brings(p)
  \/ Working({"extend"}, p) /\ x \in command.done

PluginsWhole ==
  /\ \A p \in Plugin : extension[p] => plugin[p].status = "active"
  /\ \A p \in Plugin : \A k \in Skill : In(p, k) => skill[k] = p
  /\ \A p \in Plugin : \A s \in Server :
       In(p, s) => server[s].status # "absent" /\ configs[s] = "none"
  /\ \A p, q \in Plugin : \A s \in Server : In(p, s) /\ In(q, s) => p = q
  /\ \A k \in Skill : skill[k] \in Plugin => In(skill[k], k)
  /\ \A s \in Server :
       server[s].status # "absent" => configs[s] # "none" \/ \E p \in Plugin : In(p, s)

ServersInv ==
  ServersTyped /\ CommandTyped /\ CatalogOwned /\ FileInForce /\ PluginsWhole

(* No tool is both a server's and a plugin's, no name both a skill's and a   *)
(* server's.                                                                 *)
LEMMA OwnersApart ==
  /\ \A s \in Server : s \notin Plugin /\ s \notin Skill
  /\ "none" \notin Plugin /\ "user" \notin Plugin
  /\ MaxTool \in Nat /\ MaxChange \in Nat
  BY InstanceAssumption

(* Between commands nothing is under way.                                    *)
LEMMA IdleIs ==
  ASSUME command = Servers!Idle
  PROVE  /\ CommandTyped
         /\ \A o : /\ ~Working({"connect"}, o)
                   /\ ~Working({"activate", "register"}, o)
                   /\ ~Working({"extend"}, o)
  BY DEF CommandTyped, Doing, Working, Servers!Idle

LEMMA IdleNext ==
  ASSUME command' = Servers!Idle
  PROVE  /\ CommandTyped'
         /\ \A o : /\ ~Working({"connect"}, o)'
                   /\ ~Working({"activate", "register"}, o)'
                   /\ ~Working({"extend"}, o)'
  BY DEF CommandTyped, Doing, Working, Servers!Idle

(* A server or a plugin that has no command under way has the tools that are *)
(* in the catalogue under its name.                                          *)
LEMMA ServerTools ==
  ASSUME ServersInv, command = Servers!Idle, NEW s \in Server
  PROVE  /\ Registered(s) = server[s].tools
         /\ server[s].tools \subseteq catalog
         /\ \A t \in server[s].tools : t[1] = s
  BY IdleIs DEF ServersInv, CatalogOwned, Registered

(* /mcp add                                                                  *)
LEMMA AddServerKeeps ==
  ASSUME ServersInv, NEW s \in Server, Servers!AddServer(s)
  PROVE  ServersInv'
  <1>1. command = Servers!Idle /\ command' = Servers!Idle
    BY DEF Servers!AddServer, Servers!Ready
  <1> USE <1>1, IdleIs, IdleNext
  <1>2. ServersTyped'
    BY DEF ServersInv, ServersTyped, Servers!AddServer, Servers!Added, Servers!Entry,
           ServerRecord, Servers!Status, Servers!plugins, Servers!bounds, FileInForce
  <1>3. CatalogOwned'
    BY DEF ServersInv, ServersTyped, ServerRecord, CatalogOwned, Servers!AddServer, Servers!Added,
           Servers!plugins, Registered
  <1>4. FileInForce'
    BY DEF ServersInv, ServersTyped, ServerRecord, FileInForce, Servers!AddServer, Servers!Added,
           Servers!Entry
  <1>5. PluginsWhole'
    BY DEF ServersInv, ServersTyped, ServerRecord, FileInForce, PluginsWhole, In, Servers!AddServer,
           Servers!Added, Servers!plugins
  <1>6. QED
    BY <1>2, <1>3, <1>4, <1>5 DEF ServersInv

(* A server that could not be written down is taken out again.               *)
LEMMA AddUnwrittenKeeps ==
  ASSUME ServersInv, NEW s \in Server, Servers!AddUnwritten(s)
  PROVE  ServersInv'
  <1>1. command = Servers!Idle /\ command' = Servers!Idle
    BY DEF Servers!AddUnwritten, Servers!Ready
  <1> USE <1>1, IdleIs, IdleNext
  <1>2. ServersTyped'
    BY DEF ServersInv, ServersTyped, FileInForce, Servers!Entry, Servers!Status,
           ServerRecord, Servers!AddUnwritten, Servers!plugins, Servers!bounds,
           Servers!Fault
  <1>3. CatalogOwned'
    BY DEF ServersInv, ServersTyped, ServerRecord, CatalogOwned, Registered,
           Servers!AddUnwritten, Servers!plugins, Servers!bounds, Servers!Fault
  <1>4. FileInForce'
    BY DEF ServersInv, ServersTyped, ServerRecord, FileInForce, Servers!Entry,
           Servers!AddUnwritten, Servers!plugins, Servers!bounds, Servers!Fault
  <1>5. PluginsWhole'
    BY DEF ServersInv, ServersTyped, ServerRecord, FileInForce, PluginsWhole, In,
           Servers!AddUnwritten, Servers!plugins, Servers!bounds, Servers!Fault
  <1>6. QED
    BY <1>2, <1>3, <1>4, <1>5 DEF ServersInv

(* /mcp enable                                                               *)
LEMMA EnableServerKeeps ==
  ASSUME ServersInv, NEW s \in Server, Servers!EnableServer(s)
  PROVE  ServersInv'
  <1>1. command = Servers!Idle /\ command' = Servers!Idle
    BY DEF Servers!EnableServer, Servers!Ready
  <1> USE <1>1, IdleIs, IdleNext
  <1>2. ServersTyped'
    BY ZenonT(40) DEF ServersInv, ServersTyped, FileInForce, Servers!Entry, Servers!Status,
           ServerRecord, Servers!EnableServer, Servers!plugins, Servers!bounds
  <1>3. CatalogOwned'
    BY DEF ServersInv, ServersTyped, ServerRecord, CatalogOwned, Registered,
           Servers!EnableServer, Servers!plugins, Servers!bounds
  <1>4. FileInForce'
    BY ZenonT(40) DEF ServersInv, ServersTyped, ServerRecord, FileInForce, Servers!Entry,
           Servers!EnableServer, Servers!plugins, Servers!bounds
  <1>5. PluginsWhole'
    BY DEF ServersInv, ServersTyped, ServerRecord, FileInForce, PluginsWhole, In,
           Servers!EnableServer, Servers!plugins, Servers!bounds
  <1>6. QED
    BY <1>2, <1>3, <1>4, <1>5 DEF ServersInv

(* /skills load                                                              *)
LEMMA LoadKeeps ==
  ASSUME ServersInv, NEW k \in Skill, Servers!Load(k)
  PROVE  ServersInv'
  <1>1. command = Servers!Idle /\ command' = Servers!Idle
    BY DEF Servers!Load, Servers!Ready
  <1> USE <1>1, IdleIs, IdleNext
  <1>2. ServersTyped'
    BY DEF ServersInv, ServersTyped, FileInForce, Servers!Entry, Servers!Status,
           ServerRecord, Servers!Load, Servers!plugins, Servers!bounds, Servers!listing
  <1>3. CatalogOwned'
    BY DEF ServersInv, ServersTyped, ServerRecord, CatalogOwned, Registered, Servers!Load,
           Servers!plugins, Servers!bounds, Servers!listing
  <1>4. FileInForce'
    BY DEF ServersInv, ServersTyped, ServerRecord, FileInForce, Servers!Entry, Servers!Load,
           Servers!plugins, Servers!bounds, Servers!listing
  <1>5. PluginsWhole'
    BY DEF ServersInv, ServersTyped, ServerRecord, FileInForce, PluginsWhole, In,
           Servers!Load, Servers!plugins, Servers!bounds, Servers!listing
  <1>6. QED
    BY <1>2, <1>3, <1>4, <1>5 DEF ServersInv

(* /skills unload                                                            *)
LEMMA UnloadKeeps ==
  ASSUME ServersInv, NEW k \in Skill, Servers!Unload(k)
  PROVE  ServersInv'
  <1>1. command = Servers!Idle /\ command' = Servers!Idle
    BY DEF Servers!Unload, Servers!Ready
  <1> USE <1>1, IdleIs, IdleNext
  <1>2. ServersTyped'
    BY DEF ServersInv, ServersTyped, FileInForce, Servers!Entry, Servers!Status,
           ServerRecord, Servers!Unload, Servers!plugins, Servers!bounds, Servers!listing
  <1>3. CatalogOwned'
    BY DEF ServersInv, ServersTyped, ServerRecord, CatalogOwned, Registered, Servers!Unload,
           Servers!plugins, Servers!bounds, Servers!listing
  <1>4. FileInForce'
    BY DEF ServersInv, ServersTyped, ServerRecord, FileInForce, Servers!Entry,
           Servers!Unload, Servers!plugins, Servers!bounds, Servers!listing
  <1>5. PluginsWhole'
    BY DEF ServersInv, ServersTyped, ServerRecord, FileInForce, PluginsWhole, In,
           Servers!Unload, Servers!plugins, Servers!bounds, Servers!listing
  <1>6. QED
    BY <1>2, <1>3, <1>4, <1>5 DEF ServersInv

(* A server as it is after its connection is closed.                         *)
LEMMA DisconnectedIs ==
  ASSUME ServersTyped, NEW s \in Server
  PROVE  /\ Servers!Disconnected(s) \in ServerRecord
         /\ Servers!Disconnected(s).status = "disconnected"
         /\ Servers!Disconnected(s).enabled = server[s].enabled
         /\ Servers!Disconnected(s).tools = {}
         /\ [Servers!Disconnected(s) EXCEPT !.enabled = FALSE] \in ServerRecord
         /\ [Servers!Disconnected(s) EXCEPT !.enabled = FALSE].status = "disconnected"
         /\ [Servers!Disconnected(s) EXCEPT !.enabled = FALSE].enabled = FALSE
         /\ [Servers!Disconnected(s) EXCEPT !.enabled = FALSE].tools = {}
  BY DEF ServersTyped, ServerRecord, Servers!Status, Servers!Disconnected

LEMMA AbsentIs ==
  Servers!Absent \in ServerRecord /\ Servers!Absent.status = "absent" /\ Servers!Absent.tools = {}
  BY DEF ServerRecord, Servers!Status, Servers!Absent

(* A server loses its tools, and they leave the catalogue.                   *)
LEMMA ServerOut ==
  ASSUME ServersInv, command = Servers!Idle, command' = Servers!Idle,
         NEW s \in Server, NEW r \in ServerRecord, r.tools = {},
         server' = [server EXCEPT ![s] = r], catalog' = catalog \ server[s].tools,
         file' \in [Server -> Servers!Entry],
         UNCHANGED <<plugin, disk, extension, skill, loaded, changes>>
  PROVE  ServersTyped' /\ CommandTyped' /\ CatalogOwned'
  <1> USE IdleIs, IdleNext
  <1>1. ServersTyped'
    BY DEF ServersInv, ServersTyped
  <1>2. \A o : o # s => Registered(o)' = Registered(o)
    BY ServerTools DEF Registered
  <1>3. Registered(s)' = {}
    BY ServerTools DEF Registered
  <1>4. CatalogOwned'
    BY <1>2, <1>3, OwnersApart DEF ServersInv, ServersTyped, CatalogOwned
  <1>5. QED
    BY <1>1, <1>4

(* /mcp remove                                                               *)
LEMMA RemoveServerKeeps ==
  ASSUME ServersInv, NEW s \in Server, Servers!RemoveServer(s)
  PROVE  ServersInv'
  <1>1. /\ command = Servers!Idle /\ command' = Servers!Idle
        /\ catalog' = catalog \ server[s].tools
        /\ configs[s] # "none"
        /\ UNCHANGED <<plugin, disk, extension, skill, loaded>>
    BY DEF Servers!RemoveServer, Servers!Ready, Servers!plugins
  <1>2. server[s].tools \subseteq catalog /\ ServersTyped
    BY <1>1, ServerTools DEF ServersInv
  <1> USE <1>1, IdleIs, IdleNext
  <1>3. CASE /\ server' = [server EXCEPT ![s] = Servers!Absent]
             /\ allowed' = allowed \ {s}
             /\ configs' = [configs EXCEPT ![s] = "none"]
             /\ file' = configs'
             /\ changes' = changes
    <2>1. file' \in [Server -> Servers!Entry]
      BY <1>3 DEF ServersInv, ServersTyped, FileInForce, Servers!Entry
    <2>2. ServersTyped' /\ CommandTyped' /\ CatalogOwned'
      BY <1>3, <2>1, ServerOut, AbsentIs
    <2>3. FileInForce'
      BY <1>2, <1>3 DEF ServersInv, ServersTyped, FileInForce
    <2>4. PluginsWhole'
      BY <1>2, <1>3, AbsentIs DEF ServersInv, ServersTyped, FileInForce, PluginsWhole, In
    <2>5. QED
      BY <2>2, <2>3, <2>4 DEF ServersInv
  <1>4. CASE /\ server' = [server EXCEPT ![s] = Servers!Disconnected(s)]
             /\ file' = configs
             /\ UNCHANGED <<configs, allowed>>
             /\ changes' = changes
    <2>1. file' \in [Server -> Servers!Entry]
      BY <1>4 DEF ServersInv, ServersTyped, FileInForce
    <2>2. ServersTyped' /\ CommandTyped' /\ CatalogOwned'
      BY <1>2, <1>4, <2>1, ServerOut, DisconnectedIs
    <2>3. FileInForce'
      BY <1>2, <1>4, DisconnectedIs DEF ServersInv, ServersTyped, FileInForce
    <2>4. PluginsWhole'
      BY <1>2, <1>4, DisconnectedIs
         DEF ServersInv, ServersTyped, FileInForce, PluginsWhole, In
    <2>5. QED
      BY <2>2, <2>3, <2>4 DEF ServersInv
  <1>5. QED
    BY <1>3, <1>4 DEF Servers!RemoveServer, Servers!bounds, Servers!Fault

(* /mcp disable                                                              *)
LEMMA DisableServerKeeps ==
  ASSUME ServersInv, NEW s \in Server, Servers!DisableServer(s)
  PROVE  ServersInv'
  <1> DEFINE off == [Servers!Disconnected(s) EXCEPT !.enabled = FALSE]
  <1>1. /\ command = Servers!Idle /\ command' = Servers!Idle
        /\ catalog' = catalog \ server[s].tools
        /\ configs[s] # "none"
        /\ UNCHANGED <<plugin, disk, extension, skill, loaded>>
    BY DEF Servers!DisableServer, Servers!Ready, Servers!plugins
  <1>2. server[s].tools \subseteq catalog /\ ServersTyped
    BY <1>1, ServerTools DEF ServersInv
  <1> USE <1>1, IdleIs, IdleNext
  <1>a. /\ off \in ServerRecord /\ off.status = "disconnected" /\ off.enabled = FALSE
        /\ off.tools = {}
    BY <1>2, DisconnectedIs
  <1>3. CASE /\ server' = [server EXCEPT ![s] = off]
             /\ allowed' = allowed \ {s}
             /\ configs' = [configs EXCEPT ![s] = "off"]
             /\ file' = configs'
             /\ changes' = changes
    <2> HIDE DEF off
    <2>1. file' \in [Server -> Servers!Entry]
      BY <1>3 DEF ServersInv, ServersTyped, FileInForce, Servers!Entry
    <2>2. ServersTyped' /\ CommandTyped' /\ CatalogOwned'
      BY <1>3, <2>1, ServerOut, <1>a
    <2>3. FileInForce'
      BY <1>2, <1>3, <1>a DEF ServersInv, ServersTyped, FileInForce
    <2>4. PluginsWhole'
      BY <1>2, <1>3, <1>a DEF ServersInv, ServersTyped, FileInForce, PluginsWhole, In
    <2>5. QED
      BY <2>2, <2>3, <2>4 DEF ServersInv
  <1>4. CASE /\ server' = [server EXCEPT ![s] = Servers!Disconnected(s)]
             /\ file' = configs
             /\ UNCHANGED <<configs, allowed>>
             /\ changes' = changes
    <2>1. file' \in [Server -> Servers!Entry]
      BY <1>4 DEF ServersInv, ServersTyped, FileInForce
    <2>2. ServersTyped' /\ CommandTyped' /\ CatalogOwned'
      BY <1>2, <1>4, <2>1, ServerOut, DisconnectedIs
    <2>3. FileInForce'
      BY <1>2, <1>4, DisconnectedIs DEF ServersInv, ServersTyped, FileInForce
    <2>4. PluginsWhole'
      BY <1>2, <1>4, DisconnectedIs
         DEF ServersInv, ServersTyped, FileInForce, PluginsWhole, In
    <2>5. QED
      BY <2>2, <2>3, <2>4 DEF ServersInv
  <1>5. QED
    BY <1>3, <1>4 DEF Servers!DisableServer, Servers!bounds, Servers!Fault

(* /mcp disconnect                                                           *)
LEMMA DisconnectKeeps ==
  ASSUME ServersInv, NEW s \in Server, Servers!Disconnect(s)
  PROVE  ServersInv'
  <1>1. /\ command = Servers!Idle /\ command' = Servers!Idle
        /\ catalog' = catalog \ server[s].tools
        /\ server' = [server EXCEPT ![s] = Servers!Disconnected(s)]
        /\ UNCHANGED <<file, configs, allowed, plugin, disk, extension, skill, loaded,
                       changes>>
        /\ server[s].status # "absent"
    BY DEF Servers!Disconnect, Servers!Ready, Servers!plugins, Servers!listing,
           Servers!bounds
  <1>2. ServersTyped
    BY DEF ServersInv
  <1> USE <1>1, IdleIs, IdleNext
  <1>3. file' \in [Server -> Servers!Entry]
    BY <1>2 DEF ServersTyped
  <1>4. ServersTyped' /\ CommandTyped' /\ CatalogOwned'
    BY <1>2, <1>3, ServerOut, DisconnectedIs
  <1>5. FileInForce'
    BY <1>2, DisconnectedIs DEF ServersInv, ServersTyped, FileInForce
  <1>a. \A x \in Server : (server'[x].status = "absent") <=> (server[x].status = "absent")
    BY <1>2, DisconnectedIs DEF ServersTyped
  <1>6. PluginsWhole'
    BY <1>a DEF ServersInv, PluginsWhole, In
  <1>7. QED
    BY <1>4, <1>5, <1>6 DEF ServersInv

(* /plugins review                                                           *)
LEMMA ReviewKeeps ==
  ASSUME ServersInv, NEW p \in Plugin, Servers!Review(p)
  PROVE  ServersInv'
  <1>1. /\ command = Servers!Idle /\ command' = Servers!Idle
        /\ UNCHANGED <<file, configs, allowed, server, catalog, disk, extension, skill,
                       loaded, changes>>
        /\ plugin' = [plugin EXCEPT ![p].review = disk[p].version]
    BY DEF Servers!Review, Servers!Ready, Servers!listing, Servers!bounds
  <1> USE <1>1, IdleIs, IdleNext
  <1>a. disk[p].version \in 0..(MaxChange + 1)
    BY OwnersApart DEF ServersInv, ServersTyped
  <1>2. plugin' \in [Plugin -> PluginRecord]
    BY <1>a DEF ServersInv, ServersTyped, PluginRecord
  <1>3. \A q \in Plugin : /\ plugin'[q].status = plugin[q].status
                          /\ plugin'[q].tools = plugin[q].tools
    BY DEF ServersInv, ServersTyped, PluginRecord
  <1>4. ServersTyped'
    BY <1>2 DEF ServersInv, ServersTyped
  <1>5. CatalogOwned'
    BY <1>3 DEF ServersInv, CatalogOwned, Registered
  <1>6. FileInForce' /\ PluginsWhole'
    BY <1>3 DEF ServersInv, FileInForce, PluginsWhole, In
  <1>7. QED
    BY <1>4, <1>5, <1>6 DEF ServersInv

(* The files of a plugin change.                                             *)
LEMMA ChangeFilesKeeps ==
  ASSUME ServersInv, NEW p \in Plugin, Servers!ChangeFiles(p)
  PROVE  ServersInv'
  <1>1. UNCHANGED <<file, configs, allowed, server, catalog, plugin, extension, skill,
                    loaded, command>>
    BY DEF Servers!ChangeFiles, Servers!listing
  <1>2. ServersTyped'
    <2>1. /\ changes \in Nat /\ changes < MaxChange /\ changes' = changes + 1
          /\ changes' \in 0..MaxChange
      BY OwnersApart DEF ServersInv, ServersTyped, Servers!ChangeFiles
    <2>2. CASE disk' = [disk EXCEPT ![p].version = @ + 1]
      BY <1>1, <2>1, <2>2, OwnersApart DEF ServersInv, ServersTyped
    <2>3. ASSUME NEW x \in SUBSET {"entry", "parts"}, disk' = [disk EXCEPT ![p].gone = x]
          PROVE  ServersTyped'
      BY <1>1, <2>1, <2>3, OwnersApart DEF ServersInv, ServersTyped
    <2>4. QED
      BY <2>2, <2>3 DEF Servers!ChangeFiles
  <1>3. CommandTyped' /\ CatalogOwned' /\ FileInForce' /\ PluginsWhole'
    BY <1>1 DEF ServersInv, CommandTyped, CatalogOwned, FileInForce, PluginsWhole, In,
                Registered, Working, Doing, StillLeft
  <1>4. QED
    BY <1>2, <1>3 DEF ServersInv

-----------------------------------------------------------------------------
(* The commands that take several steps: connecting a server.                *)

(* What is left after the next step.                                         *)
LEMMA NextLeft ==
  ASSUME NEW S, NEW seq \in Seq(S), seq # <<>>
  PROVE  /\ Head(seq) \in S /\ Tail(seq) \in Seq(S)
         /\ {seq[i] : i \in DOMAIN seq} =
              {Head(seq)} \cup {Tail(seq)[i] : i \in DOMAIN Tail(seq)}
  <1>1. /\ Head(seq) = seq[1] /\ Head(seq) \in S /\ Tail(seq) \in Seq(S)
        /\ Len(Tail(seq)) = Len(seq) - 1
        /\ \A i \in 1..Len(Tail(seq)) : Tail(seq)[i] = seq[i + 1]
    BY HeadTailProperties
  <1>2. /\ Len(seq) \in Nat /\ DOMAIN seq = 1..Len(seq) /\ Len(seq) # 0
        /\ DOMAIN Tail(seq) = 1..Len(Tail(seq))
    BY <1>1, LenProperties, EmptySeq
  <1>3. \A i \in 1..Len(seq) : i = 1 \/ (i - 1 \in 1..Len(Tail(seq)) /\ Tail(seq)[i - 1] = seq[i])
    BY <1>1, <1>2
  <1>4. \A i \in 1..Len(Tail(seq)) : i + 1 \in 1..Len(seq)
    BY <1>1, <1>2
  <1>5. 1 \in 1..Len(seq)
    BY <1>2
  <1> DEFINE whole == {seq[i] : i \in 1..Len(seq)}
             rest == {Tail(seq)[i] : i \in 1..Len(Tail(seq))}
  <1>6. whole \subseteq {Head(seq)} \cup rest
    BY ONLY <1>1, <1>3
  <1>7. Head(seq) \in whole
    BY ONLY <1>1, <1>5
  <1>8. rest \subseteq whole
    BY ONLY <1>1, <1>4
  <1>9. whole = {Head(seq)} \cup rest
    BY ONLY <1>6, <1>7, <1>8
  <1>10. QED
    BY ONLY <1>1, <1>2, <1>9

LEMMA Counting ==
  ASSUME NEW n \in 0..MaxTool
  PROVE  /\ [i \in 1..n |-> i] \in Seq(Numbers \cup Skill \cup Server)
         /\ {[i \in 1..n |-> i][j] : j \in DOMAIN [i \in 1..n |-> i]} = 1..n
         /\ 1..n \subseteq Numbers
  <1>1. n \in Nat /\ 1..n \subseteq Numbers
    BY OwnersApart DEF Numbers
  <1>2. \A i \in 1..n : i \in Numbers \cup Skill \cup Server
    BY <1>1
  <1>3. [i \in 1..n |-> i] \in Seq(Numbers \cup Skill \cup Server)
    BY <1>1, <1>2, IsASeq
  <1>4. QED
    BY <1>1, <1>3

(* /mcp connect                                                              *)
LEMMA ConnectServerKeeps ==
  ASSUME ServersInv, NEW s \in Server, Servers!Connect(s)
  PROVE  ServersInv'
  <1>1. /\ command = Servers!Idle
        /\ UNCHANGED <<file, configs, allowed, catalog, plugin, disk, extension, skill,
                       loaded, changes>>
        /\ server[s].status \in {"disconnected", "failed"} /\ server[s].enabled
        /\ server' = [server EXCEPT ![s].status = "connecting"]
    BY DEF Servers!Connect, Servers!Ready, Servers!plugins, Servers!listing, Servers!bounds
  <1>2. PICK n \in 0..MaxTool :
          command' = [do |-> "connect", on |-> s, left |-> [i \in 1..n |-> i], done |-> {}]
    BY DEF Servers!Connect
  <1>3. /\ ~Working({"activate", "register"}, s)' /\ ~Working({"extend"}, s)'
        /\ \A o : Working({"connect"}, o)' <=> o = s
        /\ \A o : ~Working({"activate", "register"}, o)' /\ ~Working({"extend"}, o)'
        /\ command'.done = {}
    BY <1>2 DEF Working
  <1>4. \A x \in Server :
          /\ server'[x].tools = server[x].tools /\ server'[x].enabled = server[x].enabled
          /\ x # s => server'[x].status = server[x].status
          /\ server'[s].status = "connecting"
    BY <1>1 DEF ServersInv, ServersTyped, ServerRecord
  <1>5. ServersTyped'
    BY <1>1 DEF ServersInv, ServersTyped, ServerRecord, Servers!Status
  <1>6. CommandTyped'
    <2>1. /\ command'.left = [i \in 1..n |-> i] /\ command'.do = "connect" /\ command'.on = s
      BY <1>2
    <2>2. StillLeft' \subseteq Numbers
      BY <2>1, Counting DEF StillLeft
    <2>3. command' \in [do : {"connect", "activate", "register", "extend"},
                    on : Server \cup Plugin, left : Seq(Numbers \cup Skill \cup Server),
                    done : SUBSET (Servers!Tool \cup Skill \cup Server)]
      BY <1>2, Counting
    <2>4. QED
      BY <1>1, <1>3, <1>4, <2>1, <2>2, <2>3 DEF CommandTyped, Doing, ServersInv,
                                                ServersTyped, ServerRecord
  <1>7. server[s].tools = {}
    BY <1>1 DEF ServersInv, CatalogOwned
  <1>8. CatalogOwned'
    BY <1>1, <1>3, <1>4, <1>7, IdleIs DEF ServersInv, CatalogOwned, Registered
  <1>9. FileInForce'
    BY <1>1, <1>4 DEF ServersInv, FileInForce
  <1>10. PluginsWhole'
    BY <1>1, <1>3, <1>4, IdleIs DEF ServersInv, PluginsWhole, In
  <1>11. QED
    BY <1>5, <1>6, <1>8, <1>9, <1>10 DEF ServersInv

(* A tool is taken off what is left; it is in the catalogue, or left out.    *)
LEMMA OfferToolKeeps ==
  ASSUME ServersInv, Servers!OfferTool
  PROVE  ServersInv'
  <1> DEFINE t == <<command.on, Head(command.left)>>
  <1>1. /\ command.do = "connect" /\ command.left # <<>>
        /\ UNCHANGED <<file, configs, allowed, server, plugin, disk, extension, skill,
                       loaded, changes>>
    BY DEF Servers!OfferTool, Servers!plugins, Servers!listing, Servers!bounds
  <1>2. /\ command \in [do : {"connect", "activate", "register", "extend"},
                        on : Server \cup Plugin,
                        left : Seq(Numbers \cup Skill \cup Server),
                        done : SUBSET (Servers!Tool \cup Skill \cup Server)]
        /\ command.on \in Server /\ StillLeft \subseteq Numbers
        /\ command.done \subseteq AllTools(command.on)
        /\ server[command.on].status = "connecting" /\ server[command.on].enabled
    BY <1>1 DEF ServersInv, CommandTyped, Doing, Servers!Idle
  <1>3. /\ Head(command.left) \in Numbers
        /\ Tail(command.left) \in Seq(Numbers \cup Skill \cup Server)
        /\ {Tail(command.left)[i] : i \in DOMAIN Tail(command.left)} \subseteq Numbers
    BY <1>1, <1>2, NextLeft DEF StillLeft
  <1>4. t \in AllTools(command.on) /\ t \in Servers!Tool
    BY <1>2, <1>3 DEF AllTools, Servers!Tool, Servers!Owner, Numbers
  <1>5. PICK new \in SUBSET {t} :
          /\ catalog' = catalog \cup new
          /\ command' = [command EXCEPT !.left = Tail(@), !.done = @ \cup new]
    <2>1. CASE /\ catalog' = catalog \cup {t}
               /\ command' = [command EXCEPT !.left = Tail(@), !.done = @ \cup {t}]
      BY <2>1
    <2>2. CASE command' = [command EXCEPT !.left = Tail(@)] /\ UNCHANGED catalog
      <3>1. command' = [command EXCEPT !.left = Tail(@), !.done = @ \cup {}]
        BY <1>2, <2>2
      <3>2. QED
        BY <2>2, <3>1
    <2>3. QED
      BY <2>1, <2>2 DEF Servers!OfferTool
  <1>6. /\ command'.do = "connect" /\ command'.on = command.on
        /\ command'.left = Tail(command.left) /\ command'.done = command.done \cup new
    BY <1>1, <1>2, <1>5
  <1>7. ServersTyped'
    BY <1>1, <1>4, <1>5 DEF ServersInv, ServersTyped
  <1>8. CommandTyped'
    <2>1. StillLeft' \subseteq Numbers
      BY <1>3, <1>6 DEF StillLeft
    <2>2. command'.done \subseteq AllTools(command.on)
      BY <1>2, <1>4, <1>6
    <2>3. command' \in [do : {"connect", "activate", "register", "extend"},
                    on : Server \cup Plugin, left : Seq(Numbers \cup Skill \cup Server),
                    done : SUBSET (Servers!Tool \cup Skill \cup Server)]
      BY <1>2, <1>3, <1>4, <1>5
    <2>4. QED
      BY <1>1, <1>2, <1>6, <2>1, <2>2, <2>3 DEF CommandTyped, Doing
  <1>9. CatalogOwned'
    <2>1. \A o : o # command.on => Registered(o)' = Registered(o)
      BY <1>4, <1>5 DEF Registered, AllTools
    <2>2. Registered(command.on)' = Registered(command.on) \cup new
      BY <1>4, <1>5 DEF Registered, AllTools
    <2>3. \A o : /\ Working({"connect"}, o)' <=> Working({"connect"}, o)
                 /\ Working({"connect"}, o) <=> o = command.on
                 /\ ~Working({"activate", "register"}, o)
                 /\ ~Working({"activate", "register"}, o)'
      BY <1>1, <1>6 DEF Working
    <2>4. QED
      BY <1>1, <1>2, <1>6, <2>1, <2>2, <2>3, OwnersApart DEF ServersInv, CatalogOwned
  <1>10. FileInForce' /\ PluginsWhole'
    BY <1>1, <1>6 DEF ServersInv, FileInForce, PluginsWhole, In, Working
  <1>11. QED
    BY <1>7, <1>8, <1>9, <1>10 DEF ServersInv

(* A server that is connected has what it has registered.                    *)
LEMMA ConnectedKeeps ==
  ASSUME ServersInv, Servers!Connected
  PROVE  ServersInv'
  <1>1. /\ command.do = "connect" /\ command' = Servers!Idle
        /\ UNCHANGED <<file, configs, allowed, catalog, plugin, disk, extension, skill,
                       loaded, changes>>
    BY DEF Servers!Connected, Servers!plugins, Servers!listing, Servers!bounds
  <1>2. PICK st \in {"ready", "degraded"} :
          server' = [server EXCEPT ![command.on].status = st,
                                   ![command.on].tools = command.done]
    BY DEF Servers!Connected
  <1>3. /\ command.on \in Server
        /\ command.done \subseteq AllTools(command.on)
        /\ server[command.on].status = "connecting" /\ server[command.on].enabled
    BY <1>1 DEF ServersInv, CommandTyped, Doing
  <1>4. command.done \subseteq Servers!Tool
    BY <1>3 DEF AllTools, Servers!Tool, Servers!Owner, Numbers
  <1>5. \A x \in Server :
          /\ server'[x].enabled = server[x].enabled
          /\ x # command.on => server'[x] = server[x]
          /\ server'[command.on].status = st
          /\ server'[command.on].tools = command.done
    BY <1>2, <1>3 DEF ServersInv, ServersTyped, ServerRecord
  <1>6. ServersTyped'
    BY <1>1, <1>2, <1>3, <1>4
       DEF ServersInv, ServersTyped, ServerRecord, Servers!Status
  <1>7. \A o : /\ Working({"connect"}, o) <=> o = command.on
               /\ ~Working({"activate", "register"}, o) /\ ~Working({"extend"}, o)
    BY <1>1 DEF Working
  <1>8. CatalogOwned'
    BY <1>1, <1>3, <1>5, <1>7, IdleNext, OwnersApart
       DEF ServersInv, CatalogOwned, Registered
  <1>9. FileInForce'
    BY <1>1, <1>3, <1>5 DEF ServersInv, FileInForce
  <1>10. PluginsWhole'
    BY <1>1, <1>3, <1>5, <1>7, IdleNext DEF ServersInv, PluginsWhole, In
  <1>11. QED
    BY <1>1, <1>6, <1>8, <1>9, <1>10, IdleNext DEF ServersInv

(* One that fails takes back what it has registered.                         *)
LEMMA ConnectFailsKeeps ==
  ASSUME ServersInv, Servers!ConnectFails
  PROVE  ServersInv'
  <1>1. /\ command.do = "connect" /\ command' = Servers!Idle
        /\ catalog' = catalog \ command.done
        /\ server' = [server EXCEPT ![command.on].status = "failed"]
        /\ UNCHANGED <<file, configs, allowed, plugin, disk, extension, skill, loaded,
                       changes>>
    BY DEF Servers!ConnectFails, Servers!plugins, Servers!listing, Servers!Fault
  <1>3. /\ command.on \in Server
        /\ command.done \subseteq AllTools(command.on)
        /\ server[command.on].status = "connecting" /\ server[command.on].enabled
    BY <1>1 DEF ServersInv, CommandTyped, Doing
  <1>5. \A x \in Server :
          /\ server'[x].enabled = server[x].enabled
          /\ server'[x].tools = server[x].tools
          /\ x # command.on => server'[x] = server[x]
          /\ server'[command.on].status = "failed"
    BY <1>1, <1>3 DEF ServersInv, ServersTyped, ServerRecord
  <1>6. ServersTyped'
    BY <1>1, <1>3 DEF ServersInv, ServersTyped, ServerRecord, Servers!Status
  <1>7. \A o : /\ Working({"connect"}, o) <=> o = command.on
               /\ ~Working({"activate", "register"}, o) /\ ~Working({"extend"}, o)
    BY <1>1 DEF Working
  <1>8. CatalogOwned'
    <2>1. \A o : o # command.on => Registered(o)' = Registered(o)
      BY <1>1, <1>3 DEF Registered, AllTools
    <2>2. Registered(command.on) = command.done
      BY <1>3, <1>7 DEF ServersInv, CatalogOwned
    <2>3. \A o : o = command.on => Registered(o)' = {}
      BY <1>1, <2>2 DEF Registered
    <2>4. server[command.on].tools = {}
      BY <1>3 DEF ServersInv, CatalogOwned
    <2>5. \A o : ~Working({"connect"}, o)' /\ ~Working({"activate", "register"}, o)'
      BY <1>1, IdleNext
    <2>6. command.on \notin Plugin
      BY <1>3, OwnersApart
    <2>7. \A x \in Server : x # command.on => Registered(x) = server[x].tools
      BY <1>7 DEF ServersInv, CatalogOwned
    <2>8. \A p \in Plugin : Registered(p) = plugin[p].tools
      BY <1>7 DEF ServersInv, CatalogOwned
    <2>9. \A p \in Plugin : Registered(p)' = plugin'[p].tools
      BY <1>1, <2>1, <2>6, <2>8
    <2>10. \A x \in Server : Registered(x)' = server'[x].tools
      BY <1>5, <2>1, <2>3, <2>4, <2>7
    <2>11. \A x \in Server : server'[x].tools # {} => server'[x].status \in {"ready", "degraded"}
      BY <1>5, <2>4 DEF ServersInv, CatalogOwned
    <2>12. QED
      BY <1>1, <2>5, <2>9, <2>10, <2>11 DEF ServersInv, CatalogOwned
  <1>9. FileInForce'
    BY <1>1, <1>3, <1>5 DEF ServersInv, FileInForce
  <1>10. PluginsWhole'
    BY <1>1, <1>3, <1>5, <1>7, IdleNext DEF ServersInv, PluginsWhole, In
  <1>11. QED
    BY <1>1, <1>6, <1>8, <1>9, <1>10, IdleNext DEF ServersInv

-----------------------------------------------------------------------------
(* Plugins: activation, and what they bring in.                              *)

(* A command of a plugin is of no server.                                    *)
LEMMA PluginCommand ==
  ASSUME ServersInv, Doing({"activate", "register", "extend"})
  PROVE  /\ command \in [do : {"connect", "activate", "register", "extend"},
                         on : Server \cup Plugin,
                         left : Seq(Numbers \cup Skill \cup Server),
                         done : SUBSET (Servers!Tool \cup Skill \cup Server)]
         /\ command.on \in Plugin
         /\ \A o : ~Working({"connect"}, o)
         /\ \A o : o # command.on => /\ ~Working({"activate", "register"}, o)
                                     /\ ~Working({"extend"}, o)
  BY DEF ServersInv, CommandTyped, Doing, Working, Servers!Idle

(* /plugins enable                                                           *)
LEMMA EnableKeeps ==
  ASSUME ServersInv, NEW p \in Plugin, Servers!Enable(p)
  PROVE  ServersInv'
  <1>1. /\ command = Servers!Idle
        /\ UNCHANGED <<file, configs, allowed, server, catalog, disk, extension, skill,
                       loaded, changes>>
        /\ plugin[p].status \in {"disabled", "failed"}
        /\ plugin' = [plugin EXCEPT ![p].status = "activating",
                                    ![p].review = disk[p].version]
        /\ command' = [do |-> "activate", on |-> p, left |-> [i \in 1..MaxTool |-> i],
                       done |-> {}]
    BY DEF Servers!Enable, Servers!Ready, Servers!listing, Servers!bounds
  <1>2. disk[p].version \in 0..(MaxChange + 1)
    BY OwnersApart DEF ServersInv, ServersTyped
  <1>3. \A q \in Plugin : /\ plugin'[q].tools = plugin[q].tools
                          /\ q # p => plugin'[q].status = plugin[q].status
                          /\ plugin'[p].status = "activating"
    BY <1>1 DEF ServersInv, ServersTyped, PluginRecord
  <1>4. ServersTyped'
    <2> DEFINE new == [plugin[p] EXCEPT !.status = "activating",
                                        !.review = disk[p].version]
    <2>1. new \in PluginRecord
      BY ZenonT(40), <1>2 DEF ServersInv, ServersTyped, PluginRecord, Servers!Lifecycle
    <2>2. plugin' = [plugin EXCEPT ![p] = new]
      BY <1>1 DEF ServersInv, ServersTyped, PluginRecord
    <2> HIDE DEF new
    <2>3. plugin' \in [Plugin -> PluginRecord]
      BY <2>1, <2>2 DEF ServersInv, ServersTyped
    <2>4. QED
      BY <1>1, <2>3 DEF ServersInv, ServersTyped
  <1>5. /\ \A o : ~Working({"connect"}, o)' /\ ~Working({"extend"}, o)'
        /\ \A o : Working({"activate", "register"}, o)' <=> o = p
        /\ command'.done = {} /\ command'.on = p /\ command'.do = "activate"
        /\ command'.left = [i \in 1..MaxTool |-> i]
    BY <1>1 DEF Working
  <1>6. CommandTyped'
    <2>1. MaxTool \in 0..MaxTool
      BY OwnersApart
    <2>2. command' \in [do : {"connect", "activate", "register", "extend"},
                    on : Server \cup Plugin, left : Seq(Numbers \cup Skill \cup Server),
                    done : SUBSET (Servers!Tool \cup Skill \cup Server)]
      BY <1>1, <2>1, Counting
    <2>3. StillLeft' = Numbers
      BY <1>5, <2>1, Counting DEF StillLeft, Numbers
    <2>4. command'.done \cup ({p} \X StillLeft') = AllTools(p)
      BY <1>5, <2>3 DEF AllTools
    <2>5. QED
      BY <1>3, <1>5, <2>2, <2>3, <2>4 DEF CommandTyped, Doing, AllTools, Numbers
  <1>7. plugin[p].tools = {}
    BY <1>1 DEF ServersInv, CatalogOwned
  <1>a. UNCHANGED <<configs, server, catalog, extension, skill>>
        /\ plugin[p].status # "active"
    BY <1>1
  <1>b. \A o : /\ ~Working({"connect"}, o) /\ ~Working({"extend"}, o)
               /\ ~Working({"activate", "register"}, o)
    BY <1>1, IdleIs
  <1>8. CatalogOwned'
    <2>1. \A o : Registered(o)' = Registered(o)
      BY <1>a DEF Registered
    <2>2. \A x \in Server : /\ Registered(x)' = server'[x].tools
                            /\ server'[x].tools # {} =>
                                 server'[x].status \in {"ready", "degraded"}
      BY <1>a, <1>b, <2>1 DEF ServersInv, CatalogOwned
    <2>3. \A q \in Plugin :
            /\ Registered(q)' = IF q = p THEN command'.done ELSE plugin'[q].tools
            /\ plugin'[q].tools # {} => plugin'[q].status \in {"active", "draining"}
            /\ plugin'[q].status = "active" => plugin'[q].tools = AllTools(q)
      BY <1>b, <1>3, <1>5, <1>7, <2>1 DEF ServersInv, CatalogOwned
    <2>4. QED
      BY <1>5, <2>2, <2>3 DEF CatalogOwned, AllTools, Numbers
  <1>9. FileInForce'
    BY <1>1 DEF ServersInv, FileInForce
  <1>10. PluginsWhole'
    BY <1>a, <1>b, <1>3, <1>5 DEF ServersInv, PluginsWhole, In, Brings
  <1>11. QED
    BY <1>4, <1>6, <1>8, <1>9, <1>10 DEF ServersInv

(* The plugin's process is there.                                            *)
LEMMA ActivatedKeeps ==
  ASSUME ServersInv, Servers!Activated
  PROVE  ServersInv'
  <1>1. /\ command.do = "activate" /\ command' = [command EXCEPT !.do = "register"]
        /\ UNCHANGED <<file, configs, allowed, server, catalog, plugin, disk, extension,
                       skill, loaded, changes>>
    BY DEF Servers!Activated, Servers!plugins, Servers!listing, Servers!bounds
  <1>2. /\ command \in [do : {"connect", "activate", "register", "extend"},
                        on : Server \cup Plugin,
                        left : Seq(Numbers \cup Skill \cup Server),
                        done : SUBSET (Servers!Tool \cup Skill \cup Server)]
    BY <1>1, PluginCommand DEF Doing
  <1>3. /\ command'.do = "register" /\ command'.on = command.on
        /\ command'.left = command.left /\ command'.done = command.done
        /\ command' \in [do : {"connect", "activate", "register", "extend"},
                        on : Server \cup Plugin,
                        left : Seq(Numbers \cup Skill \cup Server),
                        done : SUBSET (Servers!Tool \cup Skill \cup Server)]
    BY <1>1, <1>2
  <1>4. ServersTyped' /\ FileInForce'
    BY <1>1 DEF ServersInv, ServersTyped, FileInForce
  <1>5. StillLeft' = StillLeft
    BY <1>3 DEF StillLeft
  <1>6. CommandTyped'
    BY <1>1, <1>3, <1>5 DEF ServersInv, CommandTyped, Doing, Servers!Idle
  <1>7. /\ \A o : ~Working({"connect"}, o) /\ ~Working({"connect"}, o)'
        /\ \A o : ~Working({"extend"}, o) /\ ~Working({"extend"}, o)'
        /\ \A o : Working({"activate", "register"}, o)' <=>
                  Working({"activate", "register"}, o)
    BY <1>1, <1>3 DEF Working
  <1>8. CatalogOwned' /\ PluginsWhole'
    BY <1>1, <1>3, <1>7 DEF ServersInv, CatalogOwned, Registered, PluginsWhole, In
  <1>9. QED
    BY <1>4, <1>6, <1>8 DEF ServersInv

(* A tool of the plugin is registered.                                       *)
LEMMA RegisterToolKeeps ==
  ASSUME ServersInv, Servers!RegisterTool
  PROVE  ServersInv'
  <1> DEFINE n == Head(command.left)
             t == <<command.on, n>>
  <1>1. /\ command.do = "register" /\ command.left # <<>>
        /\ catalog' = catalog \cup {t}
        /\ command' = [command EXCEPT !.left = Tail(@), !.done = @ \cup {t}]
        /\ UNCHANGED <<file, configs, allowed, server, plugin, disk, extension, skill,
                       loaded, changes>>
    BY DEF Servers!RegisterTool, Servers!plugins, Servers!listing, Servers!bounds
  <1>2. /\ command \in [do : {"connect", "activate", "register", "extend"},
                        on : Server \cup Plugin,
                        left : Seq(Numbers \cup Skill \cup Server),
                        done : SUBSET (Servers!Tool \cup Skill \cup Server)]
        /\ command.on \in Plugin /\ StillLeft \subseteq Numbers
        /\ plugin[command.on].status = "activating"
        /\ command.done \cup ({command.on} \X StillLeft) = AllTools(command.on)
    BY <1>1, PluginCommand DEF ServersInv, CommandTyped, Doing
  <1>3. /\ Tail(command.left) \in Seq(Numbers \cup Skill \cup Server)
        /\ StillLeft = {n} \cup {Tail(command.left)[i] : i \in DOMAIN Tail(command.left)}
    <2>1. command.left \in Seq(Numbers \cup Skill \cup Server) /\ command.left # <<>>
      BY <1>1, <1>2
    <2>2. QED
      BY ONLY <2>1, NextLeft DEF StillLeft
  <1>4. t \in AllTools(command.on) /\ t \in Servers!Tool
    BY <1>2, <1>3 DEF AllTools, Servers!Tool, Servers!Owner, Numbers
  <1>6. /\ command'.do = "register" /\ command'.on = command.on
        /\ command'.left = Tail(command.left) /\ command'.done = command.done \cup {t}
        /\ command' \in [do : {"connect", "activate", "register", "extend"},
                    on : Server \cup Plugin, left : Seq(Numbers \cup Skill \cup Server),
                    done : SUBSET (Servers!Tool \cup Skill \cup Server)]
    BY <1>1, <1>2, <1>3, <1>4
  <1>7. ServersTyped' /\ FileInForce'
    BY <1>1, <1>4 DEF ServersInv, ServersTyped, FileInForce
  <1>8. CommandTyped'
    <2>1. StillLeft = {n} \cup StillLeft'
      BY <1>3, <1>6 DEF StillLeft
    <2>2. StillLeft' \subseteq Numbers
      BY <1>2, <2>1
    <2>3. command'.done \cup ({command.on} \X StillLeft') = AllTools(command.on)
      BY <1>2, <1>6, <2>1
    <2>4. AllTools(command.on)' = AllTools(command.on)
      BY <1>6 DEF AllTools, Numbers
    <2>5. QED
      BY <1>1, <1>2, <1>6, <2>2, <2>3, <2>4 DEF CommandTyped, Doing
  <1>9. CatalogOwned'
    <2>1. \A o : o # command.on => Registered(o)' = Registered(o)
      BY <1>4, <1>1 DEF Registered, AllTools
    <2>2. \A o : o = command.on => Registered(o)' = Registered(o) \cup {t}
      BY <1>4, <1>1 DEF Registered, AllTools
    <2>3. \A o : /\ ~Working({"connect"}, o)' /\ ~Working({"connect"}, o)
                 /\ Working({"activate", "register"}, o) <=> o = command.on
                 /\ Working({"activate", "register"}, o)' <=> o = command.on
      BY <1>1, <1>6 DEF Working
    <2>4. QED
      BY <1>1, <1>2, <1>6, <2>1, <2>2, <2>3, OwnersApart DEF ServersInv, CatalogOwned
  <1>10. PluginsWhole'
    BY <1>1, <1>6 DEF ServersInv, PluginsWhole, In, Working
  <1>11. QED
    BY <1>7, <1>8, <1>9, <1>10 DEF ServersInv

(* An activation that fails takes back what it has registered.               *)
LEMMA ActivationFailsKeeps ==
  ASSUME ServersInv, Servers!ActivationFails
  PROVE  ServersInv'
  <1>1. /\ command.do \in {"activate", "register"} /\ command' = Servers!Idle
        /\ catalog' = catalog \ command.done
        /\ plugin' = [plugin EXCEPT ![command.on].status = "failed"]
        /\ UNCHANGED <<file, configs, allowed, server, disk, extension, skill, loaded,
                       changes>>
    BY DEF Servers!ActivationFails, Servers!listing, Servers!bounds, Servers!Fault
  <1>2. /\ command.on \in Plugin
        /\ plugin[command.on].status = "activating"
        /\ command.done \subseteq AllTools(command.on)
    BY <1>1 DEF ServersInv, CommandTyped, Doing
  <1>3. \A q \in Plugin : /\ plugin'[q].tools = plugin[q].tools
                          /\ q # command.on => plugin'[q].status = plugin[q].status
                          /\ plugin'[command.on].status = "failed"
    BY <1>1, <1>2 DEF ServersInv, ServersTyped, PluginRecord
  <1>4. ServersTyped'
    BY ZenonT(40), <1>1 DEF ServersInv, ServersTyped, PluginRecord, Servers!Lifecycle
  <1>5. \A o : /\ ~Working({"connect"}, o) /\ ~Working({"extend"}, o)
               /\ Working({"activate", "register"}, o) <=> o = command.on
    BY <1>1 DEF Working
  <1>6. CatalogOwned'
    <2>1. \A o : o # command.on => Registered(o)' = Registered(o)
      BY <1>1, <1>2 DEF Registered, AllTools
    <2>2. Registered(command.on) = command.done
      BY <1>2, <1>5 DEF ServersInv, CatalogOwned
    <2>3. \A o : o = command.on => Registered(o)' = {}
      BY <1>1, <2>2 DEF Registered
    <2>4. plugin[command.on].tools = {}
      BY <1>2 DEF ServersInv, CatalogOwned
    <2>5. \A o : ~Working({"connect"}, o)' /\ ~Working({"activate", "register"}, o)'
      BY <1>1, IdleNext
    <2>6. command.on \notin Server
      BY <1>2, OwnersApart
    <2>7. \A q \in Plugin : q # command.on => Registered(q) = plugin[q].tools
      BY <1>5 DEF ServersInv, CatalogOwned
    <2>8. \A x \in Server : Registered(x) = server[x].tools
      BY <1>5 DEF ServersInv, CatalogOwned
    <2>9. \A x \in Server : Registered(x)' = server'[x].tools
      BY <1>1, <2>1, <2>6, <2>8
    <2>10. \A q \in Plugin : Registered(q)' = plugin'[q].tools
      BY <1>3, <2>1, <2>3, <2>4, <2>7
    <2>11. \A q \in Plugin :
             /\ plugin'[q].tools # {} => plugin'[q].status \in {"active", "draining"}
             /\ plugin'[q].status = "active" => plugin'[q].tools = AllTools(q)
      BY <1>3, <2>4 DEF ServersInv, CatalogOwned
    <2>12. QED
      BY <1>1, <2>5, <2>9, <2>10, <2>11 DEF ServersInv, CatalogOwned, AllTools, Numbers
  <1>7. FileInForce'
    BY <1>1 DEF ServersInv, FileInForce
  <1>8. PluginsWhole'
    BY <1>1, <1>2, <1>3, <1>5, IdleNext DEF ServersInv, PluginsWhole, In
  <1>9. QED
    BY <1>1, <1>4, <1>6, <1>7, <1>8, IdleNext DEF ServersInv

(* What a plugin brings in is what the application then goes through.        *)
LEMMA BringsLeft ==
  ASSUME NEW p \in Plugin
  PROVE  /\ SkillsOf[p] \o ServersOf[p] \in Seq(Numbers \cup Skill \cup Server)
         /\ {(SkillsOf[p] \o ServersOf[p])[i] : i \in DOMAIN (SkillsOf[p] \o ServersOf[p])}
              = Brings(p)
         /\ Brings(p) \subseteq Skill \cup Server
  <1> DEFINE S == Numbers \cup Skill \cup Server
             a == SkillsOf[p]
             b == ServersOf[p]
  <1>1. a \in Seq(Skill) /\ b \in Seq(Server)
    BY InstanceAssumption
  <1>2. a \in Seq(S) /\ b \in Seq(S)
    BY <1>1, SeqMonotonic
  <1>3. \A i \in DOMAIN a : a[i] \in Skill
    BY <1>1, ElementOfSeq, LenProperties
  <1>4. \A i \in DOMAIN b : b[i] \in Server
    BY <1>1, ElementOfSeq, LenProperties
  <1>5. Brings(p) = Range(a) \cup Range(b)
    BY DEF Brings, Range
  <1> HIDE DEF S, a, b
  <1>6. a \o b \in Seq(S)
    BY <1>2, ConcatProperties
  <1>7. Range(a \o b) = Range(a) \cup Range(b)
    BY <1>2, RangeConcatenation
  <1>8. Range(a \o b) = {(a \o b)[i] : i \in DOMAIN (a \o b)}
    BY DEF Range
  <1>9. Range(a) \subseteq Skill /\ Range(b) \subseteq Server
    BY <1>3, <1>4 DEF Range
  <1>10. QED
    BY <1>5, <1>6, <1>7, <1>8, <1>9 DEF S, a, b

(* A command that begins to bring in what a plugin has.                      *)
LEMMA ExtendBegins ==
  ASSUME NEW p \in Plugin,
         command' = [do |-> "extend", on |-> p, left |-> SkillsOf[p] \o ServersOf[p],
                     done |-> {}],
         plugin'[p].status = "active", ~extension'[p]
  PROVE  CommandTyped'
  <1>1. command'.do = "extend" /\ command'.on = p /\ command'.done = {}
        /\ command'.left = SkillsOf[p] \o ServersOf[p]
    OBVIOUS
  <1>2. StillLeft' = Brings(p)
    BY <1>1, BringsLeft DEF StillLeft
  <1>3. command' \in [do : {"connect", "activate", "register", "extend"},
                      on : Server \cup Plugin, left : Seq(Numbers \cup Skill \cup Server),
                      done : SUBSET (Servers!Tool \cup Skill \cup Server)]
    BY BringsLeft
  <1>4. Brings(p)' = Brings(p)
    BY DEF Brings
  <1>5. QED
    BY <1>1, <1>2, <1>3, <1>4 DEF CommandTyped, Doing, Brings

(* All its tools are in: the plugin is active.                               *)
LEMMA ActiveKeeps ==
  ASSUME ServersInv, Servers!Active
  PROVE  ServersInv'
  <1> DEFINE p == command.on
  <1>1. /\ command.do = "register" /\ command.left = <<>>
        /\ plugin' = [plugin EXCEPT ![p].status = "active", ![p].tools = command.done]
        /\ command' = [command EXCEPT !.do = "extend",
                                      !.left = SkillsOf[p] \o ServersOf[p], !.done = {}]
        /\ UNCHANGED <<file, configs, allowed, server, catalog, disk, extension, skill,
                       loaded, changes>>
    BY DEF Servers!Active, Servers!listing, Servers!bounds
  <1>2. /\ command \in [do : {"connect", "activate", "register", "extend"},
                        on : Server \cup Plugin,
                        left : Seq(Numbers \cup Skill \cup Server),
                        done : SUBSET (Servers!Tool \cup Skill \cup Server)]
        /\ p \in Plugin
        /\ plugin[p].status = "activating"
        /\ command.done \cup ({p} \X StillLeft) = AllTools(p)
    BY <1>1, PluginCommand DEF ServersInv, CommandTyped, Doing
  <1>3. StillLeft = {}
    BY <1>1, EmptySeq DEF StillLeft
  <1>4. command.done = AllTools(p) /\ AllTools(p) \subseteq Servers!Tool
    BY <1>2, <1>3 DEF AllTools, Servers!Tool, Servers!Owner, Numbers
  <1>5. command' = [do |-> "extend", on |-> p, left |-> SkillsOf[p] \o ServersOf[p],
                    done |-> {}]
    BY <1>1, <1>2
  <1>6. ~extension[p]
    BY <1>2 DEF ServersInv, PluginsWhole
  <1>7. \A q \in Plugin : /\ q # p => plugin'[q] = plugin[q]
                          /\ plugin'[p].status = "active"
                          /\ plugin'[p].tools = command.done
    BY <1>1, <1>2 DEF ServersInv, ServersTyped, PluginRecord
  <1>8. CommandTyped'
    BY <1>1, <1>2, <1>5, <1>6, <1>7, ExtendBegins
  <1>9. ServersTyped'
    <2> DEFINE new == [plugin[p] EXCEPT !.status = "active", !.tools = command.done]
    <2>a. plugin[p] \in PluginRecord /\ command.done \subseteq Servers!Tool
      BY <1>2, <1>4 DEF ServersInv, ServersTyped
    <2>1. new \in PluginRecord
      BY ONLY <2>a DEF PluginRecord, Servers!Lifecycle
    <2>2. plugin' = [plugin EXCEPT ![p] = new]
      BY <1>1, <1>2 DEF ServersInv, ServersTyped, PluginRecord
    <2> HIDE DEF new
    <2>3. plugin' \in [Plugin -> PluginRecord]
      BY <2>1, <2>2 DEF ServersInv, ServersTyped
    <2>4. QED
      BY <1>1, <2>3 DEF ServersInv, ServersTyped
  <1>10. /\ \A o : ~Working({"connect"}, o)' /\ ~Working({"activate", "register"}, o)'
         /\ \A o : ~Working({"connect"}, o) /\ ~Working({"extend"}, o)
         /\ \A o : Working({"activate", "register"}, o) <=> o = p
         /\ \A o : Working({"extend"}, o)' <=> o = p
         /\ command'.done = {}
    BY <1>1, <1>5 DEF Working
  <1>11. CatalogOwned'
    <2>1. \A o : Registered(o)' = Registered(o)
      BY <1>1 DEF Registered
    <2>2. \A x \in Server : /\ Registered(x)' = server'[x].tools
                            /\ server'[x].tools # {} =>
                                 server'[x].status \in {"ready", "degraded"}
      BY <1>1, <1>10, <2>1 DEF ServersInv, CatalogOwned
    <2>3. \A q \in Plugin :
            /\ Registered(q)' = plugin'[q].tools
            /\ plugin'[q].tools # {} => plugin'[q].status \in {"active", "draining"}
            /\ plugin'[q].status = "active" => plugin'[q].tools = AllTools(q)
      BY <1>10, <1>4, <1>7, <2>1 DEF ServersInv, CatalogOwned
    <2>4. QED
      BY <1>10, <2>2, <2>3 DEF CatalogOwned, AllTools, Numbers
  <1>12. FileInForce'
    BY <1>1 DEF ServersInv, FileInForce
  <1>13. PluginsWhole'
    <2>1. \A q, x : In(q, x)' <=> In(q, x)
      BY <1>1, <1>10 DEF In, Brings
    <2>2. QED
      BY <1>1, <1>7, <2>1 DEF ServersInv, PluginsWhole
  <1>14. QED
    BY <1>8, <1>9, <1>11, <1>12, <1>13 DEF ServersInv

(* An active plugin is enabled once more.                                    *)
LEMMA EnableActiveKeeps ==
  ASSUME ServersInv, NEW p \in Plugin, Servers!EnableActive(p)
  PROVE  ServersInv'
  <1>1. /\ command = Servers!Idle /\ plugin[p].status = "active" /\ ~extension[p]
        /\ command' = [do |-> "extend", on |-> p, left |-> SkillsOf[p] \o ServersOf[p],
                       done |-> {}]
        /\ UNCHANGED <<file, configs, allowed, server, catalog, plugin, disk, extension,
                       skill, loaded, changes>>
    BY DEF Servers!EnableActive, Servers!Ready, Servers!plugins, Servers!listing,
           Servers!bounds
  <1>2. CommandTyped'
    BY <1>1, ExtendBegins
  <1>3. /\ \A o : ~Working({"connect"}, o)' /\ ~Working({"activate", "register"}, o)'
        /\ \A o : Working({"extend"}, o)' <=> o = p
        /\ command'.done = {}
    BY <1>1 DEF Working
  <1>4. \A o : /\ ~Working({"connect"}, o) /\ ~Working({"extend"}, o)
               /\ ~Working({"activate", "register"}, o)
    BY <1>1, IdleIs
  <1>5. UNCHANGED <<file, configs, allowed, server, catalog, plugin, disk, extension,
                    skill, loaded, changes>>
    BY <1>1
  <1>6. ServersTyped' /\ FileInForce'
    BY <1>5 DEF ServersInv, ServersTyped, FileInForce
  <1>7. CatalogOwned'
    BY <1>3, <1>4, <1>5 DEF ServersInv, CatalogOwned, Registered, AllTools, Numbers
  <1>8. \A q, x : In(q, x)' <=> In(q, x)
    BY <1>3, <1>4, <1>5 DEF In, Brings
  <1>9. PluginsWhole'
    BY <1>5, <1>8 DEF ServersInv, PluginsWhole
  <1>10. QED
    BY <1>2, <1>6, <1>7, <1>9 DEF ServersInv

(* What is to be shown of the next state, whoever a skill then belongs to.   *)
LEMMA WholeNext ==
  ASSUME \A p \in Plugin : extension'[p] => plugin'[p].status = "active",
         \A p \in Plugin : \A k \in Skill : In(p, k)' => skill'[k] = p,
         \A p \in Plugin : \A s \in Server :
           In(p, s)' => server'[s].status # "absent" /\ configs'[s] = "none",
         \A p, q \in Plugin : \A s \in Server : In(p, s)' /\ In(q, s)' => p = q,
         \A k \in Skill : skill'[k] \in Plugin => \A q : q = skill'[k] => In(q, k)',
         \A s \in Server :
           server'[s].status # "absent" => configs'[s] # "none" \/ \E p \in Plugin : In(p, s)'
  PROVE  PluginsWhole'
  BY DEF PluginsWhole, In, Working, Brings

(* A skill or a server that was not there comes in.                          *)
LEMMA ExtendKeeps ==
  ASSUME ServersInv, Servers!Extend
  PROVE  ServersInv'
  <1> DEFINE p == command.on
             x == Head(command.left)
  <1>1. /\ command.do = "extend" /\ command.left # <<>>
        /\ Servers!ExtendBy(x)
        /\ command' = [command EXCEPT !.left = Tail(@), !.done = @ \cup {x}]
        /\ UNCHANGED <<file, configs, allowed, catalog, plugin, disk, extension, loaded,
                       changes>>
    BY DEF Servers!Extend, Servers!plugins, Servers!listing, Servers!bounds
  <1>2. /\ command \in [do : {"connect", "activate", "register", "extend"},
                        on : Server \cup Plugin,
                        left : Seq(Numbers \cup Skill \cup Server),
                        done : SUBSET (Servers!Tool \cup Skill \cup Server)]
        /\ p \in Plugin
        /\ plugin[p].status = "active" /\ ~extension[p]
        /\ command.done \cup StillLeft = Brings(p)
    BY <1>1, PluginCommand DEF ServersInv, CommandTyped, Doing
  <1>3. /\ Tail(command.left) \in Seq(Numbers \cup Skill \cup Server)
        /\ StillLeft = {x} \cup {Tail(command.left)[i] : i \in DOMAIN Tail(command.left)}
    <2>1. command.left \in Seq(Numbers \cup Skill \cup Server) /\ command.left # <<>>
      BY <1>1, <1>2
    <2>2. QED
      BY ONLY <2>1, NextLeft DEF StillLeft
  <1>4. x \in Skill \cup Server
    BY <1>1 DEF Servers!ExtendBy
  <1>5. /\ command'.do = "extend" /\ command'.on = p
        /\ command'.left = Tail(command.left) /\ command'.done = command.done \cup {x}
        /\ command' \in [do : {"connect", "activate", "register", "extend"},
                         on : Server \cup Plugin,
                         left : Seq(Numbers \cup Skill \cup Server),
                         done : SUBSET (Servers!Tool \cup Skill \cup Server)]
    BY <1>1, <1>2, <1>3, <1>4
  <1>6. CommandTyped'
    <2>1. StillLeft = {x} \cup StillLeft'
      BY <1>3, <1>5 DEF StillLeft
    <2>2. command'.done \cup StillLeft' = Brings(p)
      BY <1>2, <1>5, <2>1
    <2>3. Brings(command.on)' = Brings(p)
      BY <1>5 DEF Brings
    <2>4. QED
      BY <1>1, <1>2, <1>5, <2>2, <2>3 DEF CommandTyped, Doing, Brings
  <1>7. /\ \A o : ~Working({"connect"}, o)' /\ ~Working({"activate", "register"}, o)'
        /\ \A o : ~Working({"connect"}, o) /\ ~Working({"activate", "register"}, o)
        /\ \A o : Working({"extend"}, o) <=> o = p
        /\ \A o : Working({"extend"}, o)' <=> o = p
    BY <1>1, <1>5 DEF Working
  <1>8. \A q, y : In(q, y)' <=> (In(q, y) \/ (q = p /\ y = x))
    BY <1>1, <1>5, <1>7 DEF In, Brings
  <1>9. CASE /\ x \in Skill
             /\ skill[x] = "none"
             /\ skill' = [skill EXCEPT ![x] = p]
             /\ UNCHANGED server
    <2>1. ServersTyped' /\ FileInForce'
      BY <1>1, <1>2, <1>9 DEF ServersInv, ServersTyped, FileInForce
    <2>2. CatalogOwned'
      BY <1>1, <1>7, <1>9 DEF ServersInv, CatalogOwned, Registered, AllTools, Numbers
    <2>3. x \notin Server /\ \A q \in Plugin : ~In(q, x)
      BY <1>9, OwnersApart DEF ServersInv, PluginsWhole
    <2>4. PluginsWhole'
      <3>1. \A q \in Plugin : \A k \in Skill : In(q, k)' => skill'[k] = q
        BY <1>8, <1>9, <2>3 DEF ServersInv, ServersTyped, PluginsWhole
      <3>2. \A q \in Plugin : \A s \in Server : In(q, s)' <=> In(q, s)
        BY <1>8, <2>3
      <3>4. \A k \in Skill : skill'[k] \in Plugin => \A q : q = skill'[k] => In(q, k)'
        <4>1. \A k \in Skill : k = x => skill'[k] = p
          BY <1>9 DEF ServersInv, ServersTyped
        <4>2. \A k \in Skill : k # x => skill'[k] = skill[k]
          BY <1>9 DEF ServersInv, ServersTyped
        <4>3. \A k \in Skill : skill[k] \in Plugin => In(skill[k], k)
          BY DEF ServersInv, PluginsWhole
        <4>4. QED
          BY ONLY <1>8, <4>1, <4>2, <4>3
      <3>5. QED
        BY <1>1, <1>9, <3>1, <3>2, <3>4, WholeNext DEF ServersInv, PluginsWhole
    <2>5. QED
      BY <1>6, <2>1, <2>2, <2>4 DEF ServersInv
  <1>10. CASE /\ x \in Server
              /\ server[x].status = "absent"
              /\ server' = [server EXCEPT ![x] = Servers!Added(TRUE)]
              /\ UNCHANGED skill
    <2>1. /\ Servers!Added(TRUE) \in ServerRecord
          /\ Servers!Added(TRUE).tools = {} /\ Servers!Added(TRUE).status = "disconnected"
      BY DEF Servers!Added, ServerRecord, Servers!Status
    <2>2. ServersTyped'
      BY <1>1, <1>10, <2>1 DEF ServersInv, ServersTyped
    <2>3. /\ configs[x] = "none" /\ file[x] = "none" /\ server[x].tools = {}
          /\ x \notin Skill
      BY <1>10, OwnersApart DEF ServersInv, FileInForce, CatalogOwned
    <2>4. FileInForce'
      BY <1>1, <1>10, <2>3 DEF ServersInv, ServersTyped, FileInForce
    <2>5. \A s \in Server : server'[s].tools = server[s].tools
      BY <1>10, <2>1, <2>3 DEF ServersInv, ServersTyped
    <2>6. CatalogOwned'
      <3>1. \A s \in Server : server'[s].tools # {} =>
                                server'[s].status \in {"ready", "degraded"}
        BY <1>10, <2>3, <2>5 DEF ServersInv, ServersTyped, CatalogOwned
      <3>2. QED
        BY <1>1, <1>7, <2>5, <3>1
           DEF ServersInv, CatalogOwned, Registered, AllTools, Numbers
    <2>7. \A q \in Plugin : ~In(q, x)
      BY <1>10 DEF ServersInv, PluginsWhole
    <2>8. PluginsWhole'
      <3>1. \A q \in Plugin : \A k \in Skill : In(q, k)' <=> In(q, k)
        BY <1>8, <2>3
      <3>2. \A q \in Plugin : \A s \in Server :
              In(q, s)' <=> (In(q, s) \/ (q = p /\ s = x))
        BY <1>8
      <3>3. \A s \in Server : /\ s # x => server'[s] = server[s]
                              /\ server'[x].status # "absent"
        BY <1>10, <2>1 DEF ServersInv, ServersTyped
      <3>4. \A k \in Skill : skill'[k] \in Plugin => \A q : q = skill'[k] => In(q, k)'
        <4>1. \A k \in Skill : skill[k] \in Plugin => In(skill[k], k)
          BY DEF ServersInv, PluginsWhole
        <4>2. QED
          BY ONLY <1>8, <1>10, <4>1
      <3>5. \A q \in Plugin : \A s \in Server :
              In(q, s)' => server'[s].status # "absent" /\ configs[s] = "none"
        <4>1. \A q \in Plugin : \A s \in Server :
                In(q, s) => server[s].status # "absent" /\ configs[s] = "none"
          BY DEF ServersInv, PluginsWhole
        <4>2. QED
          BY ONLY <2>3, <3>2, <3>3, <1>10, <4>1
      <3>6. \A q, r \in Plugin : \A s \in Server : In(q, s)' /\ In(r, s)' => q = r
        BY <3>2, <2>7 DEF ServersInv, PluginsWhole
      <3>7. \A s \in Server : server'[s].status # "absent" =>
               configs[s] # "none" \/ \E q \in Plugin : In(q, s)'
        <4>1. \A s \in Server : server[s].status # "absent" =>
                 configs[s] # "none" \/ \E q \in Plugin : In(q, s)
          BY DEF ServersInv, PluginsWhole
        <4>2. QED
          BY ONLY <3>2, <3>3, <1>2, <1>10, <4>1
      <3>8. QED
        BY <1>1, <1>10, <3>1, <3>4, <3>5, <3>6, <3>7, WholeNext DEF ServersInv, PluginsWhole
    <2>9. QED
      BY <1>6, <2>2, <2>4, <2>6, <2>8 DEF ServersInv
  <1>11. QED
    BY <1>1, <1>9, <1>10 DEF Servers!ExtendBy

(* All that the plugin brings is in.                                         *)
LEMMA ExtendedKeeps ==
  ASSUME ServersInv, Servers!Extended
  PROVE  ServersInv'
  <1> DEFINE p == command.on
  <1>1. /\ command.do = "extend" /\ command.left = <<>> /\ command' = Servers!Idle
        /\ extension' = [extension EXCEPT ![p] = TRUE]
        /\ UNCHANGED <<file, configs, allowed, server, catalog, plugin, disk, skill,
                       loaded, changes>>
    BY DEF Servers!Extended, Servers!listing, Servers!bounds
  <1>2. /\ p \in Plugin
        /\ plugin[p].status = "active"
        /\ command.done \cup StillLeft = Brings(p)
    BY <1>1, PluginCommand DEF ServersInv, CommandTyped, Doing
  <1>3. command.done = Brings(p)
    <2>1. StillLeft = {}
      BY <1>1, EmptySeq DEF StillLeft
    <2>2. QED
      BY <1>2, <2>1
  <1>4. ServersTyped' /\ FileInForce'
    BY <1>1 DEF ServersInv, ServersTyped, FileInForce
  <1>5. /\ \A o : ~Working({"connect"}, o) /\ ~Working({"activate", "register"}, o)
        /\ \A o : Working({"extend"}, o) <=> o = p
    BY <1>1 DEF Working
  <1>6. \A o : /\ ~Working({"connect"}, o)' /\ ~Working({"activate", "register"}, o)'
               /\ ~Working({"extend"}, o)'
    BY <1>1, IdleNext
  <1>7. CatalogOwned'
    BY <1>1, <1>5, <1>6 DEF ServersInv, CatalogOwned, Registered, AllTools, Numbers
  <1>8. \A q \in Plugin : \A x : In(q, x)' <=> In(q, x)
    BY <1>1, <1>2, <1>3, <1>5, <1>6 DEF In, Brings, ServersInv, ServersTyped
  <1>9. \A q \in Plugin : extension'[q] => plugin[q].status = "active"
    BY <1>1, <1>2 DEF ServersInv, ServersTyped, PluginsWhole
  <1>10. \A k \in Skill : skill'[k] \in Plugin => \A q : q = skill'[k] => In(q, k)'
    BY <1>1, <1>8 DEF ServersInv, PluginsWhole
  <1>11. PluginsWhole'
    BY <1>1, <1>8, <1>9, <1>10, WholeNext DEF ServersInv, PluginsWhole
  <1>12. QED
    BY <1>1, <1>4, <1>7, <1>11, IdleNext DEF ServersInv

(* The command ends before anything has come in.                             *)
LEMMA PathsMissingKeeps ==
  ASSUME ServersInv, Servers!PathsMissing
  PROVE  ServersInv'
  <1>1. /\ command.do = "extend" /\ command.done = {} /\ command' = Servers!Idle
        /\ UNCHANGED <<file, configs, allowed, server, catalog, plugin, disk, extension,
                       skill, loaded, changes>>
    BY DEF Servers!PathsMissing, Servers!plugins, Servers!listing, Servers!bounds
  <1>2. ServersTyped' /\ FileInForce'
    BY <1>1 DEF ServersInv, ServersTyped, FileInForce
  <1>3. \A o : ~Working({"connect"}, o) /\ ~Working({"activate", "register"}, o)
    BY <1>1 DEF Working
  <1>4. \A o : /\ ~Working({"connect"}, o)' /\ ~Working({"activate", "register"}, o)'
               /\ ~Working({"extend"}, o)'
    BY <1>1, IdleNext
  <1>5. CatalogOwned'
    BY <1>1, <1>3, <1>4 DEF ServersInv, CatalogOwned, Registered, AllTools, Numbers
  <1>6. \A q, x : In(q, x)' <=> In(q, x)
    BY <1>1, <1>4 DEF In, Brings
  <1>7. PluginsWhole'
    BY <1>1, <1>6, WholeNext DEF ServersInv, PluginsWhole
  <1>8. QED
    BY <1>1, <1>2, <1>5, <1>7, IdleNext DEF ServersInv

(* What a plugin has brought in is taken out, and the plugin deactivated:    *)
(* what the other plugins have brought in, and the servers of the file, stay.*)
LEMMA RetractKeeps ==
  ASSUME ServersInv, NEW p \in Plugin, NEW brought,
         \A x : x \in brought <=> In(p, x),
         \A o : ~Working({"connect"}, o) /\ ~Working({"activate", "register"}, o),
         \A q \in Plugin : q # p => ~Working({"extend"}, q),
         Servers!RetractExtensions(p, brought),
         Servers!Deactivate(p, Servers!ToolsOf(brought)),
         command' = Servers!Idle,
         extension' \in [Plugin -> BOOLEAN], ~extension'[p],
         \A q \in Plugin : q # p => extension'[q] = extension[q],
         UNCHANGED <<file, configs, allowed, disk>>
  PROVE  ServersInv'
  <1> DEFINE taken == UNION {server[s].tools : s \in brought \cap Server}
  <1>1. /\ skill' = [k \in Skill |-> IF k \in brought /\ skill[k] = p THEN "none"
                                    ELSE skill[k]]
        /\ loaded' = {k \in loaded : skill'[k] # "none"}
        /\ server' = [s \in Server |-> IF s \in brought THEN Servers!Absent ELSE server[s]]
    BY DEF Servers!RetractExtensions
  <1>2. PICK emptied \in BOOLEAN, new \in PluginRecord :
          /\ new.status \in {"draining", "disabled", "failed"}
          /\ emptied \/ new.status = "draining"
          /\ new.tools = IF emptied THEN {} ELSE plugin[p].tools
          /\ plugin' = [plugin EXCEPT ![p] = new]
          /\ catalog' = catalog \ (taken \cup (IF emptied THEN plugin[p].tools ELSE {}))
          /\ changes' = changes
    <2>1. plugin[p] \in PluginRecord
      BY DEF ServersInv, ServersTyped
    <2>2. CASE /\ plugin' = [plugin EXCEPT ![p].status = "draining"]
               /\ catalog' = catalog \ taken
               /\ changes' = changes
      <3> DEFINE idle == [plugin[p] EXCEPT !.status = "draining"]
      <3>1. idle \in PluginRecord /\ idle.status = "draining" /\ idle.tools = plugin[p].tools
        BY ONLY <2>1 DEF PluginRecord, Servers!Lifecycle
      <3>2. plugin' = [plugin EXCEPT ![p] = idle]
        BY <2>2
      <3>3. catalog' = catalog \ (taken \cup {})
        BY <2>2
      <3>4. FALSE \in BOOLEAN
        OBVIOUS
      <3> HIDE DEF idle
      <3>5. QED
        BY <2>2, <3>1, <3>2, <3>3, <3>4
    <2>3. ASSUME NEW s \in {"disabled", "failed"},
                 plugin' = [plugin EXCEPT ![p].status = s, ![p].tools = {}],
                 catalog' = catalog \ (taken \cup plugin[p].tools),
                 changes' = changes
          PROVE  \E new \in PluginRecord :
                   /\ new.status = s /\ new.tools = {}
                   /\ plugin' = [plugin EXCEPT ![p] = new]
      <3> DEFINE left == [plugin[p] EXCEPT !.status = s, !.tools = {}]
      <3>1. left \in PluginRecord /\ left.status = s /\ left.tools = {}
        BY <2>1 DEF PluginRecord, Servers!Lifecycle
      <3>2. plugin' = [plugin EXCEPT ![p] = left]
        BY <2>3 DEF ServersInv, ServersTyped
      <3> HIDE DEF left
      <3>3. QED
        BY <3>1, <3>2
    <2>4. \/ /\ plugin' = [plugin EXCEPT ![p].status = "draining"]
             /\ catalog' = catalog \ taken
             /\ changes' = changes
          \/ \E s \in {"disabled", "failed"} :
               /\ plugin' = [plugin EXCEPT ![p].status = s, ![p].tools = {}]
               /\ catalog' = catalog \ (taken \cup plugin[p].tools)
               /\ changes' = changes
      BY DEF Servers!Deactivate, Servers!ToolsOf, Servers!bounds, Servers!Fault
    <2>5. TRUE \in BOOLEAN
      OBVIOUS
    <2>6. QED
      BY <2>2, <2>3, <2>4, <2>5
  <1>3. \A q \in Plugin : q # p => plugin'[q] = plugin[q]
    BY <1>2 DEF ServersInv, ServersTyped
  <1>4. /\ plugin'[p] = new
        /\ plugin' \in [Plugin -> PluginRecord]
    BY <1>2 DEF ServersInv, ServersTyped
  <1>5. \A s \in Server : /\ s \in brought => server'[s] = Servers!Absent
                          /\ s \notin brought => server'[s] = server[s]
    BY <1>1
  <1>6. ServersTyped'
    <2>1. server' \in [Server -> ServerRecord]
      BY <1>1, AbsentIs DEF ServersInv, ServersTyped
    <2>2. skill' \in [Skill -> {"none", "user"} \cup Plugin]
      BY <1>1 DEF ServersInv, ServersTyped
    <2>3. catalog' \subseteq Servers!Tool /\ loaded' \subseteq Skill
      BY <1>1, <1>2 DEF ServersInv, ServersTyped
    <2>4. QED
      BY <1>2, <1>4, <2>1, <2>2, <2>3 DEF ServersInv, ServersTyped
  <1>7. \A s \in Server : Registered(s) = server[s].tools
    BY DEF ServersInv, CatalogOwned
  <1>8. \A q \in Plugin : Registered(q) = plugin[q].tools
    BY DEF ServersInv, CatalogOwned
  <1>9. \A t \in taken : t[1] \in brought \cap Server
    BY <1>7 DEF Registered
  <1>10. \A s \in Server : Registered(s)' = server'[s].tools
    <2> SUFFICES ASSUME NEW s \in Server
                 PROVE  Registered(s)' = server'[s].tools
      OBVIOUS
    <2>1. \A t \in plugin[p].tools : t[1] = p /\ t[1] # s
      BY <1>8, OwnersApart DEF Registered
    <2>2. CASE s \in brought
      <3>1. Registered(s) \subseteq taken
        BY <1>7, <2>2
      <3>2. Registered(s)' = {}
        BY <1>2, <3>1 DEF Registered
      <3>3. QED
        BY <1>5, <2>2, <3>2, AbsentIs
    <2>3. CASE s \notin brought
      <3>1. Registered(s)' = Registered(s)
        BY <1>2, <1>9, <2>1, <2>3 DEF Registered
      <3>2. QED
        BY <1>5, <1>7, <2>3, <3>1
    <2>4. QED
      BY <2>2, <2>3
  <1>11. \A q \in Plugin : Registered(q)' = plugin'[q].tools
    <2> SUFFICES ASSUME NEW q \in Plugin
                 PROVE  Registered(q)' = plugin'[q].tools
      OBVIOUS
    <2>1. \A t \in taken : t[1] # q
      BY <1>9, OwnersApart
    <2>2. \A t \in plugin[p].tools : t[1] = p
      BY <1>8 DEF Registered
    <2>3. CASE q # p
      <3>1. Registered(q)' = Registered(q)
        BY <1>2, <2>1, <2>2, <2>3 DEF Registered
      <3>2. QED
        BY <1>3, <1>8, <2>3, <3>1
    <2>4. CASE q = p /\ emptied
      <3>1. Registered(q)' = {}
        BY <1>2, <1>8, <2>4 DEF Registered
      <3>2. QED
        BY <1>2, <1>4, <2>4, <3>1
    <2>5. CASE q = p /\ ~emptied
      <3>1. Registered(q)' = Registered(q)
        BY <1>2, <2>1, <2>5 DEF Registered
      <3>2. QED
        BY <1>2, <1>4, <1>8, <2>5, <3>1
    <2>6. QED
      BY <2>3, <2>4, <2>5
  <1>12. \A o : /\ ~Working({"connect"}, o)' /\ ~Working({"activate", "register"}, o)'
                /\ ~Working({"extend"}, o)'
    BY IdleNext
  <1>13. CatalogOwned'
    <2>1. \A s \in Server : server'[s].tools # {} => server'[s].status \in {"ready", "degraded"}
      BY <1>5, AbsentIs DEF ServersInv, CatalogOwned
    <2>2. \A q \in Plugin :
            /\ plugin'[q].tools # {} => plugin'[q].status \in {"active", "draining"}
            /\ plugin'[q].status = "active" => plugin'[q].tools = AllTools(q)
      <3>1. \A q \in Plugin :
              /\ plugin[q].tools # {} => plugin[q].status \in {"active", "draining"}
              /\ plugin[q].status = "active" => plugin[q].tools = AllTools(q)
        BY DEF ServersInv, CatalogOwned
      <3>2. QED
        BY ONLY <1>2, <1>3, <1>4, <3>1
    <2>3. QED
      BY <1>10, <1>11, <1>12, <2>1, <2>2 DEF CatalogOwned, AllTools, Numbers
  <1>14. FileInForce'
    <2>1. \A s \in Server : s \in brought => file[s] = "none"
      BY DEF ServersInv, PluginsWhole, FileInForce
    <2>2. QED
      BY <1>5, <2>1 DEF ServersInv, FileInForce
  <1>15. \A q \in Plugin : \A x : In(q, x)' <=> (q # p /\ In(q, x))
    BY <1>12 DEF In, Brings
  <1>16. PluginsWhole'
    <2>1. \A q \in Plugin : extension'[q] => plugin'[q].status = "active"
      BY <1>3 DEF ServersInv, PluginsWhole
    <2>2. \A q \in Plugin : \A k \in Skill : In(q, k)' => skill'[k] = q
      BY <1>1, <1>15 DEF ServersInv, PluginsWhole
    <2>3. \A q \in Plugin : \A s \in Server : In(q, s)' => server'[s] = server[s]
      BY <1>5, <1>15 DEF ServersInv, PluginsWhole
    <2>4. \A q \in Plugin : \A s \in Server :
            In(q, s)' => server'[s].status # "absent" /\ configs'[s] = "none"
      BY <1>15, <2>3 DEF ServersInv, PluginsWhole
    <2>5. \A q, r \in Plugin : \A s \in Server : In(q, s)' /\ In(r, s)' => q = r
      BY <1>15 DEF ServersInv, PluginsWhole
    <2>6. \A k \in Skill : skill'[k] \in Plugin => \A q : q = skill'[k] => In(q, k)'
      <3>1. \A k \in Skill : skill[k] \in Plugin => In(skill[k], k)
        BY DEF ServersInv, PluginsWhole
      <3>2. QED
        BY <1>1, <1>15, <3>1, OwnersApart
    <2>7. \A s \in Server : server'[s].status # "absent" =>
            configs'[s] # "none" \/ \E q \in Plugin : In(q, s)'
      <3>1. \A s \in Server : server[s].status # "absent" =>
              configs[s] # "none" \/ \E q \in Plugin : In(q, s)
        BY DEF ServersInv, PluginsWhole
      <3>2. \A s \in Server : server'[s].status # "absent" => s \notin brought
        BY <1>5, AbsentIs
      <3>3. QED
        BY <1>5, <1>15, <3>1, <3>2
    <2>8. QED
      BY <2>1, <2>2, <2>4, <2>5, <2>6, <2>7, WholeNext
  <1>17. QED
    BY <1>6, <1>13, <1>14, <1>16, IdleNext DEF ServersInv

(* What it brings is there already, or cannot be read.                       *)
LEMMA ExtendFailsKeeps ==
  ASSUME ServersInv, Servers!ExtendFails
  PROVE  ServersInv'
  <1>1. /\ command.do = "extend" /\ command' = Servers!Idle
        /\ Servers!RetractExtensions(command.on, command.done)
        /\ Servers!Deactivate(command.on, Servers!ToolsOf(command.done))
        /\ UNCHANGED <<file, configs, allowed, disk, extension>>
    BY DEF Servers!ExtendFails, Servers!listing
  <1>2. command.on \in Plugin /\ ~extension[command.on]
    BY <1>1, PluginCommand DEF ServersInv, CommandTyped, Doing
  <1>3. /\ \A o : ~Working({"connect"}, o) /\ ~Working({"activate", "register"}, o)
        /\ \A o : Working({"extend"}, o) <=> o = command.on
    BY <1>1 DEF Working
  <1>4. \A x : x \in command.done <=> In(command.on, x)
    BY <1>2, <1>3 DEF In
  <1>5. extension' \in [Plugin -> BOOLEAN]
    BY <1>1 DEF ServersInv, ServersTyped
  <1>6. /\ \A q \in Plugin : q # command.on => ~Working({"extend"}, q)
        /\ ~extension'[command.on]
        /\ \A q \in Plugin : q # command.on => extension'[q] = extension[q]
    BY <1>1, <1>2, <1>3
  <1>7. PICK p \in Plugin : p = command.on
    BY <1>2
  <1>8. PICK brought : brought = command.done
    OBVIOUS
  <1>9. QED
    BY <1>1, <1>2, <1>3, <1>4, <1>5, <1>6, <1>7, <1>8, RetractKeeps

(* /plugins disable                                                          *)
LEMMA DisablePluginKeeps ==
  ASSUME ServersInv, NEW p \in Plugin, Servers!DisablePlugin(p)
  PROVE  ServersInv'
  <1>1. /\ command = Servers!Idle /\ command' = Servers!Idle
        /\ Servers!RetractExtensions(p, Servers!Brought(p))
        /\ Servers!Deactivate(p, Servers!ToolsOf(Servers!Brought(p)))
        /\ extension' = [extension EXCEPT ![p] = FALSE]
        /\ UNCHANGED <<file, configs, allowed, disk>>
    BY DEF Servers!DisablePlugin, Servers!Ready, Servers!listing
  <1>2. \A o : /\ ~Working({"connect"}, o) /\ ~Working({"activate", "register"}, o)
               /\ ~Working({"extend"}, o)
    BY <1>1, IdleIs
  <1>3. \A x : x \in Servers!Brought(p) <=> In(p, x)
    BY <1>2 DEF In, Brings, Servers!Brought
  <1>4. /\ extension' \in [Plugin -> BOOLEAN] /\ ~extension'[p]
        /\ \A q \in Plugin : q # p => extension'[q] = extension[q]
    BY <1>1 DEF ServersInv, ServersTyped
  <1>5. QED
    BY <1>1, <1>2, <1>3, <1>4, RetractKeeps

-----------------------------------------------------------------------------
(* Restarts, and all the steps.                                              *)

(* The program starts, and finds some file of servers.                       *)
LEMMA BootKeeps ==
  ASSUME ServersInv, NEW list \in [Server -> Servers!Entry], Servers!Boot(list),
         UNCHANGED <<disk, changes>>
  PROVE  ServersInv'
  <1>1. /\ file' = list /\ configs' = list
        /\ server' = [s \in Server |-> IF list[s] = "none" THEN Servers!Absent
                                      ELSE Servers!Added(list[s] = "on")]
        /\ allowed' = {s \in Server : list[s] = "on"}
        /\ catalog' = {} /\ loaded' = {} /\ command' = Servers!Idle
        /\ plugin' = [p \in Plugin |-> [status |-> "disabled", review |-> 0, tools |-> {}]]
        /\ extension' = [p \in Plugin |-> FALSE]
        /\ skill' \in [Skill -> {"none", "user"}]
    BY DEF Servers!Boot
  <1>2. \A s \in Server :
          /\ server'[s] \in ServerRecord /\ server'[s].tools = {}
          /\ list[s] = "none" => server'[s].status = "absent"
          /\ list[s] # "none" => /\ server'[s].status = "disconnected"
                                 /\ server'[s].enabled = (list[s] = "on")
    BY <1>1, AbsentIs DEF Servers!Added, ServerRecord, Servers!Status
  <1>3. \A p \in Plugin : /\ plugin'[p] \in PluginRecord /\ plugin'[p].status = "disabled"
                          /\ plugin'[p].tools = {} /\ ~extension'[p]
    BY <1>1, OwnersApart DEF PluginRecord, Servers!Lifecycle
  <1>4. ServersTyped'
    BY <1>1, <1>2, <1>3 DEF ServersInv, ServersTyped
  <1>5. \A o : /\ ~Working({"connect"}, o)' /\ ~Working({"activate", "register"}, o)'
               /\ ~Working({"extend"}, o)'
    BY <1>1, IdleNext
  <1>6. CatalogOwned'
    <2>1. \A o : Registered(o)' = {}
      BY <1>1 DEF Registered
    <2>2. QED
      BY <1>2, <1>3, <1>5, <2>1 DEF CatalogOwned, AllTools, Numbers
  <1>7. FileInForce'
    BY <1>1, <1>2 DEF FileInForce
  <1>8. \A p \in Plugin : \A x : ~In(p, x)'
    BY <1>3, <1>5 DEF In
  <1>9. PluginsWhole'
    <2>1. \A k \in Skill : skill'[k] \notin Plugin
      BY <1>1, OwnersApart
    <2>2. QED
      BY <1>1, <1>2, <1>3, <1>8, <2>1, WholeNext
  <1>10. QED
    BY <1>1, <1>4, <1>6, <1>7, <1>9, IdleNext DEF ServersInv

LEMMA RestartKeeps ==
  ASSUME ServersInv, Servers!Restart
  PROVE  ServersInv'
  <1>1. UNCHANGED <<disk, changes>>
    BY DEF Servers!Restart
  <1>2. file \in [Server -> Servers!Entry] /\ configs = file
    BY DEF ServersInv, ServersTyped, FileInForce
  <1>3. CASE Servers!Boot(file)
    BY <1>1, <1>2, <1>3, BootKeeps
  <1>4. ASSUME NEW s \in Server, NEW e \in Servers!Entry,
               Servers!Boot([configs EXCEPT ![s] = e])
        PROVE  ServersInv'
    <2>1. [configs EXCEPT ![s] = e] \in [Server -> Servers!Entry]
      BY <1>2
    <2>2. QED
      BY <1>1, <1>4, <2>1, BootKeeps
  <1>5. CASE Servers!Boot([s \in Server |-> "none"])
    <2>1. [s \in Server |-> "none"] \in [Server -> Servers!Entry]
      BY DEF Servers!Entry
    <2>2. QED
      BY <1>1, <1>5, <2>1, BootKeeps
  <1>6. QED
    BY <1>3, <1>4, <1>5 DEF Servers!Restart

LEMMA ServersBegin == Servers!Init => ServersInv
  <1> SUFFICES ASSUME Servers!Init
               PROVE  ServersInv
    OBVIOUS
  <1>1. /\ file = [s \in Server |-> "none"] /\ configs = file
        /\ server = [s \in Server |-> Servers!Absent]
        /\ allowed = {} /\ catalog = {} /\ loaded = {} /\ command = Servers!Idle
        /\ plugin = [p \in Plugin |-> [status |-> "disabled", review |-> 0, tools |-> {}]]
        /\ disk = [p \in Plugin |-> [version |-> 1, gone |-> {}]]
        /\ extension = [p \in Plugin |-> FALSE]
        /\ skill \in [Skill -> {"none", "user"}]
        /\ changes = 0
    BY DEF Servers!Init
  <1>2. \A s \in Server : /\ server[s] = Servers!Absent /\ file[s] = "none"
                          /\ server[s].tools = {} /\ server[s].status = "absent"
    BY <1>1, AbsentIs
  <1>3. \A p \in Plugin : /\ plugin[p] \in PluginRecord /\ plugin[p].status = "disabled"
                          /\ plugin[p].tools = {} /\ ~extension[p]
    BY <1>1, OwnersApart DEF PluginRecord, Servers!Lifecycle
  <1>4. ServersTyped
    <2>1. /\ disk \in [Plugin -> [version : 1..(MaxChange + 1), gone : SUBSET {"entry", "parts"}]]
          /\ \A p \in Plugin : disk[p].version <= changes + 1
          /\ changes \in 0..MaxChange
      BY <1>1, OwnersApart
    <2>2. QED
      BY <1>1, <1>3, <2>1, AbsentIs DEF ServersTyped, Servers!Entry
  <1>5. \A o : /\ ~Working({"connect"}, o) /\ ~Working({"activate", "register"}, o)
               /\ ~Working({"extend"}, o)
    BY <1>1, IdleIs
  <1>6. CatalogOwned
    <2>1. \A o : Registered(o) = {}
      BY <1>1 DEF Registered
    <2>2. QED
      BY <1>2, <1>3, <1>5, <2>1 DEF CatalogOwned
  <1>7. FileInForce
    BY <1>1, <1>2 DEF FileInForce
  <1>8. \A p \in Plugin : \A x : ~In(p, x)
    BY <1>3, <1>5 DEF In
  <1>9. PluginsWhole
    <2>1. \A k \in Skill : skill[k] \notin Plugin
      BY <1>1, OwnersApart
    <2>2. QED
      BY <1>2, <1>3, <1>8, <2>1 DEF PluginsWhole
  <1>10. QED
    BY <1>1, <1>4, <1>6, <1>7, <1>9, IdleIs DEF ServersInv

LEMMA ServersStep == ServersInv /\ Servers!Next => ServersInv'
  BY RestartKeeps, AddServerKeeps, AddUnwrittenKeeps, RemoveServerKeeps, EnableServerKeeps,
     DisableServerKeeps, ConnectServerKeeps, DisconnectKeeps, OfferToolKeeps,
     ConnectedKeeps, ConnectFailsKeeps, ReviewKeeps, ChangeFilesKeeps, EnableKeeps,
     EnableActiveKeeps, DisablePluginKeeps, ActivatedKeeps, RegisterToolKeeps,
     ActivationFailsKeeps, ActiveKeeps, ExtendKeeps, ExtendedKeeps, PathsMissingKeeps,
     ExtendFailsKeeps, LoadKeeps, UnloadKeeps
  DEF Servers!Next

LEMMA ServersStay ==
  ASSUME ServersInv, UNCHANGED serverVars
  PROVE  ServersInv'
  <1>1. /\ UNCHANGED <<file, configs, server, allowed, catalog, plugin, disk, extension,
                       skill, loaded, changes>>
        /\ UNCHANGED command
    BY DEF serverVars
  <1>2. ServersTyped' /\ FileInForce'
    BY <1>1 DEF ServersInv, ServersTyped, FileInForce
  <1>3. CommandTyped'
    BY <1>1 DEF ServersInv, CommandTyped, Doing, StillLeft
  <1>4. CatalogOwned'
    BY <1>1 DEF ServersInv, CatalogOwned, Registered, Working
  <1>5. PluginsWhole'
    BY <1>1 DEF ServersInv, PluginsWhole, In, Working
  <1>6. QED
    BY <1>2, <1>3, <1>4, <1>5 DEF ServersInv

(* The instance counts as everyone counts.                                   *)
LEMMA SameCount == \A S : Servers!Cardinality(S) = Cardinality(S)
  BY Zenon DEF Servers!Cardinality, Cardinality

(* The tools of an owner are as many as there may be.                        *)
LEMMA ToolsCounted == \A o : Cardinality(AllTools(o)) = MaxTool
  <1> SUFFICES ASSUME NEW o
               PROVE  Cardinality(AllTools(o)) = MaxTool
    OBVIOUS
  <1>1. MaxTool \in Nat
    BY OwnersApart
  <1>2. IsFiniteSet({o}) /\ Cardinality({o}) = 1
    BY FS_Singleton
  <1>3. IsFiniteSet(1..MaxTool) /\ Cardinality(1..MaxTool) = MaxTool
    BY <1>1, FS_Interval
  <1>4. Cardinality({o} \X (1..MaxTool)) = 1 * MaxTool
    BY <1>2, <1>3, FS_Product
  <1>5. 1 * MaxTool = MaxTool
    BY <1>1
  <1>6. AllTools(o) = {o} \X (1..MaxTool)
    BY DEF AllTools, Numbers
  <1>7. QED
    BY <1>4, <1>5, <1>6

LEMMA ServersShow ==
  ASSUME ServersInv
  PROVE  /\ Servers!CatalogIsOwned /\ Servers!PluginIsWhole /\ Servers!FileIsInForce
         /\ Servers!TypeOK
  <1>a. ASSUME command = Servers!Idle
        PROVE  /\ \A s \in Server :
                    /\ Registered(s) = server[s].tools
                    /\ server[s].tools # {} => server[s].status \in {"ready", "degraded"}
               /\ \A p \in Plugin :
                    /\ Registered(p) = plugin[p].tools
                    /\ plugin[p].tools # {} => plugin[p].status \in {"active", "draining"}
                    /\ plugin[p].status = "active" =>
                         Cardinality(plugin[p].tools) = MaxTool
    <2>1. \A o : ~Working({"connect"}, o) /\ ~Working({"activate", "register"}, o)
      BY <1>a, IdleIs
    <2>2. \A p \in Plugin : plugin[p].status = "active" =>
                             Cardinality(plugin[p].tools) = MaxTool
      BY ToolsCounted DEF ServersInv, CatalogOwned
    <2>3. QED
      BY <2>1, <2>2 DEF ServersInv, CatalogOwned
  <1>1. Servers!CatalogIsOwned
    BY <1>a, SameCount DEF Servers!CatalogIsOwned, Registered
  <1>2. Servers!FileIsInForce
    BY DEF ServersInv, FileInForce, Servers!FileIsInForce
  <1>3. ASSUME command = Servers!Idle
        PROVE  \A p \in Plugin : \A x : In(p, x) <=> x \in Servers!Brought(p)
    BY <1>3, IdleIs DEF In, Brings, Servers!Brought
  <1>4. Servers!PluginIsWhole
    <2> SUFFICES ASSUME command = Servers!Idle
                 PROVE  /\ \A p \in Plugin : extension[p] =>
                             /\ plugin[p].status = "active"
                             /\ \A k \in Skill : k \in Servers!Brought(p) => skill[k] = p
                             /\ \A s \in Server : s \in Servers!Brought(p) =>
                                  server[s].status # "absent"
                        /\ \A k \in Skill : skill[k] \in Plugin => extension[skill[k]]
                        /\ \A s \in Server : server[s].status # "absent" =>
                             configs[s] # "none" \/
                             \E p \in Plugin : s \in Servers!Brought(p)
      BY DEF Servers!PluginIsWhole
    <2>1. \A p \in Plugin : \A x : In(p, x) => extension[p]
      BY IdleIs DEF In
    <2>2. QED
      BY <1>3, <2>1 DEF ServersInv, PluginsWhole
  <1>5. Servers!TypeOK
    <2>1. command.do \in {"none", "connect", "activate", "register", "extend"}
      BY DEF ServersInv, CommandTyped, Servers!Idle
    <2>2. configs = file /\ allowed \subseteq Server
      BY DEF ServersInv, FileInForce
    <2>3. QED
      BY <2>1, <2>2
         DEF ServersInv, ServersTyped, ServerRecord, PluginRecord, Servers!TypeOK
  <1>6. QED
    BY <1>1, <1>2, <1>4, <1>5

-----------------------------------------------------------------------------
(* All together.                                                             *)

AllInv ==
  /\ part = "consent" => IInv
  /\ part = "patch" => PatchInv
  /\ part = "servers" => ServersInv
  /\ part = "rules" => RulesInv
  /\ part = "match" => MatchInv
  /\ part = "settings" => SettingsInv
  /\ part = "providers" => SetupInv(Known, Custom, {}, {})
  /\ part = "vectors" => SetupInv({}, {}, Known, Custom)

allVars == <<part, vars, patchVars, serverVars, ruleVars, setupVars>>

(* The instance keeps apart the names that have to be.                       *)
LEMMA NamesApart == Apart(Known, Custom, {}, {}) /\ Apart({}, {}, Known, Custom)
  BY InstanceAssumption DEF Apart

(* Every part begins as its module says.                                     *)
LEMMA AllBegin == AllInit => AllInv
  <1> SUFFICES ASSUME AllInit
               PROVE  AllInv
    OBVIOUS
  <1>1. Settings!Init
    BY DEF AllInit
  <1>2. part = "vectors" => Setup({}, {}, Known, Custom)!Init
    BY DEF AllInit
  <1>3. part # "vectors" => Setup(Known, Custom, {}, {})!Init
    BY DEF AllInit
  <1>4. Servers!Init /\ Init /\ Rules!Init /\ Matching!Init /\ Patch!Init
    BY DEF AllInit
  <1>5. IInv /\ RulesInv /\ MatchInv /\ PatchInv
    BY <1>4, ConsentBegin, RulesBegin, MatchBegin, PatchBegin
  <1>6. QED
    BY <1>1, <1>2, <1>3, <1>4, <1>5, SettingsBegin, SetupBegin, ServersBegin DEF AllInv

(* A refused change of the settings changes nothing, of a step of the whole. *)
RefusedStep == [UndoneChange]_(Settings!settingsVars)

(* A step moves one part, or none; what it shows of a refused change is true *)
(* of every part, since the others leave the settings as they are.           *)
LEMMA AllStep == AllInv /\ [AllNext]_allVars => AllInv' /\ RefusedStep
  <1> USE DEF RefusedStep
  <1> SUFFICES ASSUME AllInv, [AllNext]_allVars
               PROVE  AllInv' /\ RefusedStep
    OBVIOUS
  <1>1. CASE Only("settings") /\ Settings!Next
    <2>1. SettingsInv' /\ UndoneChange
      BY <1>1, SettingsStep DEF AllInv, Only
    <2>2. QED
      BY <1>1, <2>1 DEF AllInv, Only
  <1>2. CASE Only("providers") /\ Setup(Known, Custom, {}, {})!Next /\ settingsFixed
    <2>1. SetupInv(Known, Custom, {}, {})'
      BY <1>2, NamesApart, SetupStep DEF AllInv, Only
    <2>2. UNCHANGED Settings!settingsVars
      BY <1>2 DEF settingsFixed, Settings!settingsVars, Settings!memory
    <2>3. QED
      BY <1>2, <2>1, <2>2 DEF AllInv, Only
  <1>3. CASE Only("vectors") /\ Setup({}, {}, Known, Custom)!Next /\ settingsFixed
    <2>1. SetupInv({}, {}, Known, Custom)'
      BY <1>3, NamesApart, SetupStep DEF AllInv, Only
    <2>2. UNCHANGED Settings!settingsVars
      BY <1>3 DEF settingsFixed, Settings!settingsVars, Settings!memory
    <2>3. QED
      BY <1>3, <2>1, <2>2 DEF AllInv, Only
  <1>8. CASE Only("servers") /\ Servers!Next /\ UNCHANGED setupVars
    <2>1. ServersInv'
      BY <1>8, ServersStep DEF AllInv, Only
    <2>2. UNCHANGED Settings!settingsVars
      BY <1>8 DEF setupVars, Settings!settingsVars, Settings!memory
    <2>3. QED
      BY <1>8, <2>1, <2>2 DEF AllInv, Only
  <1>4. CASE Only("consent") /\ Next /\ UNCHANGED setupVars
    <2>1. IInv'
      BY <1>4, ConsentStep DEF AllInv, Only
    <2>2. UNCHANGED Settings!settingsVars
      BY <1>4 DEF setupVars, Settings!settingsVars, Settings!memory
    <2>3. QED
      BY <1>4, <2>1, <2>2 DEF AllInv, Only
  <1>5. CASE Only("rules") /\ Rules!Next /\ UNCHANGED setupVars
    <2>1. RulesInv'
      BY <1>5, RulesStep DEF AllInv, Only
    <2>2. UNCHANGED Settings!settingsVars
      BY <1>5 DEF setupVars, Settings!settingsVars, Settings!memory
    <2>3. QED
      BY <1>5, <2>1, <2>2 DEF AllInv, Only
  <1>6. CASE Only("match") /\ Matching!Next /\ UNCHANGED setupVars
    <2>1. MatchInv'
      BY <1>6, MatchStep DEF AllInv, Only
    <2>2. UNCHANGED Settings!settingsVars
      BY <1>6 DEF setupVars, Settings!settingsVars, Settings!memory
    <2>3. QED
      BY <1>6, <2>1, <2>2 DEF AllInv, Only
  <1>7. CASE Only("patch") /\ Patch!Next /\ UNCHANGED setupVars
    <2>1. PatchInv'
      BY <1>7, PatchStep DEF AllInv, Only
    <2>2. UNCHANGED Settings!settingsVars
      BY <1>7 DEF setupVars, Settings!settingsVars, Settings!memory
    <2>3. QED
      BY <1>7, <2>1, <2>2 DEF AllInv, Only
  <1>9. CASE UNCHANGED allVars
    <2>1. settingsFixed /\ providersFixed /\ UNCHANGED Settings!settingsVars
      BY <1>9 DEF allVars, setupVars, settingsFixed, providersFixed, Settings!settingsVars,
                  Settings!memory
    <2>2. SettingsInv => SettingsInv'
      BY <2>1 DEF settingsFixed, SettingsInv, SettingsTyped, NothingEarly, Seeded, Forced
    <2>3. /\ SetupInv(Known, Custom, {}, {}) => SetupInv(Known, Custom, {}, {})'
          /\ SetupInv({}, {}, Known, Custom) => SetupInv({}, {}, Known, Custom)'
      BY <2>1, SetupStays
    <2>4. ServersInv => ServersInv'
      BY <1>9, ServersStay DEF allVars
    <2>5. IInv => IInv'
      BY <1>9, ConsentStep DEF allVars
    <2>6. RulesInv => RulesInv'
      BY <1>9, RulesStay DEF allVars
    <2>7. MatchInv => MatchInv'
      BY <1>9, MatchStay DEF allVars, ruleVars
    <2>8. PatchInv => PatchInv'
      BY <1>9, PatchStay DEF allVars
    <2>9. QED
      BY <1>9, <2>1, <2>2, <2>3, <2>4, <2>5, <2>6, <2>7, <2>8 DEF AllInv, allVars
  <1>10. QED
    <2>1. CASE AllNext
      BY <1>1, <1>2, <1>3, <1>4, <1>5, <1>6, <1>7, <1>8, <2>1 DEF AllNext, Only
    <2>2. QED
      BY <1>9, <2>1

(* Whichever part moves, its inductive invariant holds.                      *)
THEOREM AllInvariance == AllSpec => []AllInv
  <1>1. AllInit => AllInv
    BY AllBegin
  <1>2. AllInv /\ [AllNext]_allVars => AllInv'
    BY AllStep
  <1>3. QED
    BY <1>1, <1>2, PTL DEF AllSpec, allVars

(* What the session says is in force (engine, route, model), the store holds *)
(* the keys that were accepted, and tasks are taken only for a provider that *)
(* can be used.                                                              *)
THEOREM ConfigurationIsRight == AllSpec => []ConfigurationHolds
  <1>1. AllInv => ConfigurationHolds
    <2> SUFFICES ASSUME AllInv
                 PROVE  ConfigurationHolds
      OBVIOUS
    <2>1. part = "settings" => Settings!InForce
      BY SettingsInForce DEF AllInv
    <2>2. part = "vectors" => Setup({}, {}, Known, Custom)!KeysAreProven
      BY SetupShows DEF AllInv
    <2>3. part = "providers" => /\ Setup(Known, Custom, {}, {})!KeysAreProven
                                /\ Setup(Known, Custom, {}, {})!ReadyIsUsable
      BY SetupShows DEF AllInv
    <2>4. QED
      BY <2>1, <2>2, <2>3 DEF ConfigurationHolds, KeysAreProven
  <1>2. QED
    BY AllInvariance, <1>1, PTL

(* The catalogue, the plugins, the file of servers and the allow list agree  *)
(* between commands: what is registered is an owner's that is connected or   *)
(* active, a plugin is in as a whole or not at all, and what the file says is*)
(* in force, whichever step of a command failed before.                      *)
THEOREM ServersAgree == AllSpec => []ServersHold
  <1>1. AllInv => ServersHold
    BY ServersShow DEF AllInv, ServersHold
  <1>2. QED
    BY AllInvariance, <1>1, PTL

(* What the user decides is what counts: between two changes the rules in    *)
(* force, the table and the file are one and the verdict is the one they are *)
(* meant to give (module PermissionRules); both matching loops answer what a *)
(* pattern means (module PatternMatch); an edit of several files that is said*)
(* to be taken back has left nothing, but for what went with a lost record   *)
(* (module PatchSet).                                                        *)
THEOREM DecisionsCount == AllSpec => []UserDecides
  <1>1. AllInv => UserDecides
    BY RulesShow, MatchShow, PatchShow DEF AllInv, UserDecides
  <1>2. QED
    BY AllInvariance, <1>1, PTL

(* A setting, the failover, the models or the model in use: a change that is *)
(* refused, at whatever step, has changed nothing that lasts or is in force. *)
(* It is not said of a switch of sessions, which leaves the policy.          *)
THEOREM RefusedChangeChangesNothing == AllSpec => RefusedChangeIsUndone
  <1>1. AllInv /\ [AllNext]_allVars => [UndoneChange]_(Settings!settingsVars)
    BY AllStep DEF RefusedStep
  <1>2. AllSpec => [][UndoneChange]_(Settings!settingsVars)
    BY AllInvariance, <1>1, PTL DEF AllSpec, allVars
  <1>3. QED
    BY <1>2 DEF RefusedChangeIsUndone, Settings!RefusedChangeIsUndone, UndoneChange
=============================================================================
