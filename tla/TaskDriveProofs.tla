-------------------------- MODULE TaskDriveProofs ---------------------------
(***************************************************************************)
(* Proofs about module TaskDrive, for any missions, runs and plans, any    *)
(* number of commands, crashes and lapses: types, that no work is passed   *)
(* off as another's, and that outbox and kernel never contradict each      *)
(* other.                                                                  *)
(*                                                                         *)
(* The argument is about the script of the operation under way.  Each of   *)
(* its steps is backed: work is handed in that was done, an effect is      *)
(* recorded as done right behind the command that moves its node, and as   *)
(* asked behind the command that makes it wait (Whole, for a script that   *)
(* is about to be begun).  A step that is reached leaves the rest backed   *)
(* by the state instead (Begun), and a step that is refused leaves no rest.*)
(***************************************************************************)
EXTENDS TaskDrive, TLAPS, FiniteSetTheorems, SequenceTheorems, WellFoundedInduction

(* The steps of a script.                                                  *)
AnyCommand == {"start", "submit", "accept", "fail", "ask", "allow", "deny", "drop"}
Outcomes == {"done", "asked", "failed", "dropped"}
SessionStatus == Recoverable \cup {"none", "submitted", "completed", "cancelled", "failed"}

RunClaim == {c \in Claim : c.effect.kind \in {"start", "resume"}}

Step ==
  [do : {"kernel"}, command : AnyCommand, mission : Mission, unit : Unit]
    \cup [do : {"mission"}, command : {"create", "plan", "cancel"}, mission : Mission]
    \cup [do : {"session"}, unit : Unit, status : SessionStatus]
    \cup [do : {"complete"}, claim : Claim, outcome : Outcomes]
    \cup [do : {"execute"}, mission : Mission, claim : RunClaim]
    \cup [do : {"claim"}, unit : Unit, kinds : SUBSET {"start", "resume"}]
    \cup [do : {"keep"}, unit : Unit, how : {"single", "team"}]
    \cup [do : {"known", "begin", "ask"}, mission : Mission, unit : Unit]
    \cup [do : {"drive", "regroup", "launch", "finish", "wave"}, mission : Mission]
    \cup [do : {"retain"}, claim : RunClaim]
    \cup [do : {"tool"}, unit : Unit]
    \cup [do : {"fail"}]

(* The i-th step of s is command c on u.                                   *)
Orders(s, i, c, u) == s[i].do = "kernel" /\ s[i].command = c /\ s[i].unit = u

(* The kernel has moved the node past the work of its run.                 *)
Moved(u) == node[u] \in {"submitted", "accepted", "failed", "cancelled"}

WorkIsDone(s, i) ==
  s[i].do = "kernel" /\ s[i].command = "submit" => s[i].mission \in workedFor[s[i].unit]

ToolIsKnown(s, i) == s[i].do = "tool" => tool[s[i].unit] # "none"

(* An effect is recorded as done after the kernel has moved the node.      *)
DoneIsBacked(s, i) ==
  s[i].do = "complete" /\ s[i].outcome = "done" =>
    LET u == s[i].claim.effect.unit
        k == s[i].claim.effect.kind
    IN  /\ k \in {"start", "resume"} => Moved(u) \/ (i > 1 /\ Orders(s, i - 1, "submit", u))
        /\ k = "verify" => node[u] = "accepted" \/ (i > 1 /\ Orders(s, i - 1, "accept", u))

AskIsJournalled(s, i) ==
  s[i].do = "complete" /\ s[i].outcome = "asked" =>
    LET u == s[i].claim.effect.unit
    IN  tool[u] # "none" \/ \E j \in 1..(i - 1) : s[j].do = "ask" /\ s[j].unit = u

AskIsAhead(s, i) ==
  s[i].do = "complete" /\ s[i].outcome = "asked" =>
    i > 2 /\ s[i - 1].do = "session" /\ Orders(s, i - 2, "ask", s[i].claim.effect.unit)

AskIsBacked(s, i) ==
  s[i].do = "complete" /\ s[i].outcome = "asked" =>
    \/ i > 2 /\ s[i - 1].do = "session" /\ Orders(s, i - 2, "ask", s[i].claim.effect.unit)
    \/ /\ i <= 2
       /\ \A j \in 1..(i - 1) : s[j].do = "session"
       /\ node[s[i].claim.effect.unit] = "waiting"

(* A model runs within the drive loop.                                     *)
IsDriven(s, i) == s[i].do = "execute" => i < Len(s) /\ s[i + 1].do = "drive"

Whole(s) ==
  \A i \in 1..Len(s) :
    /\ WorkIsDone(s, i) /\ ToolIsKnown(s, i) /\ DoneIsBacked(s, i) /\ AskIsJournalled(s, i)
    /\ AskIsAhead(s, i) /\ IsDriven(s, i)

Begun(s) ==
  \A i \in 1..Len(s) :
    /\ WorkIsDone(s, i) /\ ToolIsKnown(s, i) /\ DoneIsBacked(s, i) /\ AskIsJournalled(s, i)
    /\ AskIsBacked(s, i) /\ IsDriven(s, i)

(* Teams have claims of runs.                                              *)
TeamFits ==
  /\ IsFiniteSet(hand) /\ IsFiniteSet(claims)
  /\ hand \subseteq RunClaim /\ claims \subseteq RunClaim

Typed ==
  /\ TypeOK /\ TeamFits
  /\ script \in Seq(Step)
  /\ \A u \in Unit : tool[u] # "none" => envelope[u] \in Mission

Books ==
  \A u \in Unit :
    /\ node[u] \in {"submitted", "accepted"} => missionOf[u] \in workedFor[u]
    /\ row[Eff("start", u)] = "done" \/ row[Eff("resume", u)] = "done" => Moved(u)
    /\ row[Eff("verify", u)] = "done" => node[u] = "accepted"
    /\ \A k \in Kind : row[Eff(k, u)] = "asked" => tool[u] # "none"
    /\ node[u] = "running" =>
         \E k \in {"start", "resume"} :
           row[Eff(k, u)] \in {"pending", "claimed", "failed", "dropped"}
    /\ node[u] # "absent" => mission[missionOf[u]] \in {"running", "completed", "cancelled"}
    /\ mission[missionOf[u]] = "completed" => node[u] = "accepted"

IInv == Typed /\ Begun(script) /\ Books

-----------------------------------------------------------------------------
(* A set of numbers has a least one.                                       *)
LEMMA Least ==
  ASSUME NEW T, T \subseteq Nat, T # {}
  PROVE  \E x \in T : \A y \in T : x <= y
<1>1. PICK x \in T : \A y \in T : ~ (<<y, x>> \in OpToRel(<, Nat))
  BY NatLessThanWellFounded, WFMin, Zenon
<1>2. OpToRel(<, Nat) = {ss \in Nat \X Nat : ss[1] < ss[2]}
  BY Zenon DEF OpToRel
<1>3. \A y \in T : ~ (<<y, x>> \in {ss \in Nat \X Nat : ss[1] < ss[2]})
  BY <1>1, <1>2, Zenon
<1>4. ASSUME NEW y \in T PROVE x <= y
  <2>1. x \in Nat /\ y \in Nat
    OBVIOUS
  <2>2. ~ (<<y, x>> \in {ss \in Nat \X Nat : ss[1] < ss[2]})
    BY <1>3
  <2>3. ~ (y < x)
    BY <2>1, <2>2
  <2> QED BY <2>1, <2>3
<1> QED BY <1>4

(* The sequence of the partial concatenations exists.                      *)
LEMMA FlattenExists ==
  ASSUME NEW ss, NEW n \in Nat
  PROVE  \E f : f = [i \in 1..n |-> IF i = 1 THEN ss[i] ELSE f[i - 1] \o ss[i]]
<1> DEFINE Fits(f, k) == f = [i \in 1..k |-> IF i = 1 THEN ss[i] ELSE f[i - 1] \o ss[i]]
           Bad == {k \in Nat : ~ \E f : Fits(f, k)}
<1>1. SUFFICES ASSUME Bad # {} PROVE FALSE
  OBVIOUS
<1>2. PICK k \in Bad : \A j \in Bad : k <= j
  <2> HIDE DEF Bad
  <2>1. Bad \subseteq Nat
    BY DEF Bad
  <2> QED BY <1>1, <2>1, Least
<1>3. k # 0
  <2>1. Fits(<<>>, 0)
    OBVIOUS
  <2> QED BY <2>1
<1>4. k - 1 \in Nat /\ k - 1 \notin Bad
  <2>1. k \in Nat
    BY <1>2
  <2>2. k - 1 \in Nat /\ ~ (k <= k - 1)
    BY <1>3, <2>1
  <2> HIDE DEF Bad
  <2> QED BY <1>2, <2>2
<1>5. PICK g : Fits(g, k - 1)
  BY <1>4
<1> DEFINE f == [i \in 1..k |->
                   IF i = k THEN (IF k = 1 THEN ss[1] ELSE g[k - 1] \o ss[k]) ELSE g[i]]
<1>6. Fits(f, k)
  <2>1. ASSUME NEW i \in 1..k
        PROVE  f[i] = IF i = 1 THEN ss[i] ELSE f[i - 1] \o ss[i]
    <3>1. CASE i = k
      BY <3>1
    <3>2. CASE i # k
      <4>1. i \in 1..(k - 1) /\ (i # 1 => i - 1 \in 1..(k - 1))
        BY <1>4, <3>2
      <4>2. f[i] = g[i] /\ (i # 1 => f[i - 1] = g[i - 1])
        BY <4>1
      <4> QED BY <1>5, <4>1, <4>2
    <3> QED BY <3>1, <3>2
  <2> QED BY <2>1
<1> QED BY <1>2, <1>6

(* What is closed under concatenation contains the concatenation of many.  *)
LEMMA FlattenClosed ==
  ASSUME NEW G, <<>> \in G, \A s, t \in G : s \o t \in G, NEW ss \in Seq(G)
  PROVE  FlattenSeq(ss) \in G
<1>1. CASE Len(ss) = 0
  BY <1>1 DEF FlattenSeq
<1>2. CASE Len(ss) # 0
  <2> DEFINE n == Len(ss)
             Fits(f) == f = [i \in 1..n |-> IF i = 1 THEN ss[i] ELSE f[i - 1] \o ss[i]]
             flatten == CHOOSE f : Fits(f)
  <2>1. n \in Nat /\ n >= 1
    BY <1>2
  <2>2. Fits(flatten)
    <3>1. \E f : Fits(f)
      BY <2>1, FlattenExists
    <3> QED BY <3>1
  <2>3. FlattenSeq(ss) = flatten[n]
    BY <1>2 DEF FlattenSeq
  <2> HIDE DEF flatten
  <2>4. \A i \in 1..n : flatten[i] = IF i = 1 THEN ss[i] ELSE flatten[i - 1] \o ss[i]
    BY <2>2
  <2> DEFINE Bad == {i \in 1..n : flatten[i] \notin G}
  <2>5. Bad = {}
    <3> SUFFICES ASSUME Bad # {} PROVE FALSE
      OBVIOUS
    <3>1. Bad \subseteq Nat
      OBVIOUS
    <3>2. PICK i \in Bad : \A j \in Bad : i <= j
      <4> HIDE DEF Bad
      <4> QED BY <3>1, Least
    <3>3. i \in 1..n /\ flatten[i] \notin G /\ ss[i] \in G
      BY <3>2
    <3>4. i # 1
      BY <2>4, <3>3
    <3>5. i - 1 \in 1..n /\ ~ (i <= i - 1)
      BY <3>3, <3>4
    <3>6. flatten[i - 1] \in G
      BY <3>2, <3>5
    <3>7. flatten[i] = flatten[i - 1] \o ss[i]
      BY <2>4, <3>3, <3>4
    <3> QED BY <3>3, <3>6, <3>7
  <2> QED BY <2>1, <2>3, <2>5
<1> QED BY <1>1, <1>2

(* A finite set can be listed.                                             *)
LEMMA SetToSeqType ==
  ASSUME NEW S, IsFiniteSet(S)
  PROVE  SetToSeq(S) \in Seq(S)
<1>1. Cardinality(S) \in Nat /\ ExistsBijection(1..Cardinality(S), S)
  BY FS_CardinalityType
<1>2. \E f \in [1..Cardinality(S) -> S] : IsInjective(f)
  BY <1>1 DEF ExistsBijection, Bijection, Injection
<1>3. SetToSeq(S) \in [1..Cardinality(S) -> S]
  BY <1>2 DEF SetToSeq
<1> QED BY <1>1, <1>3

(* The least number of a set is one of it.                                 *)
LEMMA MinType ==
  ASSUME NEW I, I \subseteq Nat, I # {}
  PROVE  Min(I) \in I
<1>1. \E x \in I : \A y \in I : x <= y
  BY Least
<1> QED BY <1>1 DEF Min

-----------------------------------------------------------------------------
(* The steps an operation is made of are steps.                            *)
LEMMA StepTypes ==
  /\ \A c \in AnyCommand, m \in Mission, u \in Unit : Command(c, m, u) \in Step
  /\ \A c \in {"create", "plan", "cancel"}, m \in Mission : MissionCommand(c, m) \in Step
  /\ \A u \in Unit, s \in SessionStatus : Session(u, s) \in Step
  /\ \A c \in Claim, o \in Outcomes : Complete(c, o) \in Step
  /\ \A m \in Mission, c \in RunClaim : Execute(m, c) \in Step
  /\ \A u \in Unit, K \in SUBSET {"start", "resume"} : ClaimRun(u, K) \in Step
  /\ \A u \in Unit, h \in {"single", "team"} : Keep(u, h) \in Step
  /\ \A m \in Mission, u \in Unit :
       Known(m, u) \in Step /\ Begin(m, u) \in Step /\ Ask(m, u) \in Step
  /\ \A m \in Mission :
       /\ Drive(m) \in Step /\ Regroup(m) \in Step /\ Launch(m) \in Step
       /\ Finish(m) \in Step /\ Wave(m) \in Step
  /\ \A c \in RunClaim : Retain(c) \in Step
  /\ \A u \in Unit : RunTool(u) \in Step
  /\ Fail \in Step
<1> USE DEF Step
<1>1. \A c \in AnyCommand, m \in Mission, u \in Unit : Command(c, m, u) \in Step
  BY DEF Command
<1>2. \A c \in {"create", "plan", "cancel"}, m \in Mission : MissionCommand(c, m) \in Step
  BY DEF MissionCommand
<1>3. \A u \in Unit, s \in SessionStatus : Session(u, s) \in Step
  BY DEF Session
<1>4. \A c \in Claim, o \in Outcomes : Complete(c, o) \in Step
  BY DEF Complete
<1>5. \A m \in Mission, c \in RunClaim : Execute(m, c) \in Step
  BY DEF Execute
<1>6. \A u \in Unit, K \in SUBSET {"start", "resume"} : ClaimRun(u, K) \in Step
  BY DEF ClaimRun
<1>7. \A u \in Unit, h \in {"single", "team"} : Keep(u, h) \in Step
  BY DEF Keep
<1>8. \A m \in Mission, u \in Unit :
        Known(m, u) \in Step /\ Begin(m, u) \in Step /\ Ask(m, u) \in Step
  BY DEF Known, Begin, Ask
<1>9. \A m \in Mission :
        /\ Drive(m) \in Step /\ Regroup(m) \in Step /\ Launch(m) \in Step
        /\ Finish(m) \in Step /\ Wave(m) \in Step
  BY DEF Drive, Regroup, Launch, Finish, Wave
<1>10. \A c \in RunClaim : Retain(c) \in Step
  BY DEF Retain
<1>11. \A u \in Unit : RunTool(u) \in Step
  BY DEF RunTool
<1>12. Fail \in Step
  BY DEF Fail
<1> QED
  BY <1>1, <1>2, <1>3, <1>4, <1>5, <1>6, <1>7, <1>8, <1>9, <1>10, <1>11, <1>12

(* What a step says is of its type.                                        *)
LEMMA StepFields ==
  ASSUME NEW x \in Step
  PROVE  /\ x.do = "kernel" =>
              x.command \in AnyCommand /\ x.mission \in Mission /\ x.unit \in Unit
         /\ x.do = "mission" => x.mission \in Mission
         /\ x.do = "session" => x.unit \in Unit /\ x.status \in SessionStatus
         /\ x.do = "complete" => x.claim \in Claim /\ x.outcome \in Outcomes
         /\ x.do = "execute" => x.mission \in Mission /\ x.claim \in RunClaim
         /\ x.do = "claim" => x.unit \in Unit /\ x.kinds \subseteq {"start", "resume"}
         /\ x.do = "keep" => x.unit \in Unit /\ x.how \in {"single", "team"}
         /\ x.do \in {"known", "begin", "ask"} => x.mission \in Mission /\ x.unit \in Unit
         /\ x.do \in {"drive", "regroup", "launch", "finish", "wave"} => x.mission \in Mission
         /\ x.do = "retain" => x.claim \in RunClaim
         /\ x.do = "tool" => x.unit \in Unit
BY DEF Step

(* A claim is of an effect of a unit.                                      *)
LEMMA ClaimFields ==
  ASSUME NEW c \in Claim
  PROVE  /\ c.effect \in Effect /\ c.effect.unit \in Unit /\ c.effect.kind \in Kind
         /\ c.token \in Nat
BY DEF Claim, Effect

-----------------------------------------------------------------------------
WholeScripts == {s \in Seq(Step) : Whole(s)}

(* One whole script after another is a whole script.                       *)
LEMMA WholeConcat ==
  ASSUME NEW s \in WholeScripts, NEW t \in WholeScripts
  PROVE  s \o t \in WholeScripts
<1>1. s \in Seq(Step) /\ t \in Seq(Step) /\ Whole(s) /\ Whole(t)
  BY DEF WholeScripts
<1>2. /\ s \o t \in Seq(Step) /\ Len(s \o t) = Len(s) + Len(t)
      /\ Len(s) \in Nat /\ Len(t) \in Nat
      /\ \A i \in 1..Len(s) : (s \o t)[i] = s[i]
      /\ \A i \in 1..Len(t) : (s \o t)[Len(s) + i] = t[i]
  BY <1>1
<1> DEFINE r == s \o t
<1>3. ASSUME NEW i \in 1..Len(s)
      PROVE  /\ WorkIsDone(r, i) /\ ToolIsKnown(r, i) /\ DoneIsBacked(r, i)
             /\ AskIsJournalled(r, i) /\ AskIsAhead(r, i) /\ IsDriven(r, i)
  <2>1. r[i] = s[i] /\ (i > 1 => r[i - 1] = s[i - 1]) /\ (i > 2 => r[i - 2] = s[i - 2])
    BY <1>2
  <2>2. i < Len(s) => r[i + 1] = s[i + 1]
    BY <1>2
  <2>3. \A j \in 1..(i - 1) : r[j] = s[j]
    BY <1>2
  <2> HIDE DEF r
  <2>4. WorkIsDone(r, i) /\ ToolIsKnown(r, i)
    BY <1>1, <2>1 DEF Whole, WorkIsDone, ToolIsKnown
  <2>5. DoneIsBacked(r, i)
    BY <1>1, <2>1 DEF Whole, DoneIsBacked, Orders
  <2>6. AskIsJournalled(r, i)
    BY <1>1, <2>1, <2>3 DEF Whole, AskIsJournalled
  <2>7. AskIsAhead(r, i)
    BY <1>1, <2>1 DEF Whole, AskIsAhead, Orders
  <2>8. IsDriven(r, i)
    BY <1>1, <1>2, <2>1, <2>2 DEF Whole, IsDriven, r
  <2> QED BY <2>4, <2>5, <2>6, <2>7, <2>8
<1>4. ASSUME NEW k \in 1..Len(t)
      PROVE  LET i == Len(s) + k IN
             /\ WorkIsDone(r, i) /\ ToolIsKnown(r, i) /\ DoneIsBacked(r, i)
             /\ AskIsJournalled(r, i) /\ AskIsAhead(r, i) /\ IsDriven(r, i)
  <2> DEFINE i == Len(s) + k
  <2>1. r[i] = t[k] /\ (k > 1 => r[i - 1] = t[k - 1]) /\ (k > 2 => r[i - 2] = t[k - 2])
    BY <1>2
  <2>2. k < Len(t) => r[i + 1] = t[k + 1]
    BY <1>2
  <2>3. \A j \in 1..(k - 1) : Len(s) + j \in 1..(i - 1) /\ r[Len(s) + j] = t[j]
    BY <1>2
  <2>4. i \in Nat /\ (k > 1 => i > 1) /\ (k > 2 => i > 2) /\ (k < Len(t) => i < Len(r))
    BY <1>2
  <2> HIDE DEF r, i
  <2>5. WorkIsDone(r, i) /\ ToolIsKnown(r, i)
    BY <1>1, <2>1 DEF Whole, WorkIsDone, ToolIsKnown
  <2>6. DoneIsBacked(r, i)
    BY <1>1, <2>1, <2>4 DEF Whole, DoneIsBacked, Orders
  <2>7. AskIsJournalled(r, i)
    BY <1>1, <2>1, <2>3 DEF Whole, AskIsJournalled
  <2>8. AskIsAhead(r, i)
    BY <1>1, <2>1, <2>4 DEF Whole, AskIsAhead, Orders
  <2>9. IsDriven(r, i)
    BY <1>1, <2>1, <2>2, <2>4 DEF Whole, IsDriven
  <2> QED BY <2>5, <2>6, <2>7, <2>8, <2>9 DEF i
<1>5. Whole(r)
  <2> SUFFICES ASSUME NEW i \in 1..Len(r)
               PROVE  /\ WorkIsDone(r, i) /\ ToolIsKnown(r, i) /\ DoneIsBacked(r, i)
                      /\ AskIsJournalled(r, i) /\ AskIsAhead(r, i) /\ IsDriven(r, i)
    BY DEF Whole
  <2> HIDE DEF r
  <2>1. CASE i <= Len(s)
    BY <1>2, <1>3, <2>1
  <2>2. CASE i > Len(s)
    <3>1. i - Len(s) \in 1..Len(t) /\ i = Len(s) + (i - Len(s))
      BY <1>2, <2>2 DEF r
    <3> QED BY <1>4, <3>1
  <2> QED BY <1>2, <2>1, <2>2
<1> QED BY <1>2, <1>5 DEF WholeScripts

(* Steps that need no backing.                                             *)
Plain(x) ==
  /\ x.do \notin {"tool", "execute"}
  /\ x.do = "kernel" => x.command # "submit"
  /\ x.do = "complete" => x.outcome \in {"failed", "dropped"}

-----------------------------------------------------------------------------
BegunScripts == {s \in Seq(Step) : Begun(s)}

(* What has been done stays done: the state may only move on.              *)
MovesOn ==
  \A u \in Unit :
    /\ Moved(u) => Moved(u)'
    /\ node[u] = "accepted" => node'[u] = "accepted"
    /\ tool[u] # "none" => tool'[u] # "none"
    /\ workedFor[u] \subseteq workedFor'[u]

(* What the first step of the script leaves behind when it is taken.       *)
HeadIsDone ==
  LET x == Head(script) IN
  /\ x.do = "kernel" /\ x.command = "submit" =>
       node'[x.unit] \in {"submitted", "accepted", "failed", "cancelled"}
  /\ x.do = "kernel" /\ x.command = "accept" => node'[x.unit] = "accepted"
  /\ x.do = "kernel" /\ x.command = "ask" => node'[x.unit] = "waiting"
  /\ x.do = "ask" => tool'[x.unit] # "none"
  /\ x.do = "session" => node' = node

(* The rest of a script that was begun, after its first step.              *)
LEMMA TailIsBegun ==
  ASSUME script \in Seq(Step), Begun(script), script # <<>>, MovesOn, HeadIsDone,
         NEW t, t = Tail(script)
  PROVE  t \in BegunScripts'
<1>1. /\ t \in Seq(Step) /\ Len(script) \in Nat /\ Len(t) = Len(script) - 1
      /\ \A i \in 1..Len(t) : t[i] = script[i + 1]
      /\ Head(script) = script[1] /\ Len(script) >= 1
  OBVIOUS
<1>2. \A i \in 1..Len(script) : script[i] \in Step
  OBVIOUS
<1>3. ASSUME NEW k \in 1..Len(t)
      PROVE  /\ WorkIsDone(t, k)' /\ ToolIsKnown(t, k)' /\ DoneIsBacked(t, k)'
             /\ AskIsJournalled(t, k)' /\ AskIsBacked(t, k)' /\ IsDriven(t, k)'
  <2> DEFINE i == k + 1
             x == t[k]
  <2>1. i \in 1..Len(script) /\ x = script[i] /\ x \in Step /\ i - 1 = k /\ k \in Nat
    BY <1>1, <1>2
  <2>2. /\ WorkIsDone(script, i) /\ ToolIsKnown(script, i) /\ DoneIsBacked(script, i)
        /\ AskIsJournalled(script, i) /\ AskIsBacked(script, i) /\ IsDriven(script, i)
    BY <2>1 DEF Begun
  <2>3. k > 1 => t[k - 1] = script[i - 1] /\ k - 1 \in 1..Len(t)
    BY <1>1, <2>1
  <2>4. k > 2 => t[k - 2] = script[i - 2] /\ k - 2 \in 1..Len(t)
    BY <1>1, <2>1
  <2>5. \A j \in 1..(i - 1) : j = 1 \/ (j - 1 \in 1..(k - 1) /\ script[j] = t[j - 1])
    BY <1>1, <2>1
  <2>6. k < Len(t) <=> i < Len(script)
    BY <1>1, <2>1
  <2>7. k < Len(t) => t[k + 1] = script[i + 1]
    BY <1>1, <2>1
  <2>8. i > 1 /\ (k = 1 => script[i - 1] = Head(script)) /\ (k = 2 => script[i - 2] = Head(script))
    BY <1>1, <2>1
  <2> HIDE DEF i, x
  <2>9. WorkIsDone(t, k)'
    BY <2>1, <2>2, StepFields DEF WorkIsDone, MovesOn, x
  <2>10. ToolIsKnown(t, k)'
    BY <2>1, <2>2, StepFields DEF ToolIsKnown, MovesOn, x
  <2>11. DoneIsBacked(t, k)'
    <3> SUFFICES ASSUME x.do = "complete", x.outcome = "done" PROVE DoneIsBacked(t, k)'
      BY DEF DoneIsBacked, x
    <3> DEFINE u == x.claim.effect.unit
    <3>1. u \in Unit
      BY <2>1, StepFields, ClaimFields
    <3>2. CASE k = 1
      <4>1. script[i - 1] = Head(script) /\ i > 1
        BY <2>8, <3>2
      <4>2. /\ x.claim.effect.kind \in {"start", "resume"} =>
                 Moved(u) \/ Orders(script, i - 1, "submit", u)
            /\ x.claim.effect.kind = "verify" =>
                 node[u] = "accepted" \/ Orders(script, i - 1, "accept", u)
        BY <2>1, <2>2 DEF DoneIsBacked
      <4>3. Orders(script, i - 1, "submit", u) => Moved(u)'
        BY <4>1 DEF Orders, HeadIsDone, Moved
      <4>4. Orders(script, i - 1, "accept", u) => node'[u] = "accepted"
        BY <4>1 DEF Orders, HeadIsDone
      <4>5. (Moved(u) => Moved(u)') /\ (node[u] = "accepted" => node'[u] = "accepted")
        BY <3>1 DEF MovesOn
      <4>6. /\ x.claim.effect.kind \in {"start", "resume"} => Moved(u)'
            /\ x.claim.effect.kind = "verify" => node'[u] = "accepted"
        BY <4>2, <4>3, <4>4, <4>5
      <4> QED BY <4>6 DEF DoneIsBacked, x
    <3>3. CASE k # 1
      BY <2>1, <2>2, <2>3, <3>1, <3>3 DEF DoneIsBacked, Orders, MovesOn, x
    <3> QED BY <3>2, <3>3
  <2>12. AskIsJournalled(t, k)'
    <3> SUFFICES ASSUME x.do = "complete", x.outcome = "asked" PROVE AskIsJournalled(t, k)'
      BY DEF AskIsJournalled, x
    <3> DEFINE u == x.claim.effect.unit
    <3>1. u \in Unit
      BY <2>1, StepFields, ClaimFields
    <3>2. CASE tool[u] # "none"
      BY <3>1, <3>2 DEF AskIsJournalled, MovesOn, x
    <3>3. CASE tool[u] = "none"
      <4>1. PICK j \in 1..(i - 1) : script[j].do = "ask" /\ script[j].unit = u
        BY <2>1, <2>2, <3>3 DEF AskIsJournalled, x
      <4>2. CASE j = 1
        BY <1>1, <4>1, <4>2 DEF AskIsJournalled, HeadIsDone, x
      <4>3. CASE j # 1
        BY <2>5, <4>1, <4>3 DEF AskIsJournalled, x
      <4> QED BY <4>2, <4>3
    <3> QED BY <3>2, <3>3
  <2>13. AskIsBacked(t, k)'
    <3> SUFFICES ASSUME x.do = "complete", x.outcome = "asked" PROVE AskIsBacked(t, k)'
      BY DEF AskIsBacked, x
    <3> DEFINE u == x.claim.effect.unit
    <3>1. u \in Unit
      BY <2>1, StepFields, ClaimFields
    <3>2. CASE i <= 2
      <4>1. \A j \in 1..(i - 1) : script[j].do = "session"
        BY <2>1, <2>2, <3>2 DEF AskIsBacked, x
      <4>2. node[u] = "waiting"
        BY <2>1, <2>2, <3>2 DEF AskIsBacked, x
      <4>3. k = 1 /\ Head(script).do = "session"
        BY <1>1, <2>1, <2>8, <3>2, <4>1
      <4> QED BY <4>2, <4>3 DEF AskIsBacked, HeadIsDone, x
    <3>3. CASE i > 2
      <4>1. script[i - 1].do = "session" /\ Orders(script, i - 2, "ask", u)
        BY <2>1, <2>2, <3>3 DEF AskIsBacked, x
      <4>2. CASE k = 2
        <5>1. node'[u] = "waiting"
          BY <2>8, <4>1, <4>2 DEF HeadIsDone, Orders
        <5>2. t[1].do = "session"
          BY <2>3, <4>1, <4>2
        <5> QED BY <4>2, <5>1, <5>2 DEF AskIsBacked, x
      <4>3. CASE k # 2
        <5>1. k > 2
          BY <2>1, <3>3, <4>3
        <5> QED BY <2>3, <2>4, <4>1, <5>1 DEF AskIsBacked, Orders, x
      <4> QED BY <4>2, <4>3
    <3> QED BY <2>1, <3>2, <3>3
  <2>14. IsDriven(t, k)'
    BY <2>1, <2>2, <2>6, <2>7 DEF IsDriven, x
  <2> QED BY <2>9, <2>10, <2>11, <2>12, <2>13, <2>14
<1> QED BY <1>1, <1>3 DEF BegunScripts, Begun

(* A step that gives nothing of its own to what follows leaves it whole.   *)
LEMMA TailIsWhole ==
  ASSUME script \in Seq(Step), Begun(script), script # <<>>, MovesOn,
         Head(script).do \notin {"kernel", "session", "ask"},
         NEW t, t = Tail(script)
  PROVE  t \in WholeScripts'
<1>1. /\ t \in Seq(Step) /\ Len(script) \in Nat /\ Len(t) = Len(script) - 1
      /\ \A i \in 1..Len(t) : t[i] = script[i + 1]
      /\ Head(script) = script[1] /\ Len(script) >= 1
  OBVIOUS
<1>2. HeadIsDone
  BY DEF HeadIsDone
<1>3. t \in BegunScripts'
  BY <1>2, TailIsBegun
<1>4. ASSUME NEW k \in 1..Len(t) PROVE AskIsAhead(t, k)'
  <2> SUFFICES ASSUME t[k].do = "complete", t[k].outcome = "asked"
               PROVE  AskIsAhead(t, k)'
    BY DEF AskIsAhead
  <2> DEFINE u == t[k].claim.effect.unit
  <2>1. k + 1 \in 1..Len(script) /\ t[k] = script[k + 1] /\ k \in Nat
    BY <1>1
  <2>2. AskIsBacked(script, k + 1)
    BY <2>1 DEF Begun
  <2>3. ~(k + 1 <= 2)
    <3> SUFFICES ASSUME k + 1 <= 2 PROVE FALSE
      OBVIOUS
    <3>1. \A j \in 1..k : script[j].do = "session"
      BY <2>1, <2>2 DEF AskIsBacked
    <3> QED BY <1>1, <2>1, <3>1
  <2>4. k + 1 > 2 /\ script[k].do = "session" /\ Orders(script, k - 1, "ask", u)
    BY <2>1, <2>2, <2>3 DEF AskIsBacked
  <2>5. k # 2
    BY <1>1, <2>4 DEF Orders
  <2>6. k > 2 /\ t[k - 1] = script[k] /\ t[k - 2] = script[k - 1]
    BY <1>1, <2>1, <2>4, <2>5
  <2> QED BY <2>4, <2>6 DEF AskIsAhead, Orders
<1> QED BY <1>1, <1>3, <1>4 DEF WholeScripts, Whole, BegunScripts, Begun

(* A whole script can be begun.                                            *)
LEMMA WholeCanBegin == WholeScripts \subseteq BegunScripts
BY DEF WholeScripts, BegunScripts, Whole, Begun, AskIsAhead, AskIsBacked

(* The same of the state to come.                                          *)
LEMMA WholeNext ==
  /\ \A a, b \in WholeScripts' : a \o b \in WholeScripts'
  /\ WholeScripts' \subseteq BegunScripts'
<1>1. \A a, b \in WholeScripts : a \o b \in WholeScripts
  BY WholeConcat
<1>2. (\A a, b \in WholeScripts : a \o b \in WholeScripts)'
  BY <1>1, PTL
<1>3. (WholeScripts \subseteq BegunScripts)'
  BY WholeCanBegin, PTL
<1> QED BY <1>2, <1>3

(* What a step puts in front of the rest is begun next.                    *)
LEMMA ExpandBegins ==
  ASSUME script \in Seq(Step), Begun(script), script # <<>>, MovesOn,
         Head(script).do \notin {"kernel", "session", "ask"},
         NEW s \in WholeScripts', script' = s \o Tail(script)
  PROVE  script' \in BegunScripts'
<1>1. Tail(script) \in WholeScripts'
  BY TailIsWhole
<1> QED BY <1>1, WholeNext

(* A whole script stays whole without a first step that gives nothing of   *)
(* its own to what follows.                                                *)
LEMMA TailOfWhole ==
  ASSUME NEW s \in WholeScripts, s # <<>>, s[1].do \notin {"kernel", "session", "ask"}
  PROVE  Tail(s) \in WholeScripts
<1> DEFINE t == Tail(s)
<1>1. s \in Seq(Step) /\ Whole(s)
  BY DEF WholeScripts
<1>2. /\ t \in Seq(Step) /\ Len(s) \in Nat /\ Len(t) = Len(s) - 1
      /\ \A i \in 1..Len(t) : t[i] = s[i + 1]
  BY <1>1
<1> HIDE DEF t
<1>3. ASSUME NEW k \in 1..Len(t)
      PROVE  /\ WorkIsDone(t, k) /\ ToolIsKnown(t, k) /\ DoneIsBacked(t, k)
             /\ AskIsJournalled(t, k) /\ AskIsAhead(t, k) /\ IsDriven(t, k)
  <2> DEFINE i == k + 1
  <2>1. i \in 1..Len(s) /\ t[k] = s[i] /\ i - 1 = k /\ k \in Nat
    BY <1>2
  <2>2. /\ WorkIsDone(s, i) /\ ToolIsKnown(s, i) /\ DoneIsBacked(s, i)
        /\ AskIsJournalled(s, i) /\ AskIsAhead(s, i) /\ IsDriven(s, i)
    BY <1>1, <2>1 DEF Whole
  <2>3. (k > 1 => t[k - 1] = s[i - 1]) /\ (k > 2 => t[k - 2] = s[i - 2])
    <3>1. k > 1 => k - 1 \in 1..Len(t) /\ (k - 1) + 1 = i - 1
      BY <1>2, <2>1
    <3>2. k > 2 => k - 2 \in 1..Len(t) /\ (k - 2) + 1 = i - 2
      BY <1>2, <2>1
    <3> HIDE DEF i
    <3> QED BY <1>2, <3>1, <3>2
  <2>4. (k = 1 => s[i - 1] = s[1]) /\ (k = 2 => s[i - 2] = s[1])
    BY <2>1
  <2>5. \A j \in 1..(i - 1) : j = 1 \/ (j - 1 \in 1..(k - 1) /\ s[j] = t[j - 1])
    BY <1>2, <2>1
  <2>6. (k < Len(t) <=> i < Len(s)) /\ (k < Len(t) => t[k + 1] = s[i + 1])
    BY <1>2, <2>1
  <2> HIDE DEF i
  <2>7. WorkIsDone(t, k) /\ ToolIsKnown(t, k)
    BY <2>1, <2>2 DEF WorkIsDone, ToolIsKnown
  <2>8. DoneIsBacked(t, k)
    <3>1. CASE k = 1
      BY <2>1, <2>2, <2>4, <3>1 DEF DoneIsBacked, Orders
    <3>2. CASE k # 1
      BY <2>1, <2>2, <2>3, <3>2 DEF DoneIsBacked, Orders
    <3> QED BY <3>1, <3>2
  <2>9. AskIsJournalled(t, k)
    BY <2>1, <2>2, <2>5 DEF AskIsJournalled
  <2>10. AskIsAhead(t, k)
    <3>1. CASE k = 1
      BY <2>1, <2>2, <3>1 DEF AskIsAhead
    <3>2. CASE k = 2
      BY <2>1, <2>2, <2>4, <3>2 DEF AskIsAhead, Orders
    <3>3. CASE k > 2
      BY <2>1, <2>2, <2>3, <3>3 DEF AskIsAhead, Orders
    <3> QED BY <2>1, <3>1, <3>2, <3>3
  <2>11. IsDriven(t, k)
    BY <2>1, <2>2, <2>6 DEF IsDriven
  <2> QED BY <2>7, <2>8, <2>9, <2>10, <2>11
<1> QED BY <1>2, <1>3 DEF WholeScripts, Whole, t

LEMMA TailsOfWhole ==
  (\A s \in WholeScripts :
     s # <<>> /\ s[1].do \notin {"kernel", "session", "ask"} => Tail(s) \in WholeScripts)'
<1>1. \A s \in WholeScripts :
        s # <<>> /\ s[1].do \notin {"kernel", "session", "ask"} => Tail(s) \in WholeScripts
  BY TailOfWhole
<1> QED BY <1>1, PTL

(* What is done for each element of a set, one after the other.            *)
LEMMA ForEachClosed ==
  ASSUME NEW G, <<>> \in G, \A s, t \in G : s \o t \in G,
         NEW S, IsFiniteSet(S), NEW h \in [S -> G]
  PROVE  FlattenSeq([i \in DOMAIN SetToSeq(S) |-> h[SetToSeq(S)[i]]]) \in G
<1> DEFINE q == SetToSeq(S)
<1>1. q \in Seq(S)
  BY SetToSeqType
<1> HIDE DEF q
<1>2. [i \in DOMAIN q |-> h[q[i]]] \in Seq(G)
  BY <1>1
<1>3. FlattenSeq([i \in DOMAIN q |-> h[q[i]]]) \in G
  BY <1>2, FlattenClosed
<1> QED BY <1>3 DEF q

-----------------------------------------------------------------------------
(* The ways an operation goes on.                                          *)

LEMMA NowIsStep ==
  ASSUME IInv, script # <<>>
  PROVE  Now \in Step /\ Now = script[1] /\ Tail(script) \in Seq(Step)
BY DEF IInv, Typed, Now

LEMMA Stays ==
  ASSUME IInv, UNCHANGED <<script, node, tool, workedFor>>
  PROVE  script' \in Seq(Step) /\ Begun(script)'
BY DEF IInv, Typed, Begun, WorkIsDone, ToolIsKnown, DoneIsBacked, AskIsJournalled, AskIsBacked,
       IsDriven, Orders, Moved

LEMMA Ends ==
  ASSUME script' = <<>>
  PROVE  script' \in Seq(Step) /\ Begun(script)'
BY DEF Begun

LEMMA GoesOn ==
  ASSUME IInv, script # <<>>, MovesOn, HeadIsDone, script' = Tail(script)
  PROVE  script' \in Seq(Step) /\ Begun(script)'
<1>1. script \in Seq(Step) /\ Begun(script)
  BY DEF IInv, Typed
<1>2. script' \in BegunScripts'
  BY <1>1, TailIsBegun
<1> QED BY <1>2 DEF BegunScripts

LEMMA Expands ==
  ASSUME IInv, script # <<>>, MovesOn, Head(script).do \notin {"kernel", "session", "ask"},
         NEW s \in WholeScripts', script' = s \o Tail(script)
  PROVE  script' \in Seq(Step) /\ Begun(script)'
<1>1. script \in Seq(Step) /\ Begun(script)
  BY DEF IInv, Typed
<1>2. script' \in BegunScripts'
  BY <1>1, ExpandBegins
<1> QED BY <1>2 DEF BegunScripts

LEMMA Begins ==
  ASSUME script' \in WholeScripts'
  PROVE  script' \in Seq(Step) /\ Begun(script)'
<1>1. script' \in BegunScripts'
  BY WholeNext
<1> QED BY <1>1 DEF BegunScripts

LEMMA PlainNext ==
  ASSUME NEW s \in Seq(Step), \A i \in 1..Len(s) : Plain(s[i])
  PROVE  s \in WholeScripts'
BY DEF WholeScripts, Whole, Plain, WorkIsDone, ToolIsKnown, DoneIsBacked, AskIsJournalled,
       AskIsAhead, IsDriven

(* Nothing the books are about has changed, but what is done.              *)
LEMMA BooksStay ==
  ASSUME Books, MovesOn, UNCHANGED <<node, row, mission>>
  PROVE  Books'
BY DEF Books, MovesOn, Moved

LEMMA StillMovesOn ==
  ASSUME UNCHANGED <<node, tool, workedFor>>
  PROVE  MovesOn
BY DEF MovesOn, Moved

(* A step of the script that the books and the rest of it know nothing of. *)
LEMMA Quietly ==
  ASSUME IInv, UNCHANGED <<kernel, row, tool, envelope, workedFor>>, TypeOK', TeamFits', script' \in Seq(Step), Begun(script)'
  PROVE  IInv'
<1>1. MovesOn
  BY StillMovesOn DEF kernel
<1>2. Books'
  BY <1>1, BooksStay DEF IInv, kernel
<1> QED BY <1>2 DEF IInv, Typed

LEMMA QuietTail ==
  ASSUME IInv, script # <<>>, script' = Tail(script),
         UNCHANGED <<kernel, row, tool, envelope, workedFor>>, TypeOK', TeamFits', Now.do \notin {"kernel", "ask"}
  PROVE  IInv'
<1>1. MovesOn /\ HeadIsDone
  BY StillMovesOn DEF kernel, HeadIsDone, Now
<1>2. script' \in Seq(Step) /\ Begun(script)'
  BY <1>1, GoesOn
<1> QED BY <1>2, Quietly

LEMMA QuietEnd ==
  ASSUME IInv, script' = <<>>, UNCHANGED <<kernel, row, tool, envelope, workedFor>>, TypeOK', TeamFits'
  PROVE  IInv'
BY Ends, Quietly

LEMMA BoundTypes ==
  MaxCommand \in Nat /\ MaxCrash \in Nat /\ MaxLapse \in Nat /\ MaxRound \in Nat
BY TaskDriveAssumption

-----------------------------------------------------------------------------
(* One lemma for each action: it preserves the invariant.                  *)

LEMMA FindNodeKeeps ==
  ASSUME IInv, FindNode PROVE IInv'
<1>1. TypeOK' /\ TeamFits'
  BY FS_EmptySet DEF IInv, Typed, TeamFits, TypeOK, FindNode, Proceed, Refuse, kernel, leases, journals, team,
         history, counters, faults
<1> QED BY <1>1, QuietTail, QuietEnd
        DEF FindNode, Doing, Now, Proceed, Refuse, kernel, leases, journals, team, history

LEMMA BeginAgentRunKeeps ==
  ASSUME IInv, BeginAgentRun PROVE IInv'
<1>1. Now.unit \in Unit
  BY NowIsStep, StepFields DEF BeginAgentRun, Doing, Now
<1>2. TypeOK' /\ TeamFits'
  BY <1>1, FS_EmptySet DEF IInv, Typed, TeamFits, TypeOK, BeginAgentRun, Proceed, Refuse, kernel, leases, team,
         history, counters, faults, Recoverable
<1> QED BY <1>2, QuietTail, QuietEnd
        DEF BeginAgentRun, Doing, Now, Proceed, Refuse, kernel, leases, team, history

LEMMA SetSessionKeeps ==
  ASSUME IInv, SetSession PROVE IInv'
<1>1. Now.unit \in Unit /\ Now.status \in SessionStatus
  BY NowIsStep, StepFields DEF SetSession, Doing, Now
<1>2. TypeOK' /\ TeamFits'
  BY <1>1 DEF IInv, Typed, TeamFits, TypeOK, SetSession, Proceed, kernel, leases, team,
         history, counters, faults, SessionStatus
<1> QED BY <1>2, QuietTail DEF SetSession, Doing, Now, Proceed, kernel, leases, team, history

LEMMA LaunchTeamKeeps ==
  ASSUME IInv, LaunchTeam PROVE IInv'
<1>1. Now.mission \in Mission
  BY NowIsStep, StepFields DEF LaunchTeam, Doing, Now
<1>2. TypeOK' /\ TeamFits'
  BY <1>1, FS_EmptySet DEF IInv, Typed, TeamFits, TypeOK, LaunchTeam, kernel, leases, journals, history,
         counters, faults
<1> QED BY <1>2, QuietTail DEF LaunchTeam, Doing, Now, kernel, leases, journals, history

LEMMA RetainClaimKeeps ==
  ASSUME IInv, RetainClaim PROVE IInv'
<1>1. Now.claim \in RunClaim /\ Now.claim \in Claim
  BY NowIsStep, StepFields DEF RunClaim, RetainClaim, Doing, Now
<1>2. TypeOK' /\ TeamFits'
  BY <1>1, FS_AddElement DEF IInv, Typed, TeamFits, TypeOK, RetainClaim, kernel, leases, journals, team,
         history, counters, faults
<1> QED BY <1>2, QuietTail DEF RetainClaim, Doing, Now, kernel, leases, journals, team, history

LEMMA GiveUpKeeps ==
  ASSUME IInv, GiveUp PROVE IInv'
<1>1. TypeOK' /\ TeamFits'
  BY FS_EmptySet DEF IInv, Typed, TeamFits, TypeOK, GiveUp, Refuse, kernel, leases, journals, team, history,
         counters, faults
<1> QED BY <1>1, QuietEnd DEF GiveUp, Refuse, kernel, leases, journals, team, history

LEMMA KeepContinuationKeeps ==
  ASSUME IInv, KeepContinuation PROVE IInv'
<1>1. Now.unit \in Unit /\ Now.how \in {"single", "team"}
  BY NowIsStep, StepFields DEF KeepContinuation, Doing, Now
<1>2. TypeOK' /\ TeamFits'
  BY <1>1 DEF IInv, Typed, TeamFits, TypeOK, KeepContinuation, Proceed, kernel, leases, journals, team,
         history, counters, faults
<1> QED BY <1>2, QuietTail
        DEF KeepContinuation, Doing, Now, Proceed, kernel, leases, journals, team, history

LEMMA LapseKeeps ==
  ASSUME IInv, NEW e \in Effect, LapseOrphan(e) \/ LapseEarly(e) PROVE IInv'
<1>0. lapses' \in 0..MaxLapse /\ commands' \in 0..MaxCommand /\ crashes' \in 0..MaxCrash
        /\ rounds' \in 0..MaxRound
  BY BoundTypes DEF IInv, Typed, TeamFits, TypeOK, LapseOrphan, LapseEarly, counters, faults
<1>1. TypeOK' /\ TeamFits'
  BY <1>0 DEF IInv, Typed, TeamFits, TypeOK, LapseOrphan, LapseEarly, kernel, journals, team, history
<1>2. UNCHANGED <<script, node, tool, workedFor>>
  BY DEF LapseOrphan, LapseEarly, kernel, journals, history
<1> QED BY <1>1, <1>2, Stays, Quietly DEF LapseOrphan, LapseEarly, kernel, journals, history

LEMMA CrashKeeps ==
  ASSUME IInv, Crash PROVE IInv'
<1>1. active' \in Mission \cup {NoMission}
  BY TaskDriveAssumption DEF Crash
<1>2. crashes' \in 0..MaxCrash
  BY BoundTypes DEF IInv, Typed, TeamFits, TypeOK, Crash
<1>3. TypeOK' /\ TeamFits'
  BY <1>1, <1>2, FS_EmptySet DEF IInv, Typed, TeamFits, TypeOK, Crash, kernel, leases, journals
<1> QED BY <1>3, QuietEnd DEF Crash, kernel, leases, journals

LEMMA StutterKeeps ==
  ASSUME IInv, UNCHANGED vars PROVE IInv'
<1>1. TypeOK' /\ TeamFits'
  BY DEF IInv, Typed, TeamFits, TypeOK, vars, kernel, leases, journals, team, history, counters, faults
<1>2. UNCHANGED <<script, node, tool, workedFor>>
  BY DEF vars, kernel, journals, history
<1> QED BY <1>1, <1>2, Stays, Quietly DEF vars, kernel, leases, journals, history

LEMMA CompleteEffectKeeps ==
  ASSUME IInv, CompleteEffect PROVE IInv'
<1> DEFINE e == Now.claim.effect
<1>1. script # <<>> /\ Now.do = "complete" /\ Now \in Step /\ Now = script[1]
  BY NowIsStep DEF CompleteEffect, Doing, Now
<1>2. Now.claim \in Claim /\ Now.outcome \in Outcomes /\ e \in Effect /\ e.unit \in Unit
      /\ e.kind \in Kind /\ e = Eff(e.kind, e.unit)
  BY <1>1, StepFields, ClaimFields DEF Effect, Eff
<1>3. MovesOn
  BY StillMovesOn DEF CompleteEffect, kernel, journals, history
<1>4. HeadIsDone
  BY <1>1 DEF HeadIsDone, Now
<1>5. script' \in Seq(Step) /\ Begun(script)'
  BY <1>1, <1>3, <1>4, GoesOn, Ends DEF CompleteEffect, Proceed, Refuse
<1>6. row' = row \/ row' = [row EXCEPT ![e] = Now.outcome]
  BY DEF CompleteEffect
<1>7. row' \in [Effect -> {"absent", "pending", "claimed", "done", "asked", "failed", "dropped"}]
  BY <1>2, <1>6 DEF IInv, Typed, TeamFits, TypeOK, Outcomes
<1>8. Typed'
  BY <1>5, <1>7, FS_EmptySet DEF IInv, Typed, TeamFits, TypeOK, CompleteEffect, Proceed, Refuse, kernel, journals,
     team, history, counters, faults
<1>9. Books'
  <2>1. UNCHANGED <<node, mission, tool, workedFor>>
    BY DEF CompleteEffect, kernel, journals, history
  <2>2. CASE row' = row
    BY <1>3, <2>1, <2>2, BooksStay DEF IInv
  <2>3. CASE row' = [row EXCEPT ![e] = Now.outcome]
    <3>1. 1 \in 1..Len(script)
      BY <1>1 DEF IInv, Typed
    <3>2. DoneIsBacked(script, 1) /\ AskIsJournalled(script, 1) /\ AskIsBacked(script, 1)
      BY <3>1 DEF IInv, Begun
    <3>3. Now.outcome = "done" =>
            /\ e.kind \in {"start", "resume"} => Moved(e.unit)
            /\ e.kind = "verify" => node[e.unit] = "accepted"
      BY <1>1, <3>2 DEF DoneIsBacked
    <3>4. Now.outcome = "asked" => tool[e.unit] # "none" /\ node[e.unit] = "waiting"
      BY <1>1, <3>2 DEF AskIsJournalled, AskIsBacked
    <3> HIDE DEF e
    <3>5. ASSUME NEW k \in Kind, NEW u \in Unit
          PROVE  /\ Eff(k, u) \in Effect
                 /\ row'[Eff(k, u)] = IF k = e.kind /\ u = e.unit THEN Now.outcome
                                      ELSE row[Eff(k, u)]
      <4>1. Eff(k, u) \in Effect
        BY DEF Eff, Effect
      <4>2. Eff(k, u) = e <=> k = e.kind /\ u = e.unit
        BY <1>2 DEF Eff
      <4> QED BY <2>3, <4>1, <4>2 DEF IInv, Typed, TeamFits, TypeOK
    <3>6. ASSUME NEW u \in Unit
          PROVE  /\ row'[Eff("start", u)] = "done" \/ row'[Eff("resume", u)] = "done" => Moved(u)
                 /\ row'[Eff("verify", u)] = "done" => node[u] = "accepted"
                 /\ \A k \in Kind : row'[Eff(k, u)] = "asked" => tool[u] # "none"
      BY <3>3, <3>4, <3>5 DEF IInv, Books, Kind
    <3>7. ASSUME NEW u \in Unit, node[u] = "running"
          PROVE  \E k \in {"start", "resume"} :
                   row'[Eff(k, u)] \in {"pending", "claimed", "failed", "dropped"}
      BY <1>2, <3>3, <3>4, <3>5, <3>7 DEF IInv, Books, Kind, Moved, Outcomes
    <3> QED BY <2>1, <3>6, <3>7 DEF IInv, Books, Moved
  <2> QED BY <1>6, <2>2, <2>3
<1> QED BY <1>5, <1>8, <1>9 DEF IInv

LEMMA FinishMissionKeeps ==
  ASSUME IInv, FinishMission PROVE IInv'
<1>1. script # <<>> /\ Now.do = "finish" /\ Now.mission \in Mission /\ script' = Tail(script)
  BY NowIsStep, StepFields DEF FinishMission, Doing, Now, Proceed
<1>2. MovesOn /\ HeadIsDone
  BY <1>1, StillMovesOn DEF FinishMission, HeadIsDone, Now, journals, history
<1>3. script' \in Seq(Step) /\ Begun(script)'
  BY <1>1, <1>2, GoesOn
<1>4. Typed'
  BY <1>1, <1>3 DEF IInv, Typed, TeamFits, TypeOK, FinishMission, Proceed, leases, journals, team, history,
     counters, faults
<1>5. Books'
  BY <1>1, TaskDriveAssumption
     DEF IInv, Typed, TeamFits, TypeOK, Books, FinishMission, UnitsOf, Moved, leases, journals, history
<1> QED BY <1>3, <1>4, <1>5 DEF IInv

(* Claiming an effect takes it from pending or claimed to claimed.         *)
LEMMA TakeKeeps ==
  ASSUME IInv, NEW e \in Effect, Claimable(e), Take(e),
         UNCHANGED <<node, mission, tool, workedFor>>
  PROVE  /\ row' \in [Effect -> {"absent", "pending", "claimed", "done", "asked", "failed",
                                 "dropped"}]
         /\ token' \in [Effect -> Nat] /\ lapsed' \in [Effect -> BOOLEAN]
         /\ Books'
<1>1. /\ row' \in [Effect -> {"absent", "pending", "claimed", "done", "asked", "failed", "dropped"}]
      /\ token' \in [Effect -> Nat] /\ lapsed' \in [Effect -> BOOLEAN]
  BY DEF IInv, Typed, TeamFits, TypeOK, Take
<1>2. ASSUME NEW f \in Effect
      PROVE  row'[f] = row[f] \/ (row'[f] = "claimed" /\ row[f] \in {"pending", "claimed"})
  BY DEF IInv, Typed, TeamFits, TypeOK, Take, Claimable
<1>3. \A k \in Kind, u \in Unit : Eff(k, u) \in Effect
  BY DEF Eff, Effect
<1>4. ASSUME NEW u \in Unit
      PROVE  /\ row'[Eff("start", u)] = "done" \/ row'[Eff("resume", u)] = "done" => Moved(u)
             /\ row'[Eff("verify", u)] = "done" => node[u] = "accepted"
             /\ \A k \in Kind : row'[Eff(k, u)] = "asked" => tool[u] # "none"
             /\ node[u] = "running" =>
                  \E k \in {"start", "resume"} :
                    row'[Eff(k, u)] \in {"pending", "claimed", "failed", "dropped"}
  BY <1>2, <1>3 DEF IInv, Books, Kind
<1>5. Books'
  BY <1>4 DEF IInv, Books, Moved
<1> QED BY <1>1, <1>5

LEMMA ClaimForTeamKeeps ==
  ASSUME IInv, ClaimForTeam PROVE IInv'
<1> DEFINE Test(e) == e.unit = Now.unit /\ e.kind \in Now.kinds /\ Claimable(e)
           I == {j \in 1..Len(outbox) : Test(outbox[j])}
           i == SelectInSeq(outbox, LAMBDA e :
                  /\ e.unit = Now.unit
                  /\ e.kind \in Now.kinds
                  /\ Claimable(e))
<1>1. script # <<>> /\ Now.do = "claim" /\ Now.kinds \subseteq {"start", "resume"}
  BY NowIsStep, StepFields DEF ClaimForTeam, Doing, Now
<1>2. UNCHANGED <<node, mission, outbox, tool, workedFor, session, envelope, keeps, teamOf, claims,
                  dropped, dropAll, promised, active, commands, crashes, lapses, rounds>>
  BY DEF ClaimForTeam, kernel, journals, history, team, counters, faults
<1>3. MovesOn /\ HeadIsDone
  BY <1>1, <1>2, StillMovesOn DEF HeadIsDone, Now
<1>4. CASE i = 0
  <2>1. script' = <<>> /\ hand' = {} /\ UNCHANGED leases
    BY <1>4 DEF ClaimForTeam, Refuse
  <2>2. TypeOK'
    BY <1>2, <2>1 DEF IInv, Typed, TeamFits, TypeOK, leases
  <2> QED BY <1>2, <2>1, <2>2, FS_EmptySet, QuietEnd DEF leases, kernel, IInv, Typed, TeamFits
<1>5. CASE i # 0
  <2>1. I # {} /\ i \in I
    <3>1. i = IF I # {} THEN Min(I) ELSE 0
      BY DEF SelectInSeq
    <3>2. I \subseteq Nat
      OBVIOUS
    <3> HIDE DEF I, i
    <3> QED BY <1>5, <3>1, <3>2, MinType
  <2>2. PICK e : e = outbox[i]
    OBVIOUS
  <2>3. e \in Effect /\ Claimable(e) /\ e.kind \in {"start", "resume"}
    BY <1>1, <2>1, <2>2 DEF IInv, Typed, TeamFits, TypeOK
  <2>4. Take(e) /\ hand' = hand \cup {Taken(e)} /\ script' = Tail(script)
    BY <1>5, <2>2 DEF ClaimForTeam, Take, Taken
  <2> HIDE DEF i, I
  <2>5. Taken(e) \in Claim /\ Taken(e) \in RunClaim
    BY <2>3 DEF IInv, Typed, TeamFits, TypeOK, Taken, Claim, RunClaim
  <2>6. script' \in Seq(Step) /\ Begun(script)'
    BY <1>1, <1>3, <2>4, GoesOn
  <2>7. /\ row' \in [Effect -> {"absent", "pending", "claimed", "done", "asked", "failed",
                                "dropped"}]
        /\ token' \in [Effect -> Nat] /\ lapsed' \in [Effect -> BOOLEAN] /\ Books'
    BY <1>2, <2>3, <2>4, TakeKeeps
  <2>8. Typed'
    BY <1>2, <2>4, <2>5, <2>6, <2>7, FS_AddElement DEF IInv, Typed, TeamFits, TypeOK
  <2> QED BY <2>6, <2>7, <2>8 DEF IInv
<1> QED BY <1>4, <1>5

(* Effects that are emitted are pending.                                   *)
LEMMA EmitTypes ==
  ASSUME IInv, NEW E \in SUBSET Effect, IsFiniteSet(E), Emit(E)
  PROVE  /\ outbox' \in Seq(Effect) /\ UNCHANGED <<token, lapsed>>
         /\ row' \in [Effect -> {"absent", "pending", "claimed", "done", "asked", "failed",
                                 "dropped"}]
         /\ \A e \in Effect : row'[e] = IF e \in E THEN "pending" ELSE row[e]
<1>1. SetToSeq(E) \in Seq(E)
  BY SetToSeqType
<1>2. SetToSeq(E) \in Seq(Effect)
  <2> HIDE DEF IInv
  <2>1. PICK q : q = SetToSeq(E)
    OBVIOUS
  <2> QED BY <1>1, <2>1
<1>3. outbox \in Seq(Effect)
  BY DEF IInv, Typed, TeamFits, TypeOK
<1>4. outbox' \in Seq(Effect)
  BY <1>2, <1>3 DEF Emit
<1> QED BY <1>4 DEF Emit, IInv, Typed, TeamFits, TypeOK

LEMMA ApplyCommandKeeps ==
  ASSUME IInv, ApplyCommand PROVE IInv'
<1>1. script # <<>> /\ Now.do = "kernel" /\ Now = script[1] /\ Now = Head(script)
  BY NowIsStep DEF ApplyCommand, Doing, Now
<1>2. PICK c \in AnyCommand, u \in Unit, m \in Mission :
        c = Now.command /\ u = Now.unit /\ m = Now.mission
  BY <1>1, NowIsStep, StepFields
<1>3. UNCHANGED <<tool, workedFor, session, envelope, keeps, teamOf, claims,
                  dropped, dropAll, promised, active, commands, crashes, lapses, rounds>>
  BY DEF ApplyCommand, journals, history, team, counters, faults
<1>4. CASE ~(Own(m, u) /\ node[u] \in From[c])
  <2>1. Refuse /\ UNCHANGED <<kernel, leases>>
    BY <1>2, <1>4 DEF ApplyCommand
  <2>2. TypeOK'
    BY <1>3, <2>1, FS_EmptySet DEF IInv, Typed, TeamFits, TypeOK, Refuse, kernel, leases
  <2> QED BY <1>3, <2>1, <2>2, FS_EmptySet, QuietEnd DEF Refuse, leases, IInv, Typed, TeamFits
<1>5. CASE Own(m, u) /\ node[u] \in From[c]
  <2>1. /\ node' = [node EXCEPT ![u] = To[c]] /\ Emit(Emitted(c, u)) /\ UNCHANGED <<mission, hand>>
        /\ script' = Tail(script)
    BY <1>2, <1>5 DEF ApplyCommand, Proceed
  <2>2. Emitted(c, u) \in SUBSET Effect /\ IsFiniteSet(Emitted(c, u))
    <3>1. Emitted(c, u) \in {{}, {Eff("start", u)}, {Eff("verify", u)}, {Eff("resume", u)},
                             {Eff("cancel", u)}}
      BY DEF Emitted
    <3>2. \A k \in Kind : Eff(k, u) \in Effect
      BY <1>2 DEF Eff, Effect
    <3>3. \A e : IsFiniteSet({e})
      BY FS_Singleton
    <3> QED BY <3>1, <3>2, <3>3, FS_EmptySet DEF Kind
  <2>3. PICK E \in SUBSET Effect : E = Emitted(c, u)
    BY <2>2
  <2>4. /\ outbox' \in Seq(Effect) /\ UNCHANGED <<token, lapsed>>
        /\ row' \in [Effect -> {"absent", "pending", "claimed", "done", "asked", "failed",
                                "dropped"}]
        /\ \A e \in Effect : row'[e] = IF e \in E THEN "pending" ELSE row[e]
    <3>1. Emit(E)
      BY <2>1, <2>3 DEF Emit
    <3> QED BY <2>2, <2>3, <3>1, EmitTypes
  <2>5. To[c] \in Live \cup {"accepted", "failed", "cancelled"}
    BY <1>2 DEF To, AnyCommand, Live
  <2>6. node' \in [Unit -> Live \cup {"absent", "queued", "accepted", "failed", "cancelled"}]
        /\ \A v \in Unit : node'[v] = IF v = u THEN To[c] ELSE node[v]
    BY <1>2, <2>1, <2>5 DEF IInv, Typed, TeamFits, TypeOK
  <2>7. MovesOn
    <3>1. Moved(u) => Moved(u)'
      BY <1>2, <1>5, <2>6 DEF Moved, From, To, AnyCommand, Live
    <3>2. node[u] # "accepted"
      BY <1>2, <1>5 DEF From, AnyCommand, Live
    <3> QED BY <1>2, <1>3, <2>6, <3>1, <3>2 DEF MovesOn, Moved
  <2>8. HeadIsDone
    BY <1>1, <1>2, <2>6 DEF HeadIsDone, To
  <2>9. script' \in Seq(Step) /\ Begun(script)'
    BY <1>1, <2>1, <2>7, <2>8, GoesOn
  <2>10. Typed'
    BY <1>3, <2>1, <2>4, <2>6, <2>9 DEF IInv, Typed, TeamFits, TypeOK
  <2>11. missionOf[u] = m /\ (c = "submit" => m \in workedFor[u])
    <3>1. WorkIsDone(script, 1)
      BY <1>1 DEF IInv, Typed, Begun
    <3> QED BY <1>1, <1>2, <1>5, <3>1 DEF WorkIsDone, Own
  <2>12. \A k \in Kind, v \in Unit : Eff(k, v) \in Effect /\ (v # u => Eff(k, v) \notin E)
    BY <2>3 DEF Emitted, Eff, Effect
  <2>13. /\ (c = "start" => Eff("start", u) \in E) /\ (c = "allow" => Eff("resume", u) \in E)
    BY <2>3 DEF Emitted
  <2>14. node[u] # "accepted" /\ node[u] # "absent"
    BY <1>2, <1>5 DEF From, AnyCommand, Live
  <2>15. To[c] = "running" => c \in {"start", "allow"}
    BY <1>2 DEF To, AnyCommand
  <2>16. To[c] \in {"submitted", "accepted"} => c = "submit" \/ node[u] = "submitted"
    BY <1>2, <1>5 DEF To, From, AnyCommand
  <2>17. Books'
    <3> SUFFICES ASSUME NEW v \in Unit
        PROVE (/\ node[v] \in {"submitted", "accepted"} => missionOf[v] \in workedFor[v]
               /\ row[Eff("start", v)] = "done" \/ row[Eff("resume", v)] = "done" => Moved(v)
               /\ row[Eff("verify", v)] = "done" => node[v] = "accepted"
               /\ \A k \in Kind : row[Eff(k, v)] = "asked" => tool[v] # "none"
               /\ node[v] = "running" =>
                    \E k \in {"start", "resume"} :
                      row[Eff(k, v)] \in {"pending", "claimed", "failed", "dropped"}
               /\ node[v] # "absent" =>
                    mission[missionOf[v]] \in {"running", "completed", "cancelled"}
               /\ mission[missionOf[v]] = "completed" => node[v] = "accepted")'
      BY DEF Books
    <3>1. CASE v # u
      BY <1>3, <2>1, <2>4, <2>6, <2>12, <3>1 DEF IInv, Books, Moved, Kind
    <3>2. CASE v = u
      <4>1. node'[v] \in {"submitted", "accepted"} => missionOf[v] \in workedFor'[v]
        BY <1>2, <1>3, <2>6, <2>11, <2>16, <3>2 DEF IInv, Books
      <4>2. row'[Eff("start", v)] = "done" \/ row'[Eff("resume", v)] = "done" => Moved(v)'
        BY <1>2, <2>4, <2>7, <2>12 DEF IInv, Books, MovesOn, Kind
      <4>3. row'[Eff("verify", v)] = "done" => node'[v] = "accepted"
        BY <1>2, <2>4, <2>7, <2>12 DEF IInv, Books, MovesOn, Kind
      <4>4. \A k \in Kind : row'[Eff(k, v)] = "asked" => tool'[v] # "none"
        BY <1>3, <2>4, <2>12 DEF IInv, Books
      <4>5. node'[v] = "running" =>
              \E k \in {"start", "resume"} :
                row'[Eff(k, v)] \in {"pending", "claimed", "failed", "dropped"}
        BY <2>4, <2>6, <2>12, <2>13, <2>15, <3>2 DEF Kind
      <4>6. /\ mission'[missionOf[v]] \in {"running", "completed", "cancelled"}
            /\ mission'[missionOf[v]] # "completed"
        BY <2>1, <2>14, <3>2 DEF IInv, Books
      <4> QED BY <4>1, <4>2, <4>3, <4>4, <4>5, <4>6
    <3> QED BY <3>1, <3>2
  <2> QED BY <2>9, <2>10, <2>17 DEF IInv
<1> QED BY <1>4, <1>5

LEMMA ApplyMissionCommandKeeps ==
  ASSUME IInv, ApplyMissionCommand PROVE IInv'
<1>1. script # <<>> /\ Now.do = "mission" /\ Now = Head(script)
  BY DEF ApplyMissionCommand, Doing, Now
<1>2. PICK m \in Mission : m = Now.mission
  BY <1>1, NowIsStep, StepFields
<1>3. UNCHANGED <<tool, workedFor, session, envelope, keeps, teamOf, claims,
                  dropped, dropAll, promised, active, commands, crashes, lapses, rounds>>
  BY DEF ApplyMissionCommand, journals, history, team, counters, faults
<1>4. HeadIsDone
  BY <1>1 DEF HeadIsDone
<1>5. CASE /\ mission[m] = "none" /\ mission' = [mission EXCEPT ![m] = "new"]
           /\ UNCHANGED <<node, outbox, leases>> /\ Proceed
  <2>1. MovesOn
    BY <1>3, <1>5, StillMovesOn
  <2>2. script' \in Seq(Step) /\ Begun(script)'
    BY <1>1, <1>4, <1>5, <2>1, GoesOn DEF Proceed
  <2>3. Typed'
    BY <1>3, <1>5, <2>2 DEF IInv, Typed, TeamFits, TypeOK, leases, Proceed
  <2>4. Books'
    BY <1>2, <1>3, <1>5, TaskDriveAssumption DEF IInv, Typed, TeamFits, TypeOK, Books, Moved, leases
  <2> QED BY <2>2, <2>3, <2>4 DEF IInv
<1>6. CASE /\ mission[m] = "new" /\ mission' = [mission EXCEPT ![m] = "running"]
           /\ node' = [u \in Unit |-> IF u \in UnitsOf(m) THEN "queued" ELSE node[u]]
           /\ UNCHANGED <<outbox, leases>> /\ Proceed
  <2>1. \A u \in UnitsOf(m) : node[u] = "absent"
    BY <1>2, <1>6 DEF IInv, Books, UnitsOf
  <2>2. MovesOn
    BY <1>3, <1>6, <2>1 DEF MovesOn, Moved, UnitsOf
  <2>3. script' \in Seq(Step) /\ Begun(script)'
    BY <1>1, <1>4, <1>6, <2>2, GoesOn DEF Proceed
  <2>4. Typed'
    BY <1>3, <1>6, <2>3 DEF IInv, Typed, TeamFits, TypeOK, leases, Proceed
  <2>5. Books'
    BY <1>2, <1>3, <1>6, <2>1, <2>2, TaskDriveAssumption
       DEF IInv, Typed, TeamFits, TypeOK, Books, Moved, MovesOn, UnitsOf, leases
  <2> QED BY <2>3, <2>4, <2>5 DEF IInv
<1>7. CASE mission[m] \in {"new", "running"} /\ Now.command = "cancel"
  <2> DEFINE Lost == {u \in UnitsOf(m) : node[u] \in Live \cup {"queued"}}
  <2>1. PICK L, E : L = Lost /\ E = {Eff("cancel", u) : u \in {v \in L : node[v] \in Live}}
    OBVIOUS
  <2>2. /\ mission' = [mission EXCEPT ![m] = "cancelled"]
        /\ node' = [u \in Unit |-> IF u \in L THEN "cancelled" ELSE node[u]]
        /\ Emit(E) /\ Proceed
    BY <1>2, <1>7, <2>1 DEF ApplyMissionCommand, Emit
  <2>3. E \in SUBSET Effect /\ L \subseteq UnitsOf(m) /\ UnitsOf(m) \subseteq Unit
    BY <2>1 DEF Eff, Effect, Kind, UnitsOf
  <2>4. IsFiniteSet(E)
    <3>1. IsFiniteSet({v \in L : node[v] \in Live})
      BY <2>3, TaskDriveAssumption, FS_Subset
    <3>2. PICK F : F = {v \in L : node[v] \in Live} /\ IsFiniteSet(F)
      BY <3>1
    <3>3. [u \in F |-> Eff("cancel", u)] \in Surjection(F, E)
      BY <2>1, <3>2 DEF Surjection
    <3> QED BY <3>2, <3>3, FS_Surjection
  <2>5. /\ outbox' \in Seq(Effect) /\ UNCHANGED <<token, lapsed>>
        /\ row' \in [Effect -> {"absent", "pending", "claimed", "done", "asked", "failed",
                                "dropped"}]
        /\ \A e \in Effect : row'[e] = IF e \in E THEN "pending" ELSE row[e]
    BY <2>2, <2>3, <2>4, EmitTypes
  <2>6. \A u \in L : node[u] \in Live \cup {"queued"} /\ missionOf[u] = m
    BY <2>1 DEF UnitsOf
  <2>7. MovesOn
    BY <1>3, <2>2, <2>3, <2>6 DEF MovesOn, Moved, Live
  <2>8. script' \in Seq(Step) /\ Begun(script)'
    BY <1>1, <1>4, <2>2, <2>7, GoesOn DEF Proceed
  <2>9. Typed'
    BY <1>3, <2>2, <2>5, <2>8 DEF IInv, Typed, TeamFits, TypeOK, Proceed
  <2>10. \A u \in Unit, k \in {"start", "resume", "verify"} :
           Eff(k, u) \in Effect /\ Eff(k, u) \notin E
    BY <2>1 DEF Eff, Effect, Kind
  <2>11. \A u \in Unit, k \in Kind : Eff(k, u) \in Effect
    BY DEF Eff, Effect
  <2>12. \A u \in Unit : missionOf[u] \in Mission
    BY TaskDriveAssumption
  <2>13. \A u \in Unit : /\ node'[u] = IF u \in L THEN "cancelled" ELSE node[u]
                         /\ mission'[missionOf[u]] =
                              IF missionOf[u] = m THEN "cancelled" ELSE mission[missionOf[u]]
    BY <2>2, <2>12 DEF IInv, Typed, TeamFits, TypeOK
  <2>14. Books'
    BY <1>3, <2>5, <2>6, <2>10, <2>11, <2>13, <2>7 DEF IInv, Books, Moved, MovesOn
  <2> QED BY <2>8, <2>9, <2>14 DEF IInv
<1>8. CASE UNCHANGED <<kernel, leases>> /\ Refuse
  <2>1. TypeOK'
    BY <1>3, <1>8, FS_EmptySet DEF IInv, Typed, TeamFits, TypeOK, Refuse, kernel, leases
  <2> QED BY <1>3, <1>8, <2>1, FS_EmptySet, QuietEnd DEF Refuse, leases, IInv, Typed, TeamFits
<1> QED BY <1>2, <1>5, <1>6, <1>7, <1>8 DEF ApplyMissionCommand

(* A whole script in front of what is under way.                           *)
LEMMA Interposes ==
  ASSUME IInv, script # <<>>, MovesOn, Head(script).do \notin {"kernel", "session", "ask"},
         NEW s \in Seq(Step), s \o <<Head(script)>> \in WholeScripts', script' = s \o script
  PROVE  script' \in Seq(Step) /\ Begun(script)'
<1> DEFINE r == s \o <<Head(script)>>
<1>1. script \in Seq(Step)
  BY DEF IInv, Typed
<1>2. s \o script = r \o Tail(script)
  <2>1. /\ s \o script \in Seq(Step) /\ r \o Tail(script) \in Seq(Step)
        /\ Len(s \o script) = Len(r \o Tail(script))
    BY <1>1
  <2>2. ASSUME NEW i \in 1..Len(s \o script) PROVE (s \o script)[i] = (r \o Tail(script))[i]
    <3>1. CASE i <= Len(s)
      BY <1>1, <3>1
    <3>2. CASE i = Len(s) + 1
      BY <1>1, <3>2
    <3>3. CASE i > Len(s) + 1
      BY <1>1, <3>3
    <3> QED BY <3>1, <3>2, <3>3
  <2> QED BY <2>1, <2>2
<1> HIDE DEF r
<1>3. r \in WholeScripts' /\ script' = r \o Tail(script)
  BY <1>2 DEF r
<1> QED BY <1>3, Expands

(* A script is whole if each of its steps is, one by one.                  *)
LEMMA WholeByStep ==
  ASSUME NEW s \in Seq(Step),
         \A i \in 1..Len(s) :
           \/ Plain(s[i])
           \/ s[i].do = "execute" /\ i < Len(s) /\ s[i + 1].do = "drive"
           \/ /\ s[i].do = "kernel" /\ s[i].command = "submit"
              /\ s[i].mission \in workedFor'[s[i].unit]
           \/ s[i].do = "tool" /\ tool'[s[i].unit] # "none"
           \/ /\ s[i].do = "complete" /\ s[i].outcome = "done" /\ i > 1
              /\ s[i].claim.effect.kind \in {"start", "resume"} =>
                   Orders(s, i - 1, "submit", s[i].claim.effect.unit)
              /\ s[i].claim.effect.kind = "verify" =>
                   Orders(s, i - 1, "accept", s[i].claim.effect.unit)
           \/ /\ s[i].do = "complete" /\ s[i].outcome = "asked" /\ i > 2
              /\ s[i - 1].do = "session" /\ Orders(s, i - 2, "ask", s[i].claim.effect.unit)
              /\ \/ tool'[s[i].claim.effect.unit] # "none"
                 \/ \E j \in 1..(i - 1) : s[j].do = "ask" /\ s[j].unit = s[i].claim.effect.unit
  PROVE  s \in WholeScripts'
<1> SUFFICES ASSUME NEW i \in 1..Len(s)
             PROVE  /\ WorkIsDone(s, i)' /\ ToolIsKnown(s, i)' /\ DoneIsBacked(s, i)'
                    /\ AskIsJournalled(s, i)' /\ AskIsAhead(s, i)' /\ IsDriven(s, i)'
  BY DEF WholeScripts, Whole
<1>1. WorkIsDone(s, i)' /\ ToolIsKnown(s, i)'
  BY DEF WorkIsDone, ToolIsKnown, Plain
<1>2. DoneIsBacked(s, i)'
  BY DEF DoneIsBacked, Plain
<1>3. AskIsJournalled(s, i)'
  BY DEF AskIsJournalled, Plain
<1>4. AskIsAhead(s, i)' /\ IsDriven(s, i)'
  BY DEF AskIsAhead, IsDriven, Plain
<1> QED BY <1>1, <1>2, <1>3, <1>4

LEMMA WithOneMore ==
  ASSUME NEW p \in Seq(Step), NEW d \in Step
  PROVE  /\ p \o <<d>> \in Seq(Step) /\ Len(p \o <<d>>) = Len(p) + 1
         /\ \A i \in 1..Len(p) : (p \o <<d>>)[i] = p[i]
         /\ (p \o <<d>>)[Len(p) + 1] = d
OBVIOUS

(* The service of an effect is backed by itself and by the loop.           *)
LEMMA ServiceIsWhole ==
  ASSUME NEW m \in Mission, NEW c \in Claim, NEW d \in Step, d.do = "drive"
  PROVE  Service(m, c) \in Seq(Step) /\ Service(m, c) \o <<d>> \in WholeScripts'
<1> DEFINE u == c.effect.unit
<1>0. PICK p, s : p = Service(m, c) /\ s = p \o <<d>>
  OBVIOUS
<1>1. u \in Unit /\ c.effect.kind \in Kind
  BY ClaimFields
<1>5. p \in Seq(Step) => /\ s \in Seq(Step) /\ Len(s) = Len(p) + 1
                          /\ \A i \in 1..Len(p) : s[i] = p[i]
                          /\ s[Len(p) + 1] = d
  BY <1>0, WithOneMore
<1>2. CASE c.effect.kind \in {"start", "resume"}
  <2>1. p = <<Begin(m, u), Execute(m, c)>>
    BY <1>0, <1>2 DEF Service
  <2>2. Begin(m, u) \in Step /\ Execute(m, c) \in Step
    BY <1>1, <1>2, StepTypes DEF RunClaim
  <2>3. /\ p \in Seq(Step) /\ Len(p) = 2 /\ p[1].do = "begin" /\ p[2].do = "execute"
    BY <2>1, <2>2 DEF Begin, Execute
  <2>4. /\ s \in Seq(Step) /\ Len(s) = 3 /\ s[1].do = "begin" /\ s[2].do = "execute"
        /\ s[3].do = "drive"
    BY <1>5, <2>3
  <2>5. s \in WholeScripts'
    <3>1. ASSUME NEW i \in 1..Len(s)
          PROVE  Plain(s[i]) \/ (s[i].do = "execute" /\ i < Len(s) /\ s[i + 1].do = "drive")
      BY <2>4 DEF Plain
    <3> QED BY <2>4, <3>1, WholeByStep
  <2> QED BY <1>0, <2>3, <2>5
<1>3. CASE c.effect.kind = "verify"
  <2> DEFINE a == Command("accept", m, u)
             z == Complete(c, "done")
  <2>1. p = <<Known(m, u), Session(u, "completed"), a, z>>
    BY <1>0, <1>3 DEF Service
  <2>2. Known(m, u) \in Step /\ Session(u, "completed") \in Step /\ a \in Step /\ z \in Step
    BY <1>1, StepTypes DEF AnyCommand, SessionStatus, Outcomes
  <2>3. /\ p \in Seq(Step) /\ Len(p) = 4 /\ p[1].do = "known" /\ p[2].do = "session"
        /\ p[3] = a /\ p[4] = z
    BY <2>1, <2>2 DEF Known, Session
  <2>4. /\ s \in Seq(Step) /\ Len(s) = 5 /\ s[1].do = "known" /\ s[2].do = "session"
        /\ s[3] = a /\ s[4] = z /\ s[5].do = "drive"
    BY <1>5, <2>3
  <2>5. /\ a.do = "kernel" /\ a.command = "accept" /\ a.unit = u
        /\ z.do = "complete" /\ z.outcome = "done" /\ z.claim = c
    BY DEF Command, Complete
  <2> HIDE DEF a, z
  <2>6. s \in WholeScripts'
    BY <1>3, <2>4, <2>5, WholeByStep DEF Plain, Orders
  <2> QED BY <1>0, <2>3, <2>6
<1>4. CASE c.effect.kind = "cancel"
  <2> DEFINE z == Complete(c, "done")
  <2>1. p = <<Known(m, u), Session(u, "cancelled"), z>>
    BY <1>0, <1>4 DEF Service
  <2>2. Known(m, u) \in Step /\ Session(u, "cancelled") \in Step /\ z \in Step
    BY <1>1, StepTypes DEF SessionStatus, Outcomes, Recoverable
  <2>3. /\ p \in Seq(Step) /\ Len(p) = 3 /\ p[1].do = "known" /\ p[2].do = "session"
        /\ p[3] = z
    BY <2>1, <2>2 DEF Known, Session
  <2>4. /\ s \in Seq(Step) /\ Len(s) = 4 /\ s[1].do = "known" /\ s[2].do = "session"
        /\ s[3] = z /\ s[4].do = "drive"
    BY <1>5, <2>3
  <2>5. z.do = "complete" /\ z.outcome = "done" /\ z.claim = c
    BY DEF Complete
  <2> HIDE DEF z
  <2>6. s \in WholeScripts'
    BY <1>4, <2>4, <2>5, WholeByStep DEF Plain
  <2> QED BY <1>0, <2>3, <2>6
<1> QED BY <1>1, <1>2, <1>3, <1>4 DEF Kind

LEMMA DriveEffectsKeeps ==
  ASSUME IInv, DriveEffects PROVE IInv'
<1> DEFINE I == {j \in 1..Len(outbox) : Claimable(outbox[j])}
           i == SelectInSeq(outbox, Claimable)
<1>1. script # <<>> /\ Now.do = "drive" /\ Now \in Step /\ Now = Head(script)
      /\ Now.mission \in Mission
  BY NowIsStep, StepFields DEF DriveEffects, Doing, Now
<1>2. UNCHANGED <<node, mission, outbox, tool, workedFor, session, envelope, keeps, teamOf, claims,
                  dropped, dropAll, promised, active, commands, crashes, lapses, rounds, hand>>
  BY DEF DriveEffects, Proceed, kernel, journals, history, team, counters, faults
<1>3. MovesOn /\ HeadIsDone
  BY <1>1, <1>2, StillMovesOn DEF HeadIsDone
<1>4. CASE i = 0
  <2>1. script' = Tail(script) /\ UNCHANGED leases
    BY <1>4 DEF DriveEffects, Proceed
  <2>2. TypeOK'
    BY <1>2, <2>1 DEF IInv, Typed, TeamFits, TypeOK, leases
  <2> QED BY <1>1, <1>2, <2>1, <2>2, QuietTail DEF leases, kernel, IInv, Typed, TeamFits
<1>5. CASE i # 0
  <2>1. I # {} /\ i \in I
    <3>1. i = IF I # {} THEN Min(I) ELSE 0
      BY DEF SelectInSeq
    <3>2. I \subseteq Nat
      OBVIOUS
    <3> HIDE DEF I, i
    <3> QED BY <1>5, <3>1, <3>2, MinType
  <2>2. PICK e, c, m : e = outbox[i] /\ c = Taken(e) /\ m = Now.mission
    OBVIOUS
  <2>3. e \in Effect /\ Claimable(e) /\ m \in Mission
    BY <1>1, <2>1, <2>2 DEF IInv, Typed, TeamFits, TypeOK, Claimable
  <2>4. Take(e) /\ script' = Service(m, c) \o script
    BY <1>5, <2>2 DEF DriveEffects, Take, Taken
  <2> HIDE DEF i, I
  <2>5. c \in Claim
    BY <2>2, <2>3 DEF IInv, Typed, TeamFits, TypeOK, Taken, Claim
  <2>6. Service(m, c) \in Seq(Step) /\ Service(m, c) \o <<Now>> \in WholeScripts'
    BY <1>1, <2>3, <2>5, ServiceIsWhole
  <2>7. script' \in Seq(Step) /\ Begun(script)'
    BY <1>1, <1>3, <2>4, <2>6, Interposes
  <2>8. /\ row' \in [Effect -> {"absent", "pending", "claimed", "done", "asked", "failed",
                                "dropped"}]
        /\ token' \in [Effect -> Nat] /\ lapsed' \in [Effect -> BOOLEAN] /\ Books'
    BY <1>2, <2>3, <2>4, TakeKeeps
  <2>9. Typed'
    BY <1>2, <2>7, <2>8 DEF IInv, Typed, TeamFits, TypeOK
  <2> QED BY <2>7, <2>8, <2>9 DEF IInv
<1> QED BY <1>4, <1>5

LEMMA AskForToolKeeps ==
  ASSUME IInv, AskForTool PROVE IInv'
<1>1. script # <<>> /\ Now.do = "ask" /\ Now = Head(script)
  BY DEF AskForTool, Doing, Now
<1>2. PICK m \in Mission, u \in Unit : m = Now.mission /\ u = Now.unit
  BY <1>1, NowIsStep, StepFields
<1>3. /\ tool' = [tool EXCEPT ![u] = "waiting"] /\ envelope' = [envelope EXCEPT ![u] = m]
      /\ script' = Tail(script)
      /\ UNCHANGED <<node, row, mission, workedFor, hand, claims>>
  BY <1>2 DEF AskForTool, Proceed, kernel, leases, history, team
<1>4. MovesOn /\ HeadIsDone
  BY <1>1, <1>2, <1>3 DEF IInv, Typed, TypeOK, MovesOn, Moved, HeadIsDone
<1>5. script' \in Seq(Step) /\ Begun(script)'
  BY <1>1, <1>3, <1>4, GoesOn
<1>6. Typed'
  BY <1>2, <1>3, <1>5 DEF IInv, Typed, TeamFits, TypeOK, AskForTool, kernel, leases, team, history,
     counters, faults
<1>7. Books'
  BY <1>3, <1>4, BooksStay DEF IInv
<1> QED BY <1>5, <1>6, <1>7 DEF IInv

(* The tool that is to be run is known to the journal.                     *)
LEMMA ToolIsRun ==
  ASSUME IInv, Doing("tool")
  PROVE  /\ script # <<>> /\ Now.do = "tool" /\ Now = Head(script)
         /\ Now.unit \in Unit /\ tool[Now.unit] # "none" /\ envelope[Now.unit] \in Mission
<1>1. script # <<>> /\ Now.do = "tool" /\ Now = Head(script) /\ Now = script[1]
  BY NowIsStep DEF Doing, Now
<1>2. Now.unit \in Unit
  BY <1>1, NowIsStep, StepFields
<1>3. ToolIsKnown(script, 1)
  BY <1>1 DEF IInv, Typed, Begun
<1> QED BY <1>1, <1>2, <1>3 DEF ToolIsKnown, IInv, Typed

LEMMA ToolFailsKeeps ==
  ASSUME IInv, ToolFails PROVE IInv'
<1>1. PICK u \in Unit : u = Now.unit /\ tool[u] # "none" /\ envelope[u] \in Mission
  BY ToolIsRun DEF ToolFails
<1>2. script # <<>> /\ Now.do = "tool" /\ Now = Head(script)
  BY ToolIsRun DEF ToolFails
<1>3. /\ tool' = [tool EXCEPT ![u] = "failed"] /\ script' = Tail(script)
      /\ UNCHANGED <<node, row, mission, workedFor, hand, claims, envelope>>
  BY <1>1 DEF ToolFails, Proceed, kernel, leases, history, team
<1>4. MovesOn /\ HeadIsDone
  BY <1>1, <1>2, <1>3 DEF IInv, Typed, TypeOK, MovesOn, Moved, HeadIsDone
<1>5. script' \in Seq(Step) /\ Begun(script)'
  BY <1>2, <1>3, <1>4, GoesOn
<1>6. Typed'
  BY <1>1, <1>3, <1>5 DEF IInv, Typed, TeamFits, TypeOK, ToolFails, kernel, leases, team, history,
     counters, faults
<1>7. Books'
  BY <1>3, <1>4, BooksStay DEF IInv
<1> QED BY <1>5, <1>6, <1>7 DEF IInv

(* Scripts of plain steps are whole.                                       *)
PlainStep == {x \in Step : Plain(x)}

LEMMA PlainScripts == Seq(PlainStep) \subseteq WholeScripts'
<1> SUFFICES ASSUME NEW s \in Seq(PlainStep) PROVE s \in WholeScripts'
  OBVIOUS
<1>1. s \in Seq(Step) /\ \A i \in 1..Len(s) : Plain(s[i])
  BY DEF PlainStep
<1> QED BY <1>1, PlainNext

LEMMA PlainTypes ==
  /\ \A c \in AnyCommand \ {"submit"}, m \in Mission, u \in Unit : Command(c, m, u) \in PlainStep
  /\ \A c \in {"create", "plan", "cancel"}, m \in Mission : MissionCommand(c, m) \in PlainStep
  /\ \A u \in Unit, s \in SessionStatus : Session(u, s) \in PlainStep
  /\ \A c \in Claim, o \in {"failed", "dropped"} : Complete(c, o) \in PlainStep
  /\ \A u \in Unit, K \in SUBSET {"start", "resume"} : ClaimRun(u, K) \in PlainStep
  /\ \A u \in Unit, h \in {"single", "team"} : Keep(u, h) \in PlainStep
  /\ \A m \in Mission, u \in Unit : Begin(m, u) \in PlainStep /\ Ask(m, u) \in PlainStep
  /\ \A m \in Mission :
       /\ Drive(m) \in PlainStep /\ Regroup(m) \in PlainStep /\ Launch(m) \in PlainStep
       /\ Finish(m) \in PlainStep /\ Wave(m) \in PlainStep
  /\ \A c \in RunClaim : Retain(c) \in PlainStep
  /\ Fail \in PlainStep
<1> USE StepTypes DEF PlainStep, Plain
<1>1. \A c \in AnyCommand \ {"submit"}, m \in Mission, u \in Unit : Command(c, m, u) \in PlainStep
  BY DEF Command
<1>2. \A c \in {"create", "plan", "cancel"}, m \in Mission : MissionCommand(c, m) \in PlainStep
  BY DEF MissionCommand
<1>3. \A u \in Unit, s \in SessionStatus : Session(u, s) \in PlainStep
  BY DEF Session
<1>4. \A c \in Claim, o \in {"failed", "dropped"} : Complete(c, o) \in PlainStep
  BY DEF Complete, Outcomes
<1>5. \A u \in Unit, K \in SUBSET {"start", "resume"} : ClaimRun(u, K) \in PlainStep
  BY DEF ClaimRun
<1>6. \A u \in Unit, h \in {"single", "team"} : Keep(u, h) \in PlainStep
  BY DEF Keep
<1>7. \A m \in Mission, u \in Unit : Begin(m, u) \in PlainStep /\ Ask(m, u) \in PlainStep
  BY DEF Begin, Ask
<1>8. \A m \in Mission :
        /\ Drive(m) \in PlainStep /\ Regroup(m) \in PlainStep /\ Launch(m) \in PlainStep
        /\ Finish(m) \in PlainStep /\ Wave(m) \in PlainStep
  BY DEF Drive, Regroup, Launch, Finish, Wave
<1>9. \A c \in RunClaim : Retain(c) \in PlainStep
  BY DEF Retain
<1>10. Fail \in PlainStep
  BY DEF Fail
<1> QED BY <1>1, <1>2, <1>3, <1>4, <1>5, <1>6, <1>7, <1>8, <1>9, <1>10

(* New scripts are whole when their parts are.                             *)
LEMMA WholeParts ==
  ASSUME NEW a \in WholeScripts', NEW b \in WholeScripts'
  PROVE  a \o b \in WholeScripts'
BY WholeNext

LEMMA ToolCompletesKeeps ==
  ASSUME IInv, ToolCompletes PROVE IInv'
<1>1. PICK u \in Unit, m \in Mission :
        u = Now.unit /\ m = envelope[u] /\ tool[u] # "none"
  BY ToolIsRun DEF ToolCompletes
<1>2. script # <<>> /\ Now.do = "tool" /\ Now = Head(script)
  BY ToolIsRun DEF ToolCompletes
<1>3. /\ tool' = [tool EXCEPT ![u] = "completed"] /\ active' = m /\ hand' = hand
      /\ UNCHANGED <<node, row, mission, workedFor, claims, envelope>>
      /\ UNCHANGED <<kernel, leases, session, team, history, counters>>
  BY <1>1 DEF ToolCompletes, Expand, kernel, leases, history, team
<1>4. MovesOn
  BY <1>1, <1>2, <1>3 DEF IInv, Typed, TypeOK, MovesOn, Moved
<1>5. PICK s \in Seq(PlainStep) : script' = s \o Tail(script)
  <2>1. \/ script' = <<Command("allow", m, u), ClaimRun(u, {"resume"}), Session(u, "running"),
                       Launch(m)>> \o Tail(script)
        \/ script' = <<Command("allow", m, u), Drive(m), Finish(m)>> \o Tail(script)
    BY <1>1 DEF ToolCompletes, Expand
  <2>2. /\ Command("allow", m, u) \in PlainStep /\ ClaimRun(u, {"resume"}) \in PlainStep
        /\ Session(u, "running") \in PlainStep /\ Launch(m) \in PlainStep
        /\ Drive(m) \in PlainStep /\ Finish(m) \in PlainStep
    BY PlainTypes DEF AnyCommand, SessionStatus, Recoverable
  <2>3. <<Command("allow", m, u), ClaimRun(u, {"resume"}), Session(u, "running"), Launch(m)>>
          \in Seq(PlainStep)
    BY <2>2
  <2>4. <<Command("allow", m, u), Drive(m), Finish(m)>> \in Seq(PlainStep)
    BY <2>2
  <2> QED BY <2>1, <2>3, <2>4
<1>6. script' \in Seq(Step) /\ Begun(script)'
  BY <1>2, <1>4, <1>5, PlainScripts, Expands
<1>7. keeps' \in [Unit -> {"none", "single", "team"}]
  <2>1. keeps' = keeps \/ keeps' = [keeps EXCEPT ![u] = "none"]
    BY <1>1 DEF ToolCompletes
  <2>2. keeps \in [Unit -> {"none", "single", "team"}]
    BY DEF IInv, Typed, TypeOK
  <2> QED
    BY <2>1, <2>2
<1>8. Typed'
  <2>1. tool' \in [Unit -> {"none", "waiting", "completed", "failed", "denied"}]
    BY <1>1, <1>3 DEF IInv, Typed, TypeOK
  <2>2. TypeOK'
    BY <1>1, <1>3, <1>7, <2>1 DEF IInv, Typed, TypeOK, kernel, leases, team, history,
       counters, faults
  <2>3. TeamFits'
    BY <1>3 DEF IInv, Typed, TeamFits
  <2>4. \A v \in Unit : tool'[v] # "none" => envelope'[v] \in Mission
    BY <1>1, <1>3 DEF IInv, Typed, TypeOK
  <2> QED
    BY <1>6, <2>2, <2>3, <2>4 DEF Typed
<1>9. Books'
  BY <1>3, <1>4, BooksStay DEF IInv
<1> QED BY <1>6, <1>8, <1>9 DEF IInv

LEMMA RegroupTeamKeeps ==
  ASSUME IInv, RegroupTeam PROVE IInv'
<1>1. script # <<>> /\ Now.do = "regroup" /\ Now = Head(script) /\ Now.mission \in Mission
  BY NowIsStep, StepFields DEF RegroupTeam, Doing, Now
<1>2. UNCHANGED <<kernel, row, tool, envelope, workedFor, hand, claims>>
  BY DEF RegroupTeam, Expand, leases, journals, history, team
<1>3. PICK s \in Seq(PlainStep) : script' = s \o Tail(script)
  <2>1. PICK m \in Mission : m = Now.mission
    BY <1>1
  <2>2. Launch(m) \in PlainStep /\ Finish(m) \in PlainStep /\ Wave(m) \in PlainStep
    BY PlainTypes
  <2>3. script' = <<Launch(m)>> \o Tail(script) \/ script' = <<Finish(m), Wave(m)>> \o Tail(script)
    BY <2>1 DEF RegroupTeam, Expand
  <2>4. <<Launch(m)>> \in Seq(PlainStep) /\ <<Finish(m), Wave(m)>> \in Seq(PlainStep)
    BY <2>2
  <2> QED BY <2>3, <2>4
<1>4. script' \in Seq(Step) /\ Begun(script)'
  BY <1>1, <1>2, <1>3, PlainScripts, StillMovesOn, Expands DEF kernel
<1>5. TypeOK' /\ TeamFits'
  BY DEF IInv, Typed, TeamFits, TypeOK, RegroupTeam, Expand, kernel, leases, journals, team, history,
     counters, faults
<1> QED BY <1>2, <1>4, <1>5, Quietly

(* What is done for every element of a set is whole if each part is.       *)
LEMMA ForEachIsWhole ==
  ASSUME NEW S, IsFiniteSet(S), NEW h \in [S -> WholeScripts']
  PROVE  FlattenSeq([i \in DOMAIN SetToSeq(S) |-> h[SetToSeq(S)[i]]]) \in WholeScripts'
<1>1. <<>> \in WholeScripts'
  <2>1. <<>> \in Seq(PlainStep)
    OBVIOUS
  <2> QED BY <2>1, PlainScripts
<1>2. \A a, b \in WholeScripts' : a \o b \in WholeScripts'
  BY WholeNext
<1>3. PICK G : G = WholeScripts'
  OBVIOUS
<1>4. FlattenSeq([i \in DOMAIN SetToSeq(S) |-> h[SetToSeq(S)[i]]]) \in G
  BY <1>1, <1>2, <1>3, ForEachClosed
<1> QED BY <1>3, <1>4

LEMMA StaffIsWhole ==
  ASSUME NEW m \in Mission, NEW S \in SUBSET Unit
  PROVE  Staff(m, S) \in WholeScripts'
<1> DEFINE Part(u) == <<Command("start", m, u), ClaimRun(u, {"start"}), Begin(m, u)>>
           h == [u \in S |-> Part(u)]
           q == SetToSeq(S)
<1>1. IsFiniteSet(S)
  BY TaskDriveAssumption, FS_Subset
<1>2. ASSUME NEW u \in Unit PROVE Part(u) \in WholeScripts'
  <2>1. /\ Command("start", m, u) \in PlainStep /\ ClaimRun(u, {"start"}) \in PlainStep
        /\ Begin(m, u) \in PlainStep
    BY PlainTypes DEF AnyCommand
  <2>2. Part(u) \in Seq(PlainStep)
    BY <2>1
  <2> QED BY <2>2, PlainScripts
<1>3. h \in [S -> WholeScripts']
  BY <1>2
<1>4. q \in Seq(S)
  BY <1>1, SetToSeqType
<1> HIDE DEF q, Part
<1>5. [i \in DOMAIN q |-> Part(q[i])] = [i \in DOMAIN q |-> h[q[i]]]
  BY <1>4
<1>6. FlattenSeq([i \in DOMAIN q |-> h[q[i]]]) \in WholeScripts'
  <2> HIDE DEF h
  <2> QED BY <1>1, <1>3, ForEachIsWhole DEF q
<1>7. FlattenSeq([i \in DOMAIN q |-> Part(q[i])]) \in WholeScripts'
  BY <1>5, <1>6
<1>8. <<Launch(m)>> \in WholeScripts'
  <2>1. Launch(m) \in PlainStep
    BY PlainTypes
  <2>2. <<Launch(m)>> \in Seq(PlainStep)
    BY <2>1
  <2> QED BY <2>2, PlainScripts
<1>9. Staff(m, S) = FlattenSeq([i \in DOMAIN q |-> Part(q[i])]) \o <<Launch(m)>>
  BY DEF Staff, ForEach, q, Part
<1> QED BY <1>7, <1>8, <1>9, WholeParts

LEMMA NextWaveKeeps ==
  ASSUME IInv, NextWave PROVE IInv'
<1>1. script # <<>> /\ Now.do = "wave" /\ Now = Head(script)
  BY DEF NextWave, Doing, Now
<1>2. PICK m \in Mission : m = Now.mission
  BY <1>1, NowIsStep, StepFields
<1>3. UNCHANGED <<kernel, row, tool, envelope, workedFor, hand, claims>>
  BY DEF NextWave, Proceed, Expand, leases, journals, history, team
<1>4. TypeOK' /\ TeamFits'
  BY DEF IInv, Typed, TeamFits, TypeOK, NextWave, Proceed, Expand, kernel, leases, journals, team,
     history, counters, faults
<1>5. PICK Q \in SUBSET Unit : script' = Tail(script) \/ script' = Staff(m, Q) \o Tail(script)
  <2>1. {u \in UnitsOf(m) : node[u] = "queued"} \in SUBSET Unit
    BY DEF UnitsOf
  <2> QED BY <1>2, <2>1 DEF NextWave, Proceed, Expand
<1>6. CASE script' = Tail(script)
  BY <1>1, <1>3, <1>4, <1>6, QuietTail
<1>7. CASE script' = Staff(m, Q) \o Tail(script)
  <2>1. script' \in Seq(Step) /\ Begun(script)'
    BY <1>1, <1>3, <1>7, StaffIsWhole, StillMovesOn, Expands DEF kernel
  <2> QED BY <1>3, <1>4, <2>1, Quietly
<1> QED BY <1>5, <1>6, <1>7

(* The claim a model works under.                                          *)
LEMMA ModelRuns ==
  ASSUME IInv, Doing("execute")
  PROVE  /\ script # <<>> /\ Now.do = "execute" /\ Now = Head(script) /\ Now = script[1]
         /\ Now.mission \in Mission /\ Now.claim \in RunClaim /\ Now.claim \in Claim
         /\ Now.claim.effect.unit \in Unit /\ Now.claim.effect.kind \in {"start", "resume"}
<1>1. script # <<>> /\ Now.do = "execute" /\ Now = Head(script) /\ Now = script[1]
  BY NowIsStep DEF Doing, Now
<1>2. Now.mission \in Mission /\ Now.claim \in RunClaim
  BY <1>1, NowIsStep, StepFields
<1> QED BY <1>1, <1>2, ClaimFields DEF RunClaim

(* Work that was done may be handed in.                                    *)
LEMMA SubmittedIsWhole ==
  ASSUME NEW m \in Mission, NEW c \in RunClaim, m \in workedFor'[c.effect.unit]
  PROVE  Submitted(m, c) \in WholeScripts'
<1> DEFINE u == c.effect.unit
<1>1. u \in Unit /\ c \in Claim /\ c.effect.kind \in {"start", "resume"}
  BY ClaimFields DEF RunClaim
<1>2. PICK s : s = Submitted(m, c)
  OBVIOUS
<1>3. /\ Session(u, "submitted") \in Step /\ Command("submit", m, u) \in Step
      /\ Complete(c, "done") \in Step
  BY <1>1, StepTypes DEF AnyCommand, SessionStatus, Outcomes
<1>4. /\ s \in Seq(Step) /\ Len(s) = 3 /\ s[1] = Session(u, "submitted")
      /\ s[2] = Command("submit", m, u) /\ s[3] = Complete(c, "done")
  BY <1>2, <1>3 DEF Submitted
<1>5. /\ s[1].do = "session"
      /\ s[2].do = "kernel" /\ s[2].command = "submit" /\ s[2].unit = u /\ s[2].mission = m
      /\ s[3].do = "complete" /\ s[3].outcome = "done" /\ s[3].claim = c
  BY <1>4 DEF Session, Command, Complete
<1>6. s \in WholeScripts'
  <2>1. Plain(s[1])
    BY <1>5 DEF Plain
  <2>2. s[2].mission \in workedFor'[s[2].unit]
    BY <1>5
  <2>3. Orders(s, 3 - 1, "submit", s[3].claim.effect.unit) /\ s[3].claim.effect.kind # "verify"
    BY <1>1, <1>5 DEF Orders
  <2> QED BY <1>4, <1>5, <2>1, <2>2, <2>3, WholeByStep
<1> QED BY <1>2, <1>6

LEMMA ModelFinishesKeeps ==
  ASSUME IInv, ModelFinishes PROVE IInv'
<1>1. PICK m \in Mission, c \in RunClaim, u \in Unit :
        m = Now.mission /\ c = Now.claim /\ u = c.effect.unit
  BY ModelRuns DEF ModelFinishes
<1>2. script # <<>> /\ Now.do = "execute" /\ Now = Head(script)
  BY ModelRuns DEF ModelFinishes
<1>3. /\ workedFor' = [workedFor EXCEPT ![u] = @ \cup {m}]
      /\ script' = Submitted(m, c) \o Tail(script)
      /\ keeps' = keeps \/ keeps' = [keeps EXCEPT ![u] = "none"]
      /\ UNCHANGED <<hand, kernel, leases, journals, active, team, promised, counters>>
  BY <1>1 DEF ModelFinishes, Expand
<1>4. MovesOn
  BY <1>3 DEF IInv, Typed, TypeOK, MovesOn, Moved, kernel, journals
<1>5. m \in workedFor'[u]
  BY <1>3 DEF IInv, Typed, TypeOK
<1>6. script' \in Seq(Step) /\ Begun(script)'
  BY <1>1, <1>2, <1>3, <1>4, <1>5, SubmittedIsWhole, Expands
<1>7. Typed'
  <2>1. workedFor[u] \cup {m} \subseteq Mission
    BY DEF IInv, Typed, TypeOK
  <2>2. workedFor' \in [Unit -> SUBSET Mission]
    BY <1>3, <2>1 DEF IInv, Typed, TypeOK
  <2>3. keeps' \in [Unit -> {"none", "single", "team"}]
    BY <1>3 DEF IInv, Typed, TypeOK
  <2> QED BY <1>1, <1>3, <1>6, <2>2, <2>3 DEF IInv, Typed, TeamFits, TypeOK, kernel, leases, journals,
          team, counters, faults
<1>8. Books'
  BY <1>3, <1>4, BooksStay DEF IInv, kernel, leases
<1> QED BY <1>6, <1>7, <1>8 DEF IInv

LEMMA ModelFailsKeeps ==
  ASSUME IInv, ModelFails PROVE IInv'
<1>1. PICK m \in Mission, c \in RunClaim, u \in Unit :
        m = Now.mission /\ c = Now.claim /\ u = c.effect.unit /\ c \in Claim
  BY ModelRuns DEF ModelFails
<1>2. /\ script' = <<Complete(c, "failed"), Session(u, "failed"), Command("fail", m, u)>>
      /\ keeps' = keeps \/ keeps' = [keeps EXCEPT ![u] = "none"]
      /\ hand' = {}
      /\ UNCHANGED <<kernel, leases, journals, active, team, history, counters>>
  BY <1>1 DEF ModelFails
<1>3. <<Complete(c, "failed"), Session(u, "failed"), Command("fail", m, u)>> \in Seq(PlainStep)
  <2>1. /\ Complete(c, "failed") \in PlainStep /\ Session(u, "failed") \in PlainStep
        /\ Command("fail", m, u) \in PlainStep
    BY <1>1, PlainTypes DEF AnyCommand, SessionStatus
  <2> QED BY <2>1
<1>4. script' \in Seq(Step) /\ Begun(script)'
  BY <1>2, <1>3, PlainScripts, Begins
<1>5. TypeOK' /\ TeamFits'
  BY <1>1, <1>2, FS_EmptySet DEF IInv, Typed, TeamFits, TypeOK, kernel, leases, journals, team,
     history, counters, faults
<1> QED BY <1>2, <1>4, <1>5, Quietly DEF leases, journals, history

(* The asking of an approval in the drive loop.                            *)
LEMMA AskedIsWhole ==
  ASSUME NEW m \in Mission, NEW c \in RunClaim, tool'[c.effect.unit] # "none"
  PROVE  <<Command("ask", m, c.effect.unit), Session(c.effect.unit, "waiting-approval"),
           Complete(c, "asked")>> \in WholeScripts'
<1> DEFINE u == c.effect.unit
<1>1. u \in Unit /\ c \in Claim
  BY ClaimFields DEF RunClaim
<1>2. PICK s : s = <<Command("ask", m, u), Session(u, "waiting-approval"), Complete(c, "asked")>>
  OBVIOUS
<1>3. /\ Session(u, "waiting-approval") \in Step /\ Command("ask", m, u) \in Step
      /\ Complete(c, "asked") \in Step
  BY <1>1, StepTypes DEF AnyCommand, SessionStatus, Outcomes, Recoverable
<1>4. /\ s \in Seq(Step) /\ Len(s) = 3 /\ s[1] = Command("ask", m, u)
      /\ s[2] = Session(u, "waiting-approval") /\ s[3] = Complete(c, "asked")
  BY <1>2, <1>3
<1>5. /\ s[1].do = "kernel" /\ s[1].command = "ask" /\ s[1].unit = u
      /\ s[2].do = "session"
      /\ s[3].do = "complete" /\ s[3].outcome = "asked" /\ s[3].claim = c
  BY <1>4 DEF Session, Command, Complete
<1>6. s \in WholeScripts'
  <2>1. Plain(s[1]) /\ Plain(s[2])
    BY <1>5 DEF Plain
  <2>2. s[3 - 1].do = "session" /\ Orders(s, 3 - 2, "ask", s[3].claim.effect.unit)
    BY <1>5 DEF Orders
  <2> QED BY <1>4, <1>5, <2>1, <2>2, WholeByStep
<1> QED BY <1>2, <1>6

LEMMA ModelAsksKeeps ==
  ASSUME IInv, ModelAsks PROVE IInv'
<1>1. PICK m \in Mission, c \in RunClaim, u \in Unit :
        m = Now.mission /\ c = Now.claim /\ u = c.effect.unit
  BY ModelRuns DEF ModelAsks
<1>2. script # <<>> /\ Now.do = "execute" /\ Now = Head(script) /\ Now = script[1]
      /\ script \in Seq(Step) /\ Begun(script)
  BY ModelRuns DEF ModelAsks, IInv, Typed
<1> DEFINE a == <<Command("ask", m, u), Session(u, "waiting-approval"), Complete(c, "asked")>>
           t == Tail(script)
<1>3. /\ tool' = [tool EXCEPT ![u] = "waiting"] /\ envelope' = [envelope EXCEPT ![u] = m]
      /\ keeps' = [keeps EXCEPT ![u] = "single"] /\ script' = a \o SubSeq(script, 3, Len(script))
      /\ rounds < MaxRound /\ rounds' = rounds + 1
      /\ UNCHANGED <<kernel, leases, session, active, hand, team, history, commands, crashes,
                     lapses>>
  BY <1>1 DEF ModelAsks
<1>4. MovesOn
  BY <1>1, <1>3 DEF IInv, Typed, TypeOK, MovesOn, Moved, kernel, history
<1>5. Len(script) > 1 /\ script[2].do = "drive"
  <2>1. IsDriven(script, 1)
    BY <1>2 DEF Begun
  <2> QED BY <1>2, <2>1 DEF IsDriven
<1>6. t \in WholeScripts'
  BY <1>2, <1>4, TailIsWhole
<1>7. t # <<>> /\ t[1].do = "drive" /\ Tail(t) = SubSeq(script, 3, Len(script))
  <2>1. t \in Seq(Step) /\ Len(t) = Len(script) - 1 /\ \A i \in 1..Len(t) : t[i] = script[i + 1]
    BY <1>2
  <2>2. Tail(t) = SubSeq(script, 3, Len(script))
    <3>1. t = SubSeq(script, 2, Len(script))
      BY <1>2, TailIsSubSeq
    <3>2. Tail(SubSeq(script, 2, Len(script))) = SubSeq(script, 2 + 1, Len(script))
      BY <1>2, <1>5, HeadTailOfSubSeq
    <3> QED BY <3>1, <3>2
  <2> HIDE DEF t
  <2>3. t # <<>> /\ t[1].do = "drive"
    BY <1>2, <1>5, <2>1
  <2> QED BY <2>2, <2>3
<1>8. Tail(t) \in WholeScripts'
  <2> HIDE DEF t
  <2>1. (\A s \in WholeScripts :
           s # <<>> /\ s[1].do \notin {"kernel", "session", "ask"} => Tail(s) \in WholeScripts)'
    BY TailsOfWhole
  <2>2. PICK r : r = t
    OBVIOUS
  <2> QED BY <1>6, <1>7, <2>1, <2>2
<1>9. a \in WholeScripts'
  <2>1. tool'[u] # "none"
    BY <1>3 DEF IInv, Typed, TypeOK
  <2> QED BY <1>1, <2>1, AskedIsWhole
<1>10. script' \in Seq(Step) /\ Begun(script)'
  BY <1>3, <1>7, <1>8, <1>9, WholeParts, Begins
<1>11. rounds' \in 0..MaxRound
  BY <1>3, BoundTypes DEF IInv, Typed, TypeOK
<1>12. Typed'
  BY <1>1, <1>3, <1>10, <1>11 DEF IInv, Typed, TeamFits, TypeOK, kernel, leases, team, history
<1>13. Books'
  BY <1>3, <1>4, BooksStay DEF IInv, kernel, leases
<1> QED BY <1>10, <1>12, <1>13 DEF IInv

(* A command of the user, which begins something new.                      *)
LEMMA CommandedTypes ==
  ASSUME IInv, Commanded
  PROVE  /\ script = <<>> /\ commands' \in 0..MaxCommand /\ UNCHANGED faults
BY BoundTypes DEF IInv, Typed, TypeOK, Commanded, Idle

LEMMA SubmitTaskKeeps ==
  ASSUME IInv, NEW m \in Mission, SubmitTask(m) PROVE IInv'
<1> DEFINE Part(u) == <<Command("start", m, u)>>
           S == UnitsOf(m)
           h == [u \in S |-> Part(u)]
           q == SetToSeq(S)
           a == <<MissionCommand("create", m), MissionCommand("plan", m)>>
           z == <<Drive(m), Finish(m)>>
<1>1. S \subseteq Unit /\ IsFiniteSet(S)
  BY TaskDriveAssumption, FS_Subset DEF UnitsOf
<1>2. h \in [S -> WholeScripts']
  <2>1. ASSUME NEW u \in S PROVE Part(u) \in WholeScripts'
    <3>1. Command("start", m, u) \in PlainStep
      BY <1>1, PlainTypes DEF AnyCommand
    <3>2. Part(u) \in Seq(PlainStep)
      BY <3>1
    <3> QED BY <3>2, PlainScripts
  <2> HIDE DEF Part, S
  <2> QED BY <2>1
<1>3. a \in WholeScripts' /\ z \in WholeScripts'
  <2>1. /\ MissionCommand("create", m) \in PlainStep /\ MissionCommand("plan", m) \in PlainStep
        /\ Drive(m) \in PlainStep /\ Finish(m) \in PlainStep
    BY PlainTypes
  <2>2. a \in Seq(PlainStep) /\ z \in Seq(PlainStep)
    BY <2>1
  <2> QED BY <2>2, PlainScripts
<1>4. script' = a \o FlattenSeq([i \in DOMAIN q |-> Part(q[i])]) \o z
  BY DEF SubmitTask, ForEach
<1> HIDE DEF S, Part, a, z
<1>5. [i \in DOMAIN q |-> Part(q[i])] = [i \in DOMAIN q |-> h[q[i]]]
  BY <1>1, SetToSeqType
<1>6. FlattenSeq([i \in DOMAIN q |-> h[q[i]]]) \in WholeScripts'
  <2> HIDE DEF h
  <2> QED BY <1>1, <1>2, ForEachIsWhole
<1>7. script' \in WholeScripts'
  BY <1>3, <1>4, <1>5, <1>6, WholeParts
<1>8. script' \in Seq(Step) /\ Begun(script)'
  BY <1>7, Begins
<1>9. TypeOK' /\ TeamFits'
  BY CommandedTypes DEF IInv, Typed, TeamFits, TypeOK, SubmitTask, kernel, leases, journals, team,
     history, faults
<1> QED BY <1>8, <1>9, Quietly DEF SubmitTask, kernel, leases, journals, history

LEMMA SubmitTeamKeeps ==
  ASSUME IInv, NEW m \in Mission, SubmitTeam(m) PROVE IInv'
<1> DEFINE a == <<MissionCommand("create", m), MissionCommand("plan", m)>>
<1>1. a \in WholeScripts'
  <2>1. MissionCommand("create", m) \in PlainStep /\ MissionCommand("plan", m) \in PlainStep
    BY PlainTypes
  <2>2. a \in Seq(PlainStep)
    BY <2>1
  <2> QED BY <2>2, PlainScripts
<1>2. Staff(m, UnitsOf(m)) \in WholeScripts'
  BY StaffIsWhole DEF UnitsOf
<1>3. script' = a \o Staff(m, UnitsOf(m))
  BY DEF SubmitTeam
<1>4. script' \in Seq(Step) /\ Begun(script)'
  BY <1>1, <1>2, <1>3, WholeParts, Begins
<1>5. TypeOK' /\ TeamFits'
  BY CommandedTypes DEF IInv, Typed, TeamFits, TypeOK, SubmitTeam, kernel, leases, journals, team,
     history, faults
<1> QED BY <1>4, <1>5, Quietly DEF SubmitTeam, kernel, leases, journals, history

LEMMA ResumeKeeps ==
  ASSUME IInv, Resume PROVE IInv'
<1>1. PICK m \in Mission : m = active
  BY DEF Resume, IInv, Typed, TypeOK
<1> DEFINE Part(u) == IF node[u] = "running"
                      THEN <<ClaimRun(u, {"start", "resume"}), Begin(m, u)>>
                      ELSE <<Fail>>
           S == {u \in UnitsOf(m) : session[u] = "running"}
           h == [u \in S |-> Part(u)]
           q == SetToSeq(S)
           z == <<Launch(m)>>
<1>2. S \subseteq Unit /\ IsFiniteSet(S)
  BY TaskDriveAssumption, FS_Subset DEF UnitsOf
<1>3. h \in [S -> WholeScripts']
  <2>1. ASSUME NEW u \in S PROVE Part(u) \in WholeScripts'
    <3>1. /\ ClaimRun(u, {"start", "resume"}) \in PlainStep /\ Begin(m, u) \in PlainStep
          /\ Fail \in PlainStep
      BY <1>2, PlainTypes
    <3>2. <<ClaimRun(u, {"start", "resume"}), Begin(m, u)>> \in Seq(PlainStep)
      BY <3>1
    <3>3. <<Fail>> \in Seq(PlainStep)
      BY <3>1
    <3> QED BY <3>2, <3>3, PlainScripts
  <2> HIDE DEF Part, S
  <2> QED BY <2>1
<1>4. z \in WholeScripts'
  <2>1. Launch(m) \in PlainStep
    BY PlainTypes
  <2>2. z \in Seq(PlainStep)
    BY <2>1
  <2> QED BY <2>2, PlainScripts
<1>5. script' = FlattenSeq([i \in DOMAIN q |-> Part(q[i])]) \o z
  BY <1>1 DEF Resume, ForEach
<1> HIDE DEF S, Part, z
<1>6. [i \in DOMAIN q |-> Part(q[i])] = [i \in DOMAIN q |-> h[q[i]]]
  BY <1>2, SetToSeqType
<1>7. FlattenSeq([i \in DOMAIN q |-> h[q[i]]]) \in WholeScripts'
  <2>1. PICK T, g : T = S /\ g = h
    OBVIOUS
  <2>2. FlattenSeq([i \in DOMAIN SetToSeq(T) |-> g[SetToSeq(T)[i]]]) \in WholeScripts'
    <3> HIDE DEF h
    <3> QED BY <1>2, <1>3, <2>1, ForEachIsWhole
  <2> QED BY <2>1, <2>2
<1>8. script' \in WholeScripts'
  BY <1>4, <1>5, <1>6, <1>7, WholeParts
<1>9. script' \in Seq(Step) /\ Begun(script)'
  BY <1>8, Begins
<1>10. TypeOK' /\ TeamFits'
  BY CommandedTypes DEF IInv, Typed, TeamFits, TypeOK, Resume, kernel, leases, journals, team,
     history, faults
<1> QED BY <1>9, <1>10, Quietly DEF Resume, kernel, leases, journals, history

LEMMA ApproveToolKeeps ==
  ASSUME IInv, NEW u \in Unit, ApproveTool(u) PROVE IInv'
<1>1. script' = <<RunTool(u)>> /\ tool[u] = "waiting" /\ UNCHANGED tool
  BY DEF ApproveTool, journals
<1>2. PICK s : s = <<RunTool(u)>>
  OBVIOUS
<1>3. s \in Seq(Step) /\ Len(s) = 1 /\ s[1].do = "tool" /\ s[1].unit = u
  <2>1. RunTool(u) \in Step
    BY StepTypes
  <2> QED BY <1>2, <2>1 DEF RunTool
<1>4. s \in WholeScripts'
  <2>1. tool'[s[1].unit] # "none"
    BY <1>1, <1>3
  <2> QED BY <1>3, <2>1, WholeByStep
<1>5. script' \in Seq(Step) /\ Begun(script)'
  BY <1>1, <1>2, <1>4, Begins
<1>6. TypeOK' /\ TeamFits'
  BY CommandedTypes DEF IInv, Typed, TeamFits, TypeOK, ApproveTool, kernel, leases, journals, team,
     history, faults
<1> QED BY <1>5, <1>6, Quietly DEF ApproveTool, kernel, leases, journals, history

LEMMA DenyToolKeeps ==
  ASSUME IInv, NEW u \in Unit, DenyTool(u) PROVE IInv'
<1>1. PICK m \in Mission : m = envelope[u]
  BY DEF DenyTool, IInv, Typed
<1>2. /\ tool[u] = "waiting" /\ tool' = [tool EXCEPT ![u] = "denied"]
      /\ keeps' = [keeps EXCEPT ![u] = "none"]
      /\ UNCHANGED <<kernel, leases, session, envelope, active, hand, team, history>>
  BY DEF DenyTool
<1>3. MovesOn
  BY <1>2 DEF IInv, Typed, TypeOK, MovesOn, Moved, kernel, history
<1>4. script' \in WholeScripts'
  <2>1. Command("deny", m, u) \in PlainStep /\ Session(u, "failed") \in PlainStep
    BY PlainTypes DEF AnyCommand, SessionStatus
  <2>2. PICK a, b : /\ a \in {<<Command("deny", m, u)>>, <<>>} /\ b \in {<<Session(u, "failed")>>, <<>>}
                    /\ script' = a \o b
    BY <1>1 DEF DenyTool
  <2>3. a \in Seq(PlainStep) /\ b \in Seq(PlainStep)
    <3>1. /\ <<Command("deny", m, u)>> \in Seq(PlainStep)
          /\ <<Session(u, "failed")>> \in Seq(PlainStep) /\ <<>> \in Seq(PlainStep)
      BY <2>1
    <3> QED BY <2>2, <3>1
  <2>4. a \in WholeScripts' /\ b \in WholeScripts'
    BY <2>3, PlainScripts
  <2> QED BY <2>2, <2>4, WholeParts
<1>5. script' \in Seq(Step) /\ Begun(script)'
  BY <1>4, Begins
<1>6. commands' \in 0..MaxCommand /\ UNCHANGED faults
  BY CommandedTypes DEF DenyTool
<1>7. Typed'
  BY <1>2, <1>5, <1>6 DEF IInv, Typed, TeamFits, TypeOK, kernel, leases, team, history, faults
<1>8. Books'
  BY <1>2, <1>3, BooksStay DEF IInv, kernel, leases
<1> QED BY <1>5, <1>7, <1>8 DEF IInv

LEMMA CancelCurrentKeeps ==
  ASSUME IInv, CancelCurrent PROVE IInv'
<1>1. TypeOK' /\ TeamFits'
  BY CommandedTypes DEF IInv, Typed, TeamFits, TypeOK, CancelCurrent, kernel, leases, journals,
     history, faults
<1>2. script' \in Seq(Step) /\ Begun(script)'
  <2>1. CASE script' = script
    BY <2>1, Stays DEF CancelCurrent, kernel, journals, history
  <2>2. CASE script' # script
    <3>1. PICK m \in Mission : m = active /\ script' = <<MissionCommand("cancel", m), Drive(m)>>
      BY <2>2 DEF CancelCurrent, IInv, Typed, TypeOK
    <3>2. MissionCommand("cancel", m) \in PlainStep /\ Drive(m) \in PlainStep
      BY PlainTypes
    <3>3. script' \in Seq(PlainStep)
      BY <3>1, <3>2
    <3> QED BY <3>3, PlainScripts, Begins
  <2> QED BY <2>1, <2>2
<1> QED BY <1>1, <1>2, Quietly DEF CancelCurrent, kernel, leases, journals, history

LEMMA CancelTaskKeeps ==
  ASSUME IInv, NEW u \in Unit, CancelTask(u) PROVE IInv'
<1>1. TypeOK' /\ TeamFits'
  BY CommandedTypes DEF IInv, Typed, TeamFits, TypeOK, CancelTask, kernel, leases, journals, faults
<1>2. script' \in Seq(Step) /\ Begun(script)'
  <2>1. CASE script' = script
    BY <2>1, Stays DEF CancelTask, kernel, journals
  <2>2. CASE script' # script
    <3>1. PICK m \in Mission : /\ m = active
                               /\ script' = <<Command("drop", m, u), Drive(m)>>
      BY <2>2, TaskDriveAssumption DEF CancelTask, IInv, Typed, TypeOK
    <3>2. Command("drop", m, u) \in PlainStep /\ Drive(m) \in PlainStep
      BY PlainTypes DEF AnyCommand
    <3>3. script' \in Seq(PlainStep)
      BY <3>1, <3>2
    <3> QED BY <3>3, PlainScripts, Begins
  <2> QED BY <2>1, <2>2
<1> QED BY <1>1, <1>2, Quietly DEF CancelTask, kernel, leases, journals

(* What a member of a team leaves to be done is whole, however it ended.   *)
LEMMA SettleIsWhole ==
  ASSUME NEW m \in Mission, NEW c \in RunClaim, NEW o \in Outcome, NEW isDropped \in BOOLEAN,
         ~isDropped /\ o = "ok" => m \in workedFor'[c.effect.unit]
  PROVE  Settle(m, c, o, isDropped) \in WholeScripts'
<1> DEFINE u == c.effect.unit
<1>1. u \in Unit /\ c \in Claim
  BY ClaimFields DEF RunClaim
<1>2. /\ Complete(c, "dropped") \in PlainStep /\ Complete(c, "failed") \in PlainStep
      /\ Command("drop", m, u) \in PlainStep /\ Command("fail", m, u) \in PlainStep
      /\ Session(u, "failed") \in PlainStep /\ Session(u, "running") \in PlainStep
      /\ Session(u, "waiting-tool") \in PlainStep /\ Retain(c) \in PlainStep /\ Fail \in PlainStep
  BY <1>1, PlainTypes DEF AnyCommand, SessionStatus, Recoverable
<1>3. CASE isDropped
  <2>1. Settle(m, c, o, isDropped) = <<Complete(c, "dropped"), Command("drop", m, u)>>
    BY <1>3 DEF Settle
  <2>2. <<Complete(c, "dropped"), Command("drop", m, u)>> \in Seq(PlainStep)
    BY <1>2
  <2> QED BY <2>1, <2>2, PlainScripts
<1>4. CASE ~isDropped /\ o = "ok"
  BY <1>4, SubmittedIsWhole DEF Settle
<1>5. CASE ~isDropped /\ o = "error"
  <2>1. Settle(m, c, o, isDropped) =
          <<Session(u, "failed"), Command("fail", m, u), Complete(c, "failed")>>
    BY <1>5 DEF Settle
  <2>2. <<Session(u, "failed"), Command("fail", m, u), Complete(c, "failed")>> \in Seq(PlainStep)
    BY <1>2
  <2> QED BY <2>1, <2>2, PlainScripts
<1>6. CASE ~isDropped /\ o = "yield"
  <2>1. Settle(m, c, o, isDropped) =
          <<Session(u, "waiting-tool"), Session(u, "running"), Retain(c)>>
    BY <1>6 DEF Settle
  <2>2. <<Session(u, "waiting-tool"), Session(u, "running"), Retain(c)>> \in Seq(PlainStep)
    BY <1>2
  <2> QED BY <2>1, <2>2, PlainScripts
<1>7. CASE ~isDropped /\ o = "cut"
  <2>1. Settle(m, c, o, isDropped) = <<Fail>>
    BY <1>7 DEF Settle
  <2>2. <<Fail>> \in Seq(PlainStep)
    BY <1>2
  <2> QED BY <2>1, <2>2, PlainScripts
<1>8. CASE ~isDropped /\ o = "snag"
  <2>1. Settle(m, c, o, isDropped) = <<Session(u, "waiting-tool"), Fail>>
    BY <1>8 DEF Settle
  <2>2. <<Session(u, "waiting-tool"), Fail>> \in Seq(PlainStep)
    BY <1>2
  <2> QED BY <2>1, <2>2, PlainScripts
<1>9. CASE ~isDropped /\ o = "ask"
  <2>1. PICK s : s = <<Session(u, "waiting-tool"), Ask(m, u), Command("ask", m, u),
                       Session(u, "waiting-approval"), Complete(c, "asked"), Keep(u, "team")>>
    OBVIOUS
  <2>2. /\ Session(u, "waiting-tool") \in Step /\ Ask(m, u) \in Step /\ Command("ask", m, u) \in Step
        /\ Session(u, "waiting-approval") \in Step /\ Complete(c, "asked") \in Step
        /\ Keep(u, "team") \in Step
    BY <1>1, StepTypes DEF AnyCommand, SessionStatus, Recoverable, Outcomes
  <2>3. /\ s \in Seq(Step) /\ Len(s) = 6 /\ s[1] = Session(u, "waiting-tool") /\ s[2] = Ask(m, u)
        /\ s[3] = Command("ask", m, u) /\ s[4] = Session(u, "waiting-approval")
        /\ s[5] = Complete(c, "asked") /\ s[6] = Keep(u, "team")
    BY <2>1, <2>2
  <2>4. /\ s[1].do = "session" /\ s[2].do = "ask" /\ s[2].unit = u
        /\ s[3].do = "kernel" /\ s[3].command = "ask" /\ s[3].unit = u
        /\ s[4].do = "session"
        /\ s[5].do = "complete" /\ s[5].outcome = "asked" /\ s[5].claim = c
        /\ s[6].do = "keep"
    BY <2>3 DEF Session, Ask, Command, Complete, Keep
  <2>5. s \in WholeScripts'
    <3>1. Plain(s[1]) /\ Plain(s[2]) /\ Plain(s[3]) /\ Plain(s[4]) /\ Plain(s[6])
      BY <2>4 DEF Plain
    <3>2. /\ s[5 - 1].do = "session" /\ Orders(s, 5 - 2, "ask", s[5].claim.effect.unit)
          /\ \E j \in 1..(5 - 1) : s[j].do = "ask" /\ s[j].unit = s[5].claim.effect.unit
      BY <2>4 DEF Orders
    <3> QED BY <2>3, <2>4, <3>1, <3>2, WholeByStep
  <2>6. Settle(m, c, o, isDropped) = s
    BY <1>9, <2>1 DEF Settle
  <2> QED BY <2>5, <2>6
<1> QED BY <1>3, <1>4, <1>5, <1>6, <1>7, <1>8, <1>9 DEF Outcome

LEMMA TeamReturnsKeeps ==
  ASSUME IInv, NEW o \in [{c.effect.unit : c \in claims} -> Outcome], TeamReturns(o)
  PROVE  IInv'
<1>1. PICK m \in Mission : m = teamOf
  BY DEF TeamReturns, IInv, Typed, TypeOK
<1>2. PICK S, D : S = claims /\ D = dropped
  OBVIOUS
<1>3. IsFiniteSet(S) /\ S \subseteq RunClaim /\ \A c \in S : o[c.effect.unit] \in Outcome
  BY <1>2 DEF IInv, Typed, TeamFits
<1>4. /\ workedFor' = [u \in Unit |->
                         IF \E c \in S : c.effect.unit = u /\ o[u] = "ok"
                         THEN workedFor[u] \cup {m} ELSE workedFor[u]]
      /\ claims' = {} /\ teamOf' = NoMission /\ dropped' = {}
      /\ UNCHANGED <<kernel, leases, journals, active, hand, dropAll, keeps, promised,
                     commands, crashes, lapses>>
  BY <1>1, <1>2 DEF TeamReturns
<1>5. MovesOn
  BY <1>4 DEF IInv, Typed, TypeOK, MovesOn, Moved, kernel, journals
<1> DEFINE Part(c) == Settle(m, c, o[c.effect.unit], c.effect.unit \in D)
           h == [c \in S |-> Part(c)]
           q == SetToSeq(S)
           z == <<Drive(m), Regroup(m)>>
<1>6. h \in [S -> WholeScripts']
  <2>1. ASSUME NEW c \in S PROVE Part(c) \in WholeScripts'
    <3>1. c.effect.unit \in Unit /\ c \in RunClaim
      BY <1>3, ClaimFields DEF RunClaim
    <3>2. o[c.effect.unit] = "ok" => m \in workedFor'[c.effect.unit]
      BY <1>4, <3>1 DEF IInv, Typed, TypeOK
    <3>3. PICK k \in Outcome : k = o[c.effect.unit]
      BY <1>3
    <3>4. CASE c.effect.unit \in D
      <4>1. Settle(m, c, k, TRUE) \in WholeScripts'
        BY <3>1, SettleIsWhole
      <4> QED BY <3>3, <3>4, <4>1 DEF Settle
    <3>5. CASE c.effect.unit \notin D
      <4>1. Settle(m, c, k, FALSE) \in WholeScripts'
        BY <3>1, <3>2, <3>3, SettleIsWhole
      <4>2. (c.effect.unit \in D) = FALSE
        BY <3>5
      <4> QED BY <3>3, <4>1, <4>2, Zenon
    <3> QED BY <3>4, <3>5
  <2> HIDE DEF Part
  <2> QED BY <2>1
<1>7. z \in WholeScripts'
  <2>1. Drive(m) \in PlainStep /\ Regroup(m) \in PlainStep
    BY PlainTypes
  <2>2. z \in Seq(PlainStep)
    BY <2>1
  <2> QED BY <2>2, PlainScripts
<1>8. script' = FlattenSeq([i \in DOMAIN q |-> Part(q[i])]) \o z
  BY <1>1, <1>2 DEF TeamReturns, ForEach
<1> HIDE DEF Part, z
<1>9. [i \in DOMAIN q |-> Part(q[i])] = [i \in DOMAIN q |-> h[q[i]]]
  BY <1>3, SetToSeqType
<1>10. FlattenSeq([i \in DOMAIN q |-> h[q[i]]]) \in WholeScripts'
  <2> HIDE DEF h
  <2> QED BY <1>3, <1>6, ForEachIsWhole
<1>11. script' \in Seq(Step) /\ Begun(script)'
  BY <1>7, <1>8, <1>9, <1>10, WholeParts, Begins
<1>12. rounds' \in 0..MaxRound
  <2>1. PICK Again : /\ Again \subseteq S /\ rounds' = rounds + Cardinality(Again)
                     /\ rounds + Cardinality(Again) <= MaxRound
    BY <1>2 DEF TeamReturns
  <2>2. Cardinality(Again) \in Nat
    BY <1>3, <2>1, FS_Subset, FS_CardinalityType
  <2> QED BY <2>1, <2>2, BoundTypes DEF IInv, Typed, TypeOK
<1>13. workedFor' \in [Unit -> SUBSET Mission]
  <2>1. \A u \in Unit : workedFor[u] \cup {m} \subseteq Mission /\ workedFor[u] \subseteq Mission
    BY DEF IInv, Typed, TypeOK
  <2> QED BY <1>4, <2>1
<1>14. Typed'
  BY <1>4, <1>11, <1>12, <1>13, FS_EmptySet DEF IInv, Typed, TeamFits, TypeOK, kernel, leases, journals
<1>15. Books'
  BY <1>4, <1>5, BooksStay DEF IInv, kernel, leases
<1> QED BY <1>11, <1>14, <1>15 DEF IInv

LEMMA TeamStopsKeeps ==
  ASSUME IInv, TeamStops PROVE IInv'
<1>1. PICK m, S : m \in Mission /\ m = teamOf /\ S = claims
  BY DEF TeamStops, IInv, Typed, TypeOK
<1>2. IsFiniteSet(S) /\ S \subseteq RunClaim
  BY <1>1 DEF IInv, Typed, TeamFits
<1> DEFINE Part(c) == <<Complete(c, "dropped")>>
           h == [c \in S |-> Part(c)]
           q == SetToSeq(S)
           z == <<MissionCommand("cancel", m), Drive(m)>>
<1>3. h \in [S -> WholeScripts']
  <2>1. ASSUME NEW c \in S PROVE Part(c) \in WholeScripts'
    <3>1. Complete(c, "dropped") \in PlainStep
      BY <1>2, PlainTypes DEF RunClaim
    <3>2. Part(c) \in Seq(PlainStep)
      BY <3>1
    <3> QED BY <3>2, PlainScripts
  <2> HIDE DEF Part
  <2> QED BY <2>1
<1>4. z \in WholeScripts'
  <2>1. MissionCommand("cancel", m) \in PlainStep /\ Drive(m) \in PlainStep
    BY <1>1, PlainTypes
  <2>2. z \in Seq(PlainStep)
    BY <2>1
  <2> QED BY <2>2, PlainScripts
<1>5. script' = FlattenSeq([i \in DOMAIN q |-> Part(q[i])]) \o z
  BY <1>1 DEF TeamStops, ForEach
<1> HIDE DEF Part, z
<1>6. [i \in DOMAIN q |-> Part(q[i])] = [i \in DOMAIN q |-> h[q[i]]]
  BY <1>2, SetToSeqType
<1>7. FlattenSeq([i \in DOMAIN q |-> h[q[i]]]) \in WholeScripts'
  <2> HIDE DEF h
  <2> QED BY <1>2, <1>3, ForEachIsWhole
<1>8. script' \in Seq(Step) /\ Begun(script)'
  BY <1>4, <1>5, <1>6, <1>7, WholeParts, Begins
<1>9. TypeOK' /\ TeamFits'
  BY FS_EmptySet DEF IInv, Typed, TeamFits, TypeOK, TeamStops, kernel, leases, journals, history,
     counters, faults
<1> QED BY <1>8, <1>9, Quietly DEF TeamStops, kernel, leases, journals, history

-----------------------------------------------------------------------------
LEMMA InitHolds ==
  ASSUME Init PROVE IInv
<1> USE DEF Init
<1>1. TypeOK
  <2>1. commands \in 0..MaxCommand /\ crashes \in 0..MaxCrash /\ lapses \in 0..MaxLapse
        /\ rounds \in 0..MaxRound
    BY BoundTypes
  <2>2. outbox \in Seq(Effect)
    OBVIOUS
  <2>3. workedFor \in [Unit -> SUBSET Mission]
    OBVIOUS
  <2> QED BY <2>1, <2>2, <2>3 DEF TypeOK, Live, Recoverable
<1>2. TeamFits
  BY FS_EmptySet DEF TeamFits
<1>3. Begun(script)
  BY DEF Begun
<1>4. Books
  BY TaskDriveAssumption DEF Books, Eff, Effect, Kind
<1> QED BY <1>1, <1>2, <1>3, <1>4 DEF IInv, Typed

LEMMA NextKeeps ==
  ASSUME IInv, [Next]_vars PROVE IInv'
<1>1. CASE Go
  BY <1>1, ApplyCommandKeeps, ApplyMissionCommandKeeps, FinishMissionKeeps, DriveEffectsKeeps,
     ClaimForTeamKeeps, CompleteEffectKeeps, FindNodeKeeps, BeginAgentRunKeeps, SetSessionKeeps,
     ModelFinishesKeeps, ModelFailsKeeps, ModelAsksKeeps, LaunchTeamKeeps, NextWaveKeeps,
     RetainClaimKeeps, RegroupTeamKeeps, GiveUpKeeps, AskForToolKeeps, KeepContinuationKeeps,
     ToolCompletesKeeps, ToolFailsKeeps DEF Go
<1>2. CASE Returns
  BY <1>2, TeamReturnsKeeps, TeamStopsKeeps DEF Returns
<1>3. CASE UserCommand
  BY <1>3, SubmitTaskKeeps, SubmitTeamKeeps, ApproveToolKeeps, DenyToolKeeps, CancelTaskKeeps,
     ResumeKeeps, CancelCurrentKeeps DEF UserCommand
<1>4. CASE \E e \in Effect : LapseOrphan(e) \/ LapseEarly(e)
  BY <1>4, LapseKeeps
<1>5. CASE Crash
  BY <1>5, CrashKeeps
<1>6. CASE UNCHANGED vars
  BY <1>6, StutterKeeps
<1> QED BY <1>1, <1>2, <1>3, <1>4, <1>5, <1>6 DEF Next

(* Through every command, answer of the model, crash and lapse the script  *)
(* under way stays backed by the state and the books stay in order.        *)
THEOREM Invariance == Spec => []IInv
<1>1. Init => IInv
  BY InitHolds
<1>2. IInv /\ [Next]_vars => IInv'
  BY NextKeeps
<1> QED BY <1>1, <1>2, PTL DEF Spec

(* Every variable stays within its type.                                   *)
THEOREM Types == Spec => []TypeOK
<1>1. IInv => TypeOK
  BY DEF IInv, Typed
<1> QED BY Invariance, <1>1, PTL

(* What is submitted was done for its own mission, although the drive loop *)
(* serves the effects of every mission.                                    *)
THEOREM OwnWork == Spec => []OwnWorkOnly
<1>1. IInv => OwnWorkOnly
  BY DEF IInv, Books, OwnWorkOnly
<1> QED BY Invariance, <1>1, PTL

(* An effect is recorded as done only when the kernel has moved its node.  *)
THEOREM DoneIsMoved == Spec => []DoneMeansMoved
<1>1. IInv => DoneMeansMoved
  BY DEF IInv, Books, DoneMeansMoved, Moved, Kind
<1> QED BY Invariance, <1>1, PTL

(* A running node always has an effect that stands for it.                 *)
THEOREM RunningOwed == Spec => []RunningIsOwed
<1>1. IInv => RunningIsOwed
  BY DEF IInv, Books, RunningIsOwed
<1> QED BY Invariance, <1>1, PTL

-----------------------------------------------------------------------------
(* Each mission is an execution of its own work graph.                     *)

LEMMA GraphsBegin ==
  ASSUME Init PROVE \A m \in Mission : Dag(m)!Init
<1> SUFFICES ASSUME NEW m \in Mission PROVE Dag(m)!Init
  OBVIOUS
<1>1. \A u \in UnitsOf(m) : StageOf(node[u]) = "none"
  <2>1. StageOf("absent") = "none"
    BY DEF StageOf, Live
  <2>2. \A u \in UnitsOf(m) : node[u] = "absent"
    BY DEF Init, UnitsOf
  <2> QED BY <2>1, <2>2
<1>2. (mission[m] = "completed") = FALSE
  BY DEF Init
<1> QED BY <1>1, <1>2 DEF Dag!Init

(* How far a node of each status has come.                                 *)
LEMMA Stages ==
  /\ StageOf("absent") = "none" /\ StageOf("queued") = "todo"
  /\ \A s \in Live : StageOf(s) = "doing"
  /\ StageOf("accepted") = "done"
  /\ StageOf("failed") = "dead" /\ StageOf("cancelled") = "dead"
<1>1. StageOf("absent") = "none" /\ StageOf("queued") = "todo"
  BY DEF StageOf, Live
<1>2. \A s \in Live : StageOf(s) = "doing"
  BY DEF StageOf, Live
<1>3. StageOf("accepted") = "done"
  BY DEF StageOf, Live
<1>4. StageOf("failed") = "dead" /\ StageOf("cancelled") = "dead"
  BY DEF StageOf, Live
<1> QED BY <1>1, <1>2, <1>3, <1>4

LEMMA GraphStays ==
  ASSUME NEW m \in Mission, \A u \in UnitsOf(m) : StageOf(node'[u]) = StageOf(node[u]),
         mission'[m] = "completed" <=> mission[m] = "completed"
  PROVE  UNCHANGED Dag(m)!dagVars
BY DEF Dag!dagVars, UnitsOf

(* One node moves on, or is given up.                                      *)
LEMMA GraphMoves ==
  ASSUME IInv, NEW u \in Unit, NEW m \in Mission, m = missionOf[u], UNCHANGED mission,
         NEW s, node' = [node EXCEPT ![u] = s], StageOf(node[u]) \in {"todo", "doing"},
         \/ StageOf(node[u]) = "todo" /\ StageOf(s) = "doing"
         \/ StageOf(node[u]) = "doing" /\ StageOf(s) = "done"
         \/ StageOf(s) = "dead"
  PROVE  Dag(m)!Next
<1>1. u \in UnitsOf(m) /\ UnitsOf(m) \subseteq Unit
  BY DEF UnitsOf
<1>2. mission[m] # "completed"
  <2>1. mission[m] = "completed" => node[u] = "accepted"
    BY DEF IInv, Books
  <2> QED BY <2>1, Stages
<1> DEFINE before == [v \in UnitsOf(m) |-> StageOf(node[v])]
           after == [v \in UnitsOf(m) |-> StageOf(node'[v])]
<1>3. before' = after
  BY DEF UnitsOf
<1>4. \A v \in UnitsOf(m) : node'[v] = IF v = u THEN s ELSE node[v]
  BY <1>1 DEF IInv, Typed, TypeOK
<1>5. after = [before EXCEPT ![u] = StageOf(s)] /\ before[u] = StageOf(node[u])
  <2>1. before[u] = StageOf(node[u])
    BY <1>1
  <2>2. \A v \in UnitsOf(m) : after[v] = IF v = u THEN StageOf(s) ELSE before[v]
    BY <1>4
  <2>3. after = [v \in UnitsOf(m) |-> after[v]] /\ before = [v \in UnitsOf(m) |-> before[v]]
    OBVIOUS
  <2> HIDE DEF before, after
  <2> QED BY <2>1, <2>2, <2>3
<1>6. CASE StageOf(node[u]) = "todo" /\ StageOf(s) = "doing"
  <2>1. Dag(m)!Begin(u)
    BY <1>3, <1>5, <1>6, <1>1 DEF Dag!Begin, UnitsOf
  <2> QED BY <1>1, <1>2, <2>1 DEF Dag!Next
<1>7. CASE StageOf(node[u]) = "doing" /\ StageOf(s) = "done"
  <2>1. Dag(m)!Finish(u)
    BY <1>3, <1>5, <1>7, <1>1 DEF Dag!Finish, UnitsOf
  <2> QED BY <1>1, <1>2, <2>1 DEF Dag!Next
<1>8. CASE StageOf(s) = "dead"
  <2>1. Dag(m)!Abandon
    <3>1. {u} \in SUBSET {v \in UnitsOf(m) : before[v] \in {"todo", "doing"}}
      BY <1>1, <1>5
    <3>2. after = [v \in UnitsOf(m) |-> IF v \in {u} THEN "dead" ELSE before[v]]
      BY <1>1, <1>4, <1>8
    <3> QED BY <1>3, <3>1, <3>2 DEF Dag!Abandon, UnitsOf
  <2> QED BY <1>2, <2>1 DEF Dag!Next
<1> QED BY <1>6, <1>7, <1>8

LEMMA CommandIsInGraph ==
  ASSUME IInv, ApplyCommand, NEW m \in Mission
  PROVE  Dag(m)!Next \/ UNCHANGED Dag(m)!dagVars
<1>1. script # <<>> /\ Now.do = "kernel"
  BY DEF ApplyCommand, Doing, Now
<1>2. PICK c \in AnyCommand, u \in Unit : c = Now.command /\ u = Now.unit
  BY <1>1, NowIsStep, StepFields
<1>3. CASE UNCHANGED node
  BY <1>3, GraphStays DEF ApplyCommand, kernel
<1>4. CASE node' # node
  <2>1. node' = [node EXCEPT ![u] = To[c]] /\ node[u] \in From[c] /\ UNCHANGED mission
    BY <1>2, <1>4 DEF ApplyCommand, kernel
  <2>2. node \in [Unit -> Live \cup {"absent", "queued", "accepted", "failed", "cancelled"}]
    BY DEF IInv, Typed, TypeOK
  <2>3. CASE missionOf[u] # m
    <3>1. \A v \in UnitsOf(m) : node'[v] = node[v]
      BY <2>1, <2>2, <2>3 DEF UnitsOf
    <3> QED BY <2>1, <3>1, GraphStays
  <2>4. CASE missionOf[u] = m /\ c \in {"submit", "ask", "allow"}
    <3>1. node[u] \in Live /\ To[c] \in Live
      BY <2>1, <2>4 DEF From, To, Live
    <3>2. \A v \in UnitsOf(m) : node'[v] = IF v = u THEN To[c] ELSE node[v]
      BY <2>1, <2>2 DEF UnitsOf
    <3>3. \A v \in UnitsOf(m) : StageOf(node'[v]) = StageOf(node[v])
      BY <3>1, <3>2, Stages
    <3> QED BY <2>1, <3>3, GraphStays
  <2>5. CASE missionOf[u] = m /\ c \in {"start", "accept", "fail", "deny", "drop"}
    <3>1. \/ node[u] = "queued" /\ To[c] = "running"
          \/ node[u] \in Live /\ To[c] = "accepted"
          \/ node[u] \in Live \cup {"queued"} /\ To[c] \in {"failed", "cancelled"}
      BY <2>1, <2>5 DEF From, To, Live
    <3>2. PICK s : s = To[c]
      OBVIOUS
    <3>3. \/ StageOf(node[u]) = "todo" /\ StageOf(s) = "doing"
          \/ StageOf(node[u]) = "doing" /\ StageOf(s) = "done"
          \/ StageOf(node[u]) \in {"todo", "doing"} /\ StageOf(s) = "dead"
      BY <3>1, <3>2, Stages DEF Live
    <3>4. Dag(m)!Next
      BY <2>1, <2>5, <3>2, <3>3, GraphMoves
    <3> QED BY <3>4
  <2> QED BY <1>2, <2>3, <2>4, <2>5 DEF AnyCommand
<1> QED BY <1>3, <1>4

LEMMA MissionCommandIsInGraph ==
  ASSUME IInv, ApplyMissionCommand, NEW m \in Mission
  PROVE  Dag(m)!Next \/ UNCHANGED Dag(m)!dagVars
<1>1. script # <<>> /\ Now.do = "mission"
  BY DEF ApplyMissionCommand, Doing, Now
<1>2. PICK w \in Mission : w = Now.mission
  BY <1>1, NowIsStep, StepFields
<1>3. /\ node \in [Unit -> Live \cup {"absent", "queued", "accepted", "failed", "cancelled"}]
      /\ mission \in [Mission -> {"none", "new", "running", "completed", "cancelled"}]
  BY DEF IInv, Typed, TypeOK
<1> DEFINE before == [v \in UnitsOf(m) |-> StageOf(node[v])]
           after == [v \in UnitsOf(m) |-> StageOf(node'[v])]
<1>4. before' = after
  BY DEF UnitsOf
<1>5. CASE mission[w] = "none" /\ mission' = [mission EXCEPT ![w] = "new"] /\ UNCHANGED node
  <2>1. mission'[m] = "completed" <=> mission[m] = "completed"
    BY <1>3, <1>5
  <2> QED BY <1>5, <2>1, GraphStays
<1>6. CASE /\ mission[w] = "new" /\ mission' = [mission EXCEPT ![w] = "running"]
           /\ node' = [u \in Unit |-> IF u \in UnitsOf(w) THEN "queued" ELSE node[u]]
  <2>1. CASE m # w
    <3>1. \A u \in UnitsOf(m) : node'[u] = node[u]
      BY <1>6, <2>1 DEF UnitsOf
    <3>2. mission'[m] = mission[m]
      BY <1>3, <1>6, <2>1
    <3> QED BY <3>1, <3>2, GraphStays
  <2>2. CASE m = w
    <3>1. \A u \in UnitsOf(m) : node[u] = "absent" /\ node'[u] = "queued"
      BY <1>6, <2>2 DEF IInv, Books, UnitsOf
    <3>2. \A u \in UnitsOf(m) : StageOf(node[u]) = "none" /\ StageOf(node'[u]) = "todo"
      BY <3>1, Stages
    <3>3. mission[m] = "new" /\ mission'[m] = "running"
      BY <1>3, <1>6, <2>2
    <3>4. Dag(m)!Grow
      <4> DEFINE deps == [u \in UnitsOf(m) |-> {}]
      <4>1. Dag(m)!Added = {}
        BY <3>2 DEF Dag!Added
      <4>2. deps \in [UnitsOf(m) -> SUBSET (Dag(m)!Added \cup UnitsOf(m))]
        OBVIOUS
      <4>3. UnitsOf(m) \in SUBSET (UnitsOf(m) \ Dag(m)!Added)
        BY <4>1
      <4>4. after = [u \in UnitsOf(m) |-> IF u \in UnitsOf(m) THEN "todo" ELSE before[u]]
        BY <3>2
      <4>5. deps' = [u \in UnitsOf(m) |-> IF u \in UnitsOf(m) THEN deps[u] ELSE deps[u]]
        BY DEF UnitsOf
      <4>6. \A S \in SUBSET (Dag(m)!Added \cup UnitsOf(m)) :
              S # {} => \E u \in S : deps'[u] \cap S = {}
        BY <4>1, <4>5
      <4>7. (mission[m] = "completed")' = (mission[m] = "completed")
        BY <3>3
      <4> SUFFICES \E New \in SUBSET (UnitsOf(m) \ Dag(m)!Added) :
                   \E d \in [New -> SUBSET (Dag(m)!Added \cup New)] :
                     /\ before' = [u \in UnitsOf(m) |-> IF u \in New THEN "todo" ELSE before[u]]
                     /\ deps' = [u \in UnitsOf(m) |-> IF u \in New THEN d[u] ELSE deps[u]]
                     /\ \A S \in SUBSET (Dag(m)!Added \cup New) :
                          S # {} => \E u \in S : deps'[u] \cap S = {}
                     /\ (mission[m] = "completed")' = (mission[m] = "completed")
        BY DEF Dag!Grow
      <4> WITNESS UnitsOf(m) \in SUBSET (UnitsOf(m) \ Dag(m)!Added)
      <4> WITNESS deps \in [UnitsOf(m) -> SUBSET (Dag(m)!Added \cup UnitsOf(m))]
      <4> QED BY <1>4, <4>4, <4>5, <4>6, <4>7
    <3> QED BY <3>3, <3>4 DEF Dag!Next
  <2> QED BY <2>1, <2>2
<1>7. CASE mission[w] \in {"new", "running"} /\ Now.command = "cancel"
  <2>1. PICK L : L = {u \in UnitsOf(w) : node[u] \in Live \cup {"queued"}}
    OBVIOUS
  <2>2. /\ mission' = [mission EXCEPT ![w] = "cancelled"]
        /\ node' = [u \in Unit |-> IF u \in L THEN "cancelled" ELSE node[u]]
    BY <1>2, <1>7, <2>1 DEF ApplyMissionCommand
  <2>3. CASE m # w
    <3>1. \A u \in UnitsOf(m) : node'[u] = node[u]
      BY <2>1, <2>2, <2>3 DEF UnitsOf
    <3>2. mission'[m] = mission[m]
      BY <1>3, <2>2, <2>3
    <3> QED BY <3>1, <3>2, GraphStays
  <2>4. CASE m = w
    <3>1. mission[m] # "completed" /\ mission'[m] = "cancelled"
      BY <1>3, <1>7, <2>2, <2>4
    <3>2. Dag(m)!Abandon
      <4>1. L \in SUBSET {u \in UnitsOf(m) : before[u] \in {"todo", "doing"}}
        BY <2>1, <2>4, Stages
      <4>2. after = [u \in UnitsOf(m) |-> IF u \in L THEN "dead" ELSE before[u]]
        <5>1. \A u \in UnitsOf(m) : node'[u] = IF u \in L THEN "cancelled" ELSE node[u]
          BY <2>2 DEF UnitsOf
        <5> QED BY <5>1, Stages
      <4>3. (mission[m] = "completed")' = (mission[m] = "completed")
        BY <3>1
      <4> QED BY <1>4, <4>1, <4>2, <4>3 DEF Dag!Abandon, UnitsOf
    <3> QED BY <3>1, <3>2 DEF Dag!Next
  <2> QED BY <2>3, <2>4
<1>8. CASE UNCHANGED <<kernel, leases>>
  BY <1>8, GraphStays DEF kernel
<1> QED BY <1>2, <1>5, <1>6, <1>7, <1>8 DEF ApplyMissionCommand

LEMMA FinishIsInGraph ==
  ASSUME IInv, FinishMission, NEW m \in Mission
  PROVE  Dag(m)!Next \/ UNCHANGED Dag(m)!dagVars
<1>1. script # <<>> /\ Now.do = "finish"
  BY DEF FinishMission, Doing, Now
<1>2. PICK w \in Mission : w = Now.mission
  BY <1>1, NowIsStep, StepFields
<1>3. mission \in [Mission -> {"none", "new", "running", "completed", "cancelled"}]
  BY DEF IInv, Typed, TypeOK
<1>4. UNCHANGED node
  BY DEF FinishMission
<1>5. CASE /\ mission[w] = "running" /\ \A u \in UnitsOf(w) : node[u] = "accepted"
           /\ mission' = [mission EXCEPT ![w] = "completed"] /\ m = w
  <2>1. mission[m] # "completed" /\ mission'[m] = "completed"
    BY <1>3, <1>5
  <2>2. \A u \in UnitsOf(m) : StageOf(node[u]) = "done"
    BY <1>5, Stages
  <2>3. UnitsOf(m) # {}
    BY TaskDriveAssumption DEF UnitsOf
  <2>4. Dag(m)!Complete
    <3>1. Dag(m)!Added # {}
      BY <2>2, <2>3 DEF Dag!Added
    <3>2. \A u \in Dag(m)!Added : StageOf(node[u]) = "done" /\ u \in UnitsOf(m)
      BY <2>2 DEF Dag!Added
    <3>3. (mission[m] = "completed")' = TRUE
      BY <2>1
    <3> QED BY <1>4, <3>1, <3>2, <3>3 DEF Dag!Complete, UnitsOf
  <2> QED BY <2>1, <2>4 DEF Dag!Next
<1>6. CASE mission' = mission
  BY <1>4, <1>6, GraphStays
<1>7. CASE mission' = [mission EXCEPT ![w] = "completed"] /\ m # w
  <2>1. mission'[m] = mission[m]
    BY <1>3, <1>7
  <2> QED BY <1>4, <2>1, GraphStays
<1> QED BY <1>2, <1>5, <1>6, <1>7 DEF FinishMission

(* No other step moves a node or a mission.                                *)
LEMMA KernelStays ==
  ASSUME [Next]_vars, ~ApplyCommand, ~ApplyMissionCommand, ~FinishMission
  PROVE  UNCHANGED <<node, mission>>
<1> USE DEF kernel
<1>1. CASE DriveEffects \/ ClaimForTeam \/ CompleteEffect \/ FindNode \/ BeginAgentRun \/ SetSession
  BY <1>1 DEF DriveEffects, ClaimForTeam, CompleteEffect, FindNode, BeginAgentRun, SetSession
<1>2. CASE ModelFinishes \/ ModelFails \/ ModelAsks \/ LaunchTeam \/ NextWave \/ RetainClaim
  BY <1>2 DEF ModelFinishes, ModelFails, ModelAsks, LaunchTeam, NextWave, RetainClaim
<1>3. CASE RegroupTeam \/ GiveUp \/ AskForTool \/ KeepContinuation \/ ToolCompletes \/ ToolFails
  BY <1>3 DEF RegroupTeam, GiveUp, AskForTool, KeepContinuation, ToolCompletes, ToolFails
<1>4. CASE Returns
  BY <1>4 DEF Returns, TeamReturns, TeamStops
<1>5. CASE UserCommand
  BY <1>5 DEF UserCommand, SubmitTask, SubmitTeam, ApproveTool, DenyTool, CancelTask, Resume,
              CancelCurrent
<1>6. CASE \/ \E e \in Effect : LapseOrphan(e) \/ LapseEarly(e)
           \/ Crash
  BY <1>6 DEF LapseOrphan, LapseEarly, Crash
<1>7. CASE UNCHANGED vars
  BY <1>7 DEF vars
<1> QED BY <1>1, <1>2, <1>3, <1>4, <1>5, <1>6, <1>7 DEF Next, Go

(* Through crashes, recovery and foreign drivers each mission remains an   *)
(* execution of its own work graph.                                        *)
THEOREM Refinement == Spec => ImplementsDags
<1> DEFINE InGraph(m) == Dag(m)!Next \/ UNCHANGED Dag(m)!dagVars
<1>1. Init => \A m \in Mission : Dag(m)!Init
  BY GraphsBegin
<1>2. IInv /\ [Next]_vars => \A m \in Mission : InGraph(m)
  <2> SUFFICES ASSUME IInv, [Next]_vars, NEW m \in Mission PROVE InGraph(m)
    OBVIOUS
  <2>1. CASE ApplyCommand
    BY <2>1, CommandIsInGraph
  <2>2. CASE ApplyMissionCommand
    BY <2>2, MissionCommandIsInGraph
  <2>3. CASE FinishMission
    BY <2>3, FinishIsInGraph
  <2>4. CASE ~ApplyCommand /\ ~ApplyMissionCommand /\ ~FinishMission
    BY <2>4, KernelStays, GraphStays
  <2> QED BY <2>1, <2>2, <2>3, <2>4
<1>3. IInv /\ [Next]_vars => [\A m \in Mission : InGraph(m)]_vars
  BY <1>2
<1>4. Spec => [][\A m \in Mission : InGraph(m)]_vars
  BY Invariance, <1>3, PTL DEF Spec
<1> QED BY <1>1, <1>4 DEF Spec, ImplementsDags
=============================================================================
