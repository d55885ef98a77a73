--------------------------- MODULE DeliveryProofs ---------------------------
(***************************************************************************)
(* Proofs about what is handed over and answered.  First the outbox, for   *)
(* any number of effects, reports and runners, and however many crashes    *)
(* and early expiries the bound allows (module Outbox).  Then calls and    *)
(* their answers, composed as in MCDelivery and for every instance of it   *)
(* that its assumption allows: calls over pipes (Rpc), over HTTP           *)
(* (HttpSession), and the turns of a model over three streaming protocols  *)
(* (ModelTurn).  Each of these parts has an inductive invariant of its     *)
(* own: the other parts leave it alone.                                    *)
(***************************************************************************)
EXTENDS MCDelivery, FiniteSetTheorems, SequenceTheorems, TLAPS

-----------------------------------------------------------------------------
(* The outbox                                                              *)

(* A runner beyond its claim knows a token already given out, reports only *)
(* what it has done, and what is recorded has been done.                   *)
Bookkeeping ==
  /\ \A r \in Runner :
       phase[r] # "idle" => job[r] \in Effect
  /\ \A r \in Runner :
       phase[r] \in {"working", "reporting", "acked"} =>
         ticket[r] <= attempt[job[r]] /\ row[job[r]] # "absent"
  /\ \A r \in Runner :
       phase[r] \in {"reporting", "acked"} => report[r] \in performed[job[r]]
  /\ \A e \in Effect :
       /\ row[e] = "settled" <=> result[e] # NoReport
       /\ row[e] = "settled" => result[e] \in performed[e]
       /\ row[e] = "absent" => performed[e] = {}

IInv == TypeOK /\ Bookkeeping /\ OneHolder /\ AckMeansRecorded

(* Nothing is handed over at the start.                                    *)
LEMMA InitIInv == Init => IInv
  BY OutboxAssumption
  DEF OutboxAssumption, Init, IInv, TypeOK, Phase, Bookkeeping, OneHolder,
      AckMeansRecorded, Holds

(* Every step keeps the types.                                             *)
LEMMA TypeStep == IInv /\ [Next]_vars => TypeOK'
  <1> SUFFICES ASSUME TypeOK, Bookkeeping, [Next]_vars PROVE TypeOK'
    BY DEF IInv
  <1> USE OutboxAssumption
      DEF OutboxAssumption, TypeOK, Phase, store, runners, Upset
  <1>1. ASSUME NEW New \in SUBSET Effect, CommitEffects(New)
        PROVE  TypeOK'
    BY <1>1 DEF CommitEffects
  <1>2. ASSUME NEW e \in Effect, LapseOrphan(e) \/ LapseEarly(e)
        PROVE  TypeOK'
    <2>1. lapsed' \in [Effect -> BOOLEAN]
      BY <1>2, Zenon DEF LapseOrphan, LapseEarly
    <2>2. upsets' \in 0..MaxUpset
      BY <1>2 DEF LapseOrphan, LapseEarly
    <2>3. QED
      BY <1>2, <2>1, <2>2 DEF LapseOrphan, LapseEarly
  <1>3. ASSUME NEW r \in Runner, NEW e \in Effect, List(r, e) \/ MissClaim(r, e)
        PROVE  TypeOK'
    BY <1>3 DEF List, MissClaim
  <1>4. ASSUME NEW r \in Runner, NEW e \in Effect, Claim(r, e)
        PROVE  TypeOK'
    BY <1>4 DEF Claim
  <1>5. ASSUME NEW r \in Runner, NEW e \in Effect, NEW v \in Report, Perform(r, e, v)
        PROVE  TypeOK'
    BY <1>5 DEF Perform
  <1>6. ASSUME NEW r \in Runner, NEW e \in Effect,
               Complete(r, e) \/ CompleteUnheard(r, e)
        PROVE  TypeOK'
    BY <1>6 DEF Complete, CompleteUnheard, Fence
  <1>7. ASSUME NEW r \in Runner, NEW e \in Effect,
               CompleteAgain(r, e) \/ CompleteRefused(r, e)
        PROVE  TypeOK'
    BY <1>7 DEF CompleteAgain, CompleteRefused
  <1>8. ASSUME NEW r \in Runner, Crash(r)
        PROVE  TypeOK'
    BY <1>8 DEF Crash
  <1>9. CASE UNCHANGED vars
    BY <1>9 DEF vars
  <1>10. QED
    BY <1>1, <1>2, <1>3, <1>4, <1>5, <1>6, <1>7, <1>8, <1>9 DEF Next, Step

(* Every step keeps the books: a claim gives out a token of its own, and   *)
(* only what was performed is reported.                                    *)
LEMMA BookkeepingStep == IInv /\ [Next]_vars => Bookkeeping'
  <1> SUFFICES ASSUME TypeOK, Bookkeeping, [Next]_vars PROVE Bookkeeping'
    BY DEF IInv
  <1> USE OutboxAssumption
      DEF OutboxAssumption, TypeOK, Bookkeeping, store, runners
  <1>1. ASSUME NEW New \in SUBSET Effect, CommitEffects(New)
        PROVE  Bookkeeping'
    BY <1>1 DEF CommitEffects
  <1>2. ASSUME NEW e \in Effect, LapseOrphan(e) \/ LapseEarly(e)
        PROVE  Bookkeeping'
    BY <1>2 DEF LapseOrphan, LapseEarly
  <1>3. ASSUME NEW r \in Runner, NEW e \in Effect, List(r, e) \/ MissClaim(r, e)
        PROVE  Bookkeeping'
    BY <1>3 DEF List, MissClaim
  <1>4. ASSUME NEW r \in Runner, NEW e \in Effect, Claim(r, e)
        PROVE  Bookkeeping'
    BY <1>4 DEF Claim, Claimable
  <1>5. ASSUME NEW r \in Runner, NEW e \in Effect, NEW v \in Report, Perform(r, e, v)
        PROVE  Bookkeeping'
    BY <1>5 DEF Perform
  <1>6. ASSUME NEW r \in Runner, NEW e \in Effect,
               Complete(r, e) \/ CompleteUnheard(r, e)
        PROVE  Bookkeeping'
    <2>1. report[r] \in performed[e] /\ report[r] # NoReport
      <3>1. report[r] \in performed[e]
        BY <1>6 DEF Complete, CompleteUnheard
      <3>2. QED
        BY <3>1
    <2>2. /\ row' = [row EXCEPT ![e] = "settled"]
          /\ result' = [result EXCEPT ![e] = report[r]]
          /\ \/ phase' = [phase EXCEPT ![r] = "acked"]
             \/ phase' = phase
          /\ phase[r] = "reporting" /\ job[r] = e
          /\ UNCHANGED <<attempt, performed, job, ticket, report>>
      BY <1>6 DEF Complete, CompleteUnheard
    <2>3. /\ \A q \in Runner : phase'[q] # "idle" => job'[q] \in Effect
          /\ \A q \in Runner : phase'[q] \in {"working", "reporting", "acked"} =>
               ticket'[q] <= attempt'[job'[q]] /\ row'[job'[q]] # "absent"
          /\ \A q \in Runner :
               phase'[q] \in {"reporting", "acked"} => report'[q] \in performed'[job'[q]]
      BY <2>2
    <2>4. \A d \in Effect :
            /\ row'[d] = "settled" <=> result'[d] # NoReport
            /\ row'[d] = "settled" => result'[d] \in performed'[d]
            /\ row'[d] = "absent" => performed'[d] = {}
      BY <2>1, <2>2
    <2>5. QED
      BY ONLY <2>3, <2>4 DEF Bookkeeping
  <1>7. ASSUME NEW r \in Runner, NEW e \in Effect,
               CompleteAgain(r, e) \/ CompleteRefused(r, e)
        PROVE  Bookkeeping'
    BY <1>7 DEF CompleteAgain, CompleteRefused
  <1>8. ASSUME NEW r \in Runner, Crash(r)
        PROVE  Bookkeeping'
    BY <1>8 DEF Crash
  <1>9. CASE UNCHANGED vars
    BY <1>9 DEF vars
  <1>10. QED
    BY <1>1, <1>2, <1>3, <1>4, <1>5, <1>6, <1>7, <1>8, <1>9 DEF Next, Step

(* A new claim makes every token given out before it worthless.            *)
LEMMA HolderStep == IInv /\ [Next]_vars => OneHolder'
  <1> SUFFICES ASSUME TypeOK, Bookkeeping, OneHolder, [Next]_vars PROVE OneHolder'
    BY DEF IInv
  <1> USE DEF TypeOK, OneHolder, Holds, store, runners
  <1>1. ASSUME NEW r \in Runner, NEW e \in Effect, Claim(r, e)
        PROVE  OneHolder'
    <2>1. \A q \in Runner : q # r =>
            (phase[q] \in {"working", "reporting"} /\ job[q] = e => ticket[q] < attempt'[e])
      BY <1>1 DEF Claim, Bookkeeping
    <2>2. QED
      BY <1>1, <2>1 DEF Claim
  <1>2. ASSUME UNCHANGED <<attempt, job, ticket>>,
               \A r \in Runner : phase'[r] \in {"working", "reporting"} =>
                                   phase[r] \in {"working", "reporting"}
        PROVE  OneHolder'
    BY <1>2
  <1>3. ASSUME NEW r \in Runner, NEW e \in Effect, List(r, e)
        PROVE  OneHolder'
    BY <1>3 DEF List
  <1>4. ASSUME NEW r \in Runner, Crash(r)
        PROVE  OneHolder'
    BY <1>4 DEF Crash
  <1>5. ASSUME NEW New \in SUBSET Effect, CommitEffects(New)
        PROVE  OneHolder'
    BY <1>2, <1>5 DEF CommitEffects
  <1>6. ASSUME NEW e \in Effect, LapseOrphan(e) \/ LapseEarly(e)
        PROVE  OneHolder'
    BY <1>2, <1>6 DEF LapseOrphan, LapseEarly
  <1>7. ASSUME NEW r \in Runner, NEW e \in Effect,
               MissClaim(r, e) \/ (\E v \in Report : Perform(r, e, v))
               \/ Complete(r, e) \/ CompleteUnheard(r, e)
               \/ CompleteAgain(r, e) \/ CompleteRefused(r, e)
        PROVE  OneHolder'
    BY <1>7 DEF MissClaim, Perform, Complete, CompleteUnheard, CompleteAgain,
                CompleteRefused
  <1>8. CASE UNCHANGED vars
    BY <1>8 DEF vars
  <1>9. QED
    BY <1>1, <1>3, <1>4, <1>5, <1>6, <1>7, <1>8 DEF Next, Step

(* What a runner was told is recorded is never replaced.                   *)
LEMMA AckStep == IInv /\ [Next]_vars => AckMeansRecorded'
  <1> SUFFICES ASSUME TypeOK, Bookkeeping, AckMeansRecorded, [Next]_vars
               PROVE  AckMeansRecorded'
    BY DEF IInv
  <1> USE DEF TypeOK, AckMeansRecorded, store, runners
  <1>1. ASSUME NEW r \in Runner, NEW e \in Effect,
               Complete(r, e) \/ CompleteUnheard(r, e)
        PROVE  AckMeansRecorded'
    <2>1. \A q \in Runner : phase[q] = "acked" => job[q] # e
      <3>1. result[e] = NoReport
        BY <1>1 DEF Complete, CompleteUnheard, Fence, Bookkeeping
      <3>2. \A q \in Runner : phase[q] = "acked" => result[job[q]] # NoReport
        <4>1. \A q \in Runner : phase[q] = "acked" => report[q] \in Report
          BY DEF Bookkeeping
        <4>2. QED
          BY <4>1, OutboxAssumption DEF OutboxAssumption
      <3>3. QED
        BY <3>1, <3>2
    <2>2. QED
      BY <1>1, <2>1 DEF Complete, CompleteUnheard, Bookkeeping
  <1>2. ASSUME NEW r \in Runner, NEW e \in Effect, CompleteAgain(r, e)
        PROVE  AckMeansRecorded'
    BY <1>2 DEF CompleteAgain, Replayed
  <1>3. ASSUME NEW r \in Runner, NEW e \in Effect,
               List(r, e) \/ Claim(r, e) \/ MissClaim(r, e)
               \/ (\E v \in Report : Perform(r, e, v)) \/ CompleteRefused(r, e)
        PROVE  AckMeansRecorded'
    BY <1>3 DEF List, Claim, MissClaim, Perform, CompleteRefused
  <1>4. ASSUME NEW r \in Runner, Crash(r)
        PROVE  AckMeansRecorded'
    BY <1>4 DEF Crash
  <1>5. ASSUME NEW New \in SUBSET Effect, CommitEffects(New)
        PROVE  AckMeansRecorded'
    BY <1>5 DEF CommitEffects
  <1>6. ASSUME NEW e \in Effect, LapseOrphan(e) \/ LapseEarly(e)
        PROVE  AckMeansRecorded'
    BY <1>6 DEF LapseOrphan, LapseEarly
  <1>7. CASE UNCHANGED vars
    BY <1>7 DEF vars
  <1>8. QED
    BY <1>1, <1>2, <1>3, <1>4, <1>5, <1>6, <1>7 DEF Next, Step

(* The invariant is inductive.                                             *)
LEMMA NextIInv == IInv /\ [Next]_vars => IInv'
  BY TypeStep, BookkeepingStep, HolderStep, AckStep DEF IInv

(* Every reachable state of the outbox satisfies the inductive invariant.  *)
THEOREM Invariance == Spec => []IInv
  <1>1. Init => IInv
    BY InitIInv
  <1>2. IInv /\ [Next]_vars => IInv'
    BY NextIInv
  <1>3. QED
    BY <1>1, <1>2, PTL DEF Spec

(* Whatever the runners do, rows and results stay within their types.      *)
THEOREM TypeCorrect == Spec => []TypeOK
  <1>1. IInv => TypeOK
    BY DEF IInv
  <1>2. QED
    BY <1>1, Invariance, PTL

(* At most one runner can have its report of an effect accepted.           *)
THEOREM Exclusive == Spec => []OneHolder
  <1>1. IInv => OneHolder
    BY DEF IInv
  <1>2. QED
    BY <1>1, Invariance, PTL

(* complete_effect never answers Ok for a report that was not recorded.    *)
THEOREM Acknowledged == Spec => []AckMeansRecorded
  <1>1. IInv => AckMeansRecorded
    BY DEF IInv
  <1>2. QED
    BY <1>1, Invariance, PTL

-----------------------------------------------------------------------------
(* Outbox implements EffectLedger.                                         *)

(* Each step of the outbox is a step of the ledger, or none.               *)
LEMMA LedgerStep == IInv /\ [Next]_vars => [Ledger!Next]_(Ledger!ledgerVars)
  <1> SUFFICES ASSUME TypeOK, Bookkeeping, [Next]_vars
               PROVE  Ledger!Next \/ UNCHANGED Ledger!ledgerVars
    BY DEF IInv
  <1> DEFINE owed == {e \in Effect : row[e] # "absent"}
  <1> USE DEF TypeOK, store, runners
  <1>1. ASSUME UNCHANGED <<result, performed>>, owed' = owed
        PROVE  UNCHANGED Ledger!ledgerVars
    BY <1>1 DEF Ledger!ledgerVars
  <1>2. ASSUME NEW New \in SUBSET Effect, CommitEffects(New)
        PROVE  Ledger!Next
    <2>1. New \cap owed = {} /\ owed' = owed \cup New /\ UNCHANGED <<performed, result>>
      BY <1>2 DEF CommitEffects
    <2>2. QED
      BY <2>1 DEF Ledger!Next, Ledger!Owe
  <1>3. ASSUME NEW r \in Runner, NEW e \in Effect, NEW v \in Report, Perform(r, e, v)
        PROVE  Ledger!Next
    <2>1. e \in owed /\ UNCHANGED <<row, result>>
          /\ performed' = [performed EXCEPT ![e] = @ \cup {v}]
      BY <1>3 DEF Perform, Bookkeeping
    <2>2. owed' = owed
      BY <2>1
    <2>3. QED
      BY <2>1, <2>2 DEF Ledger!Next, Ledger!Perform
  <1>4. ASSUME NEW r \in Runner, NEW e \in Effect,
               Complete(r, e) \/ CompleteUnheard(r, e)
        PROVE  Ledger!Next
    <2>1. /\ row[e] = "claimed" /\ result[e] = NoReport
          /\ report[r] \in performed[e] /\ report[r] \in Report
          /\ result' = [result EXCEPT ![e] = report[r]]
          /\ row' = [row EXCEPT ![e] = "settled"]
          /\ UNCHANGED performed
      BY <1>4 DEF Complete, CompleteUnheard, Fence, Bookkeeping
    <2>2. owed' = owed
      BY <2>1
    <2>3. QED
      BY <2>1, <2>2 DEF Ledger!Next, Ledger!Enter
  <1>5. ASSUME NEW r \in Runner, NEW e \in Effect,
               List(r, e) \/ Claim(r, e) \/ MissClaim(r, e)
               \/ CompleteAgain(r, e) \/ CompleteRefused(r, e)
        PROVE  UNCHANGED Ledger!ledgerVars
    <2>1. UNCHANGED <<result, performed>>
          /\ \A d \in Effect : row'[d] = "absent" <=> row[d] = "absent"
      BY <1>5 DEF List, Claim, MissClaim, CompleteAgain, CompleteRefused, Claimable
    <2>2. QED
      BY <1>1, <2>1
  <1>6. ASSUME NEW r \in Runner, Crash(r)
        PROVE  UNCHANGED Ledger!ledgerVars
    BY <1>1, <1>6 DEF Crash
  <1>7. ASSUME NEW e \in Effect, LapseOrphan(e) \/ LapseEarly(e)
        PROVE  UNCHANGED Ledger!ledgerVars
    BY <1>1, <1>7 DEF LapseOrphan, LapseEarly
  <1>8. CASE UNCHANGED vars
    BY <1>1, <1>8 DEF vars
  <1> HIDE DEF store, runners
  <1>9. CASE Next
    BY ONLY <1>2, <1>3, <1>4, <1>5, <1>6, <1>7, <1>9 DEF Next, Step
  <1>10. QED
    BY <1>8, <1>9

(* To the outside the outbox is an EffectLedger: each effect gets at most  *)
(* one verdict, one that really happened, and keeps it.                    *)
THEOREM Refinement == Spec => ImplementsLedger
  <1>1. Init => Ledger!Init
    BY DEF Init, Ledger!Init
  <1>2. IInv /\ [Next]_vars => [Ledger!Next]_(Ledger!ledgerVars)
    BY LedgerStep
  <1>3. QED
    BY <1>1, <1>2, Invariance, PTL DEF Spec, ImplementsLedger, Ledger!LedgerSpec

-----------------------------------------------------------------------------
(* Calls over pipes                                                        *)

(* What the pipes carry: a call has the number it was given, an answer the *)
(* number of the call it answers, and the rest no caller's number.         *)
Mail == [kind : {"request", "answer", "note", "ask", "junk", "other"},
         of : Nat, what : Nat]
Numbered(m) == m.kind \in {"request", "answer"} => m.of \in Calls!Id /\ m.what = m.of

InputFits ==
  /\ input \in Seq(Mail) /\ Len(input) <= Room
  /\ \A i \in DOMAIN input : Numbered(input[i])
OutputFits ==
  /\ output \in Seq(Mail) /\ Len(output) <= Room
  /\ \A i \in DOMAIN output : Numbered(output[i])

CallTypes ==
  /\ next \in 1..(MaxCall + 1)
  /\ pending \subseteq Calls!Id \X Caller
  /\ step \in [Caller -> {"idle", "send", "write", "wait", "late", "cancel", "notify"}]
  /\ mine \in [Caller -> 0..MaxCall]
  /\ turn \in [Caller -> 0..MaxCall]
  /\ slot \in [Caller -> 0..(MaxCall + 1)]
  /\ took \in [Caller -> 0..(MaxCall + 1)]
  /\ holder \in Caller \cup {NoCaller, Reader}
  /\ InputFits /\ OutputFits
  /\ work \subseteq Calls!Id \X Calls!Id /\ \A w \in work : w[1] = w[2]
  /\ child \in BOOLEAN
  /\ reader \in {"reading", "asked", "answer", "ended"}
  /\ queue \in Seq(Nat) /\ Len(queue) <= MaxQueue
  /\ noted \in Nat
  /\ closing \in {"open", "flagged", "shut", "closed"}

(* A number is given once, so the call under it is the one that waits.  A   *)
(* sender is left only for a call under way that has not got its answer,   *)
(* and what has been put into a channel is the answer to the call in it.   *)
CallBooks ==
  /\ \A c \in Caller :
       /\ turn[c] = mine[c] /\ mine[c] < next
       /\ step[c] # "idle" => mine[c] # 0
       /\ slot[c] \in {0, MaxCall + 1, mine[c]}
       /\ step[c] = "idle" => took[c] \in {0, MaxCall + 1, mine[c]}
  /\ \A c, d \in Caller : mine[c] = mine[d] => c = d \/ mine[c] = 0
  /\ \A e \in pending :
       /\ mine[e[2]] = e[1]
       /\ step[e[2]] \in {"send", "write", "wait", "late"}
       /\ slot[e[2]] = 0

(* The newest notification is the last one kept, or was polled.            *)
NewestKept ==
  /\ queue # <<>> => queue[Len(queue)] = heard
  /\ queue = <<>> /\ heard # 0 => seen = heard

CallInv == CallTypes /\ CallBooks /\ NewestKept

(* At the start nobody calls and every pipe is empty.                      *)
LEMMA CallsStart == Calls!Init => CallInv
BY InstanceAssumption DEF Calls!Init, CallInv, CallTypes, InputFits, OutputFits, CallBooks,
   NewestKept, Calls!Id,
  Calls!Nothing, Calls!Failure

(* What is taken from a pipe leaves the rest in it.                        *)
LEMMA TakeMail ==
  ASSUME NEW p \in Seq(Mail), p # <<>>, \A i \in DOMAIN p : Numbered(p[i])
  PROVE  /\ Head(p) \in Mail /\ Numbered(Head(p)) /\ Tail(p) \in Seq(Mail)
         /\ Len(Tail(p)) = Len(p) - 1 /\ Len(p) \in Nat \ {0}
         /\ \A i \in DOMAIN Tail(p) : Numbered(Tail(p)[i])
<1>1. Len(p) \in Nat \ {0} /\ Head(p) = p[1] /\ Tail(p) \in Seq(Mail)
      /\ Len(Tail(p)) = Len(p) - 1
      /\ \A i \in 1..(Len(p) - 1) : Tail(p)[i] = p[i + 1]
  BY HeadTailProperties
<1>2. p[1] \in Mail /\ Numbered(p[1])
  BY <1>1
<1>3. \A i \in DOMAIN Tail(p) : i \in 1..(Len(p) - 1) /\ i + 1 \in DOMAIN p
  BY <1>1
<1> QED
  BY <1>1, <1>2, <1>3

(* What is put into a pipe comes after the rest.                           *)
LEMMA PutMail ==
  ASSUME NEW p \in Seq(Mail), NEW m \in Mail, Numbered(m),
         \A i \in DOMAIN p : Numbered(p[i])
  PROVE  /\ Append(p, m) \in Seq(Mail) /\ Len(Append(p, m)) = Len(p) + 1
         /\ Len(p) \in Nat
         /\ \A i \in DOMAIN Append(p, m) : Numbered(Append(p, m)[i])
<1>1. /\ Append(p, m) \in Seq(Mail) /\ Len(Append(p, m)) = Len(p) + 1 /\ Len(p) \in Nat
      /\ \A i \in 1..Len(p) : Append(p, m)[i] = p[i]
      /\ Append(p, m)[Len(p) + 1] = m
  BY AppendProperties
<1>2. \A i \in DOMAIN Append(p, m) : i \in 1..Len(p) \/ i = Len(p) + 1
  BY <1>1
<1> QED
  BY <1>1, <1>2

(* The messages of the server and the transport that are no calls.         *)
LEMMA OtherMail ==
  /\ Calls!Ask \in Mail /\ Calls!Junk \in Mail /\ Calls!Other \in Mail
  /\ Numbered(Calls!Ask) /\ Numbered(Calls!Junk) /\ Numbered(Calls!Other)
  /\ \A n \in Nat : Calls!Note(n) \in Mail /\ Numbered(Calls!Note(n))
  /\ \A i \in Calls!Id : \A k \in {"request", "answer"} :
       Calls!Message(k, i, i) \in Mail /\ Numbered(Calls!Message(k, i, i))
BY InstanceAssumption DEF Calls!Ask, Calls!Junk, Calls!Other, Calls!Note, Calls!Message,
  Mail, Numbered, Calls!Id

(* Both pipes, after something was put into them.                          *)
LEMMA PutFits ==
  ASSUME NEW m \in Mail, Numbered(m)
  PROVE  /\ InputFits /\ Len(input) < Room /\ input' = Append(input, m) => InputFits'
         /\ OutputFits /\ Len(output) < Room /\ output' = Append(output, m) => OutputFits'
<1>1. Room \in Nat
  BY InstanceAssumption
<1>2. ASSUME InputFits, Len(input) < Room, input' = Append(input, m) PROVE InputFits'
  <2>1. /\ Append(input, m) \in Seq(Mail) /\ Len(Append(input, m)) = Len(input) + 1
        /\ Len(input) \in Nat
        /\ \A i \in DOMAIN Append(input, m) : Numbered(Append(input, m)[i])
    BY <1>2, PutMail DEF InputFits
  <2> QED
    BY <1>1, <1>2, <2>1 DEF InputFits
<1>3. ASSUME OutputFits, Len(output) < Room, output' = Append(output, m) PROVE OutputFits'
  <2>1. /\ Append(output, m) \in Seq(Mail) /\ Len(Append(output, m)) = Len(output) + 1
        /\ Len(output) \in Nat
        /\ \A i \in DOMAIN Append(output, m) : Numbered(Append(output, m)[i])
    BY <1>3, PutMail DEF OutputFits
  <2> QED
    BY <1>1, <1>3, <2>1 DEF OutputFits
<1> QED
  BY <1>2, <1>3

(* A new call takes a number nobody has, and leaves its sender under it.    *)
LEMMA CallKeeps ==
  ASSUME CallInv, NEW c \in Caller, Calls!Call(c) PROVE CallInv'
<1> USE DEF Calls!Id
<1>1. /\ step[c] = "idle" /\ next \in 1..MaxCall /\ next' = next + 1
      /\ turn' = [turn EXCEPT ![c] = next] /\ mine' = [mine EXCEPT ![c] = next]
      /\ pending' = pending \cup {<<next, c>>}
      /\ slot' = [slot EXCEPT ![c] = 0] /\ step' = [step EXCEPT ![c] = "send"]
      /\ UNCHANGED <<took, holder, input, work, child, noted, output, reader, queue, seen,
                     heard, closing>>
  BY DEF Calls!Call, Calls!Go, Calls!server, Calls!notes, Calls!Nothing, CallInv, CallTypes
<1>2. MaxCall \in Nat /\ next + 1 \in 1..(MaxCall + 1)
  BY <1>1, InstanceAssumption
<1>3. CallTypes'
  <2>1. next' \in 1..(MaxCall + 1) /\ pending' \subseteq (1..MaxCall) \X Caller
    BY <1>1, <1>2 DEF CallInv, CallTypes
  <2>2. /\ mine' \in [Caller -> 0..MaxCall] /\ turn' \in [Caller -> 0..MaxCall]
        /\ slot' \in [Caller -> 0..(MaxCall + 1)]
    BY <1>1, <1>2 DEF CallInv, CallTypes
  <2>3. step' \in [Caller -> {"idle", "send", "write", "wait", "late", "cancel", "notify"}]
    BY <1>1 DEF CallInv, CallTypes
  <2> QED
    BY <1>1, <2>1, <2>2, <2>3 DEF CallInv, CallTypes, InputFits, OutputFits
<1>4. \A e \in pending : e[2] # c /\ e \in Calls!Id \X Caller
  BY <1>1 DEF CallInv, CallTypes, CallBooks
<1>5. \A e \in pending' :
        /\ mine'[e[2]] = e[1] /\ step'[e[2]] \in {"send", "write", "wait", "late"}
        /\ slot'[e[2]] = 0
  BY <1>1, <1>4 DEF CallInv, CallTypes, CallBooks
<1>6. \A d, e \in Caller : mine'[d] = mine'[e] => d = e \/ mine'[d] = 0
  BY <1>1 DEF CallInv, CallTypes, CallBooks
<1>7. \A d \in Caller :
        /\ turn'[d] = mine'[d] /\ mine'[d] < next'
        /\ step'[d] # "idle" => mine'[d] # 0
        /\ slot'[d] \in {0, MaxCall + 1, mine'[d]}
        /\ step'[d] = "idle" => took'[d] \in {0, MaxCall + 1, mine'[d]}
  BY <1>1 DEF CallInv, CallTypes, CallBooks
<1> QED
  BY <1>1, <1>3, <1>5, <1>6, <1>7 DEF CallInv, CallBooks, NewestKept

(* So does every further step of a call.                                   *)
LEMMA CallStepKeeps ==
  ASSUME CallInv, NEW c \in Caller, Calls!CallStep(c) PROVE CallInv'
<1> USE DEF CallInv, CallTypes, CallBooks, NewestKept, Calls!Go, Calls!Id, Calls!server,
            Calls!notes, Calls!Nothing, Calls!Failure, Calls!Without
<1>0. MaxCall \in Nat
  BY InstanceAssumption
<1>1. CASE Calls!Acquire(c)
  BY <1>1 DEF Calls!Acquire, InputFits, OutputFits
<1>2. CASE Calls!Write(c)
  <2> DEFINE m == Calls!Message("request", mine[c], turn[c])
  <2>1. mine[c] \in 1..MaxCall /\ turn[c] = mine[c]
    BY <1>0, <1>2 DEF Calls!Write
  <2>2. m \in Mail /\ Numbered(m)
    BY <2>1, OtherMail
  <2> HIDE DEF m
  <2>3. /\ input' = Append(input, m) /\ Len(input) < Room
        /\ step' = [step EXCEPT ![c] = "wait"] /\ holder' = NoCaller
        /\ UNCHANGED <<next, mine, turn, took, pending, slot, work, child, noted, output,
                       reader, queue, seen, heard, closing>>
    BY <1>2 DEF Calls!Write, m
  <2>4. InputFits'
    BY ONLY <2>2, <2>3, InputFits, PutFits
  <2> QED
    BY SMTT(30), <1>2, <2>1, <2>3, <2>4 DEF Calls!Write, OutputFits
<1>3. CASE Calls!Unsent(c)
  BY SMTT(30), <1>0, <1>3 DEF Calls!Unsent, InputFits, OutputFits
<1>4. CASE Calls!Receive(c)
  BY <1>0, <1>4 DEF Calls!Receive, InputFits, OutputFits
<1>5. CASE Calls!TimeOut(c)
  BY <1>5 DEF Calls!TimeOut, InputFits, OutputFits
<1>6. CASE Calls!DropSender(c)
  BY <1>6 DEF Calls!DropSender, InputFits, OutputFits
<1>7. CASE Calls!AcquireToCancel(c)
  BY <1>7 DEF Calls!AcquireToCancel, InputFits, OutputFits
<1>8. CASE Calls!Cancel(c)
  <2>1. InputFits'
    <3>1. CASE UNCHANGED input
      BY <3>1 DEF InputFits
    <3>2. CASE Len(input) < Room /\ input' = Append(input, Calls!Other)
      BY ONLY <3>2, InputFits, PutFits, OtherMail
    <3> QED
      BY <1>8, <3>1, <3>2 DEF Calls!Cancel
  <2> QED
    BY SMTT(30), <1>0, <1>8, <2>1 DEF Calls!Cancel, OutputFits
<1> QED
  BY <1>1, <1>2, <1>3, <1>4, <1>5, <1>6, <1>7, <1>8 DEF Calls!CallStep

(* The server answers what it was asked, in any order.                     *)
LEMMA ServerKeeps ==
  ASSUME CallInv, Calls!ServerReads \/ Calls!ServerWrites \/ Calls!ServerExits \/ Calls!Poll
  PROVE  CallInv'
<1> USE DEF CallInv, CallTypes, CallBooks, NewestKept, Calls!Id, Calls!callers, Calls!notes
<1>1. CASE Calls!ServerReads
  <2>1. /\ input # <<>> /\ input' = Tail(input)
        /\ work' = IF Head(input).kind = "request"
                     THEN work \cup {<<Head(input).of, Head(input).what>>} ELSE work
        /\ UNCHANGED <<next, step, mine, turn, took, pending, slot, holder, child, noted,
                       output, reader, queue, seen, heard, closing>>
    BY ONLY <1>1, Zenon DEF Calls!ServerReads, Calls!callers, Calls!notes
  <2>2. /\ Numbered(Head(input)) /\ Head(input) \in Mail /\ Tail(input) \in Seq(Mail)
        /\ Len(Tail(input)) = Len(input) - 1 /\ Len(input) \in Nat
        /\ \A i \in DOMAIN Tail(input) : Numbered(Tail(input)[i])
    BY <2>1, TakeMail DEF InputFits
  <2>3. InputFits'
    BY SMTT(30), <2>1, <2>2, InstanceAssumption DEF InputFits
  <2>4. work' \subseteq (1..MaxCall) \X (1..MaxCall) /\ \A w \in work' : w[1] = w[2]
    <3>1. CASE Head(input).kind = "request"
      <4>1. /\ Head(input).of \in 1..MaxCall /\ Head(input).what = Head(input).of
            /\ work' = work \cup {<<Head(input).of, Head(input).what>>}
        BY ONLY <2>1, <2>2, <3>1, Zenon DEF Numbered, Calls!Id
      <4> QED
        BY <4>1
    <3>2. CASE Head(input).kind # "request"
      <4>1. work' = work
        BY ONLY <2>1, <3>2, Zenon
      <4> QED
        BY <4>1
    <3> QED
      BY <3>1, <3>2
  <2> QED
    BY ONLY CallInv, <2>1, <2>3, <2>4
    DEF CallInv, CallTypes, CallBooks, NewestKept, Calls!Id, OutputFits
<1>2. CASE Calls!ServerWrites
  <2>1. /\ Len(output) < Room /\ work' \subseteq work /\ noted' \in Nat
        /\ UNCHANGED <<next, step, mine, turn, took, pending, slot, holder, input, child,
                       reader, queue, seen, heard, closing>>
    BY <1>2 DEF Calls!ServerWrites
  <2>2. PICK m \in Mail : Numbered(m) /\ output' = Append(output, m)
    <3>1. CASE \E w \in work : output' = Append(output, Calls!Message("answer", w[1], w[2]))
      BY <3>1, OtherMail
    <3>2. CASE output' \in {Append(output, m) : m \in {Calls!Note(noted'), Calls!Ask,
                                                      Calls!Junk}}
      BY <2>1, <3>2, OtherMail
    <3> QED
      BY <1>2, <3>1, <3>2 DEF Calls!ServerWrites
  <2>3. OutputFits'
    BY ONLY <2>1, <2>2, OutputFits, PutFits
  <2> QED
    BY <2>1, <2>3 DEF InputFits
<1>3. CASE Calls!ServerExits
  BY <1>3 DEF Calls!ServerExits, InputFits, OutputFits
<1>4. CASE Calls!Poll
  <2>1. /\ queue # <<>> /\ seen' = queue[Len(queue)] /\ queue' = <<>>
        /\ UNCHANGED <<next, step, mine, turn, took, pending, slot, holder, input, work, child,
                       noted, output, reader, heard, closing>>
    BY <1>4 DEF Calls!Poll, Calls!server
  <2>2. Len(queue) \in Nat \ {0} /\ queue[Len(queue)] \in Nat /\ Len(queue') = 0
        /\ queue' \in Seq(Nat) /\ MaxQueue \in Nat
    <3>1. queue \in Seq(Nat) /\ MaxQueue \in Nat
      BY InstanceAssumption
    <3>2. Len(queue) \in Nat /\ DOMAIN queue = 1..Len(queue) /\ (Len(queue) = 0 => queue = <<>>)
      BY ONLY <3>1, LenProperties, EmptySeq
    <3> QED
      BY ONLY <2>1, <3>1, <3>2
  <2>3. CallTypes'
    BY <2>1, <2>2 DEF InputFits, OutputFits
  <2>4. CallBooks'
    BY <2>1
  <2>5. NewestKept'
    BY <2>1
  <2> QED
    BY <2>3, <2>4, <2>5
<1> QED
  BY <1>1, <1>2, <1>3, <1>4

(* The reader takes a message from its pipe.                               *)
LEMMA ReaderTakes ==
  ASSUME OutputFits, output # <<>>, output' = Tail(output)
  PROVE  OutputFits' /\ Head(output) \in Mail /\ Numbered(Head(output))
<1>1. /\ Head(output) \in Mail /\ Numbered(Head(output)) /\ Tail(output) \in Seq(Mail)
      /\ Len(Tail(output)) = Len(output) - 1 /\ Len(output) \in Nat
      /\ \A i \in DOMAIN Tail(output) : Numbered(Tail(output)[i])
  BY TakeMail DEF OutputFits
<1> QED
  BY <1>1, InstanceAssumption DEF OutputFits

(* Every pending call is failed.                                           *)
LEMMA FailAllKeeps ==
  ASSUME CallTypes, CallBooks, Calls!FailAll, UNCHANGED <<next, step, mine, turn, took>>
  PROVE  /\ CallBooks' /\ pending' = {} /\ slot' \in [Caller -> 0..(MaxCall + 1)]
<1>1. MaxCall \in Nat
  BY InstanceAssumption
<1>2. /\ pending' = {}
      /\ \A c \in Caller : slot'[c] = MaxCall + 1 \/ slot'[c] = slot[c]
      /\ slot' \in [Caller -> 0..(MaxCall + 1)]
  BY <1>1 DEF CallTypes, Calls!FailAll, Calls!Failure
<1> QED
  BY <1>2 DEF CallTypes, CallBooks

(* The reader hands an answer to the call of its number, if it still waits. *)
LEMMA ReaderKeeps ==
  ASSUME CallInv, Calls!ReaderStep PROVE CallInv'
<1> USE DEF CallInv, CallTypes, NewestKept, Calls!Id, Calls!callers, Calls!notes, Calls!server
<1>0. MaxCall \in Nat
  BY InstanceAssumption
<1>1. CASE Calls!ReadAnswer
  <2> DEFINE m == Head(output)
  <2>1. /\ output # <<>> /\ output' = Tail(output) /\ m.kind = "answer"
        /\ pending' = {e \in pending : e[1] # m.of}
        /\ slot' = [c \in Caller |-> IF <<m.of, c>> \in pending THEN m.what ELSE slot[c]]
        /\ UNCHANGED <<next, step, mine, turn, took, holder, input, work, child, noted, reader,
                       queue, seen, heard, closing>>
    BY <1>1 DEF Calls!ReadAnswer, Calls!Without
  <2>2. OutputFits' /\ m.of \in 1..MaxCall /\ m.what = m.of
    BY <2>1, ReaderTakes DEF Numbered
  <2> HIDE DEF m
  <2>3. \A c \in Caller : IF <<m.of, c>> \in pending THEN slot'[c] = m.of /\ mine[c] = m.of
                                                      ELSE slot'[c] = slot[c]
    BY <2>1, <2>2 DEF CallBooks
  <2>4. slot' \in [Caller -> 0..(MaxCall + 1)]
    BY SMTT(30), <1>0, <2>1, <2>2
  <2>5. CallBooks'
    <3>1. \A e \in pending' : slot'[e[2]] = 0
      <4> SUFFICES ASSUME NEW e \in pending' PROVE slot'[e[2]] = 0
        OBVIOUS
      <4>1. e \in pending /\ e[1] # m.of /\ e[2] \in Caller /\ mine[e[2]] = e[1]
            /\ slot[e[2]] = 0
        BY <2>1 DEF CallBooks
      <4> QED
        BY <2>3, <4>1
    <3> QED
      BY <2>1, <2>3, <3>1 DEF CallBooks
  <2> QED
    BY <2>1, <2>2, <2>4, <2>5 DEF InputFits
<1>2. CASE Calls!ReadNote
  <2> DEFINE n == Head(output).of
             rest == IF Len(queue) = MaxQueue THEN Tail(queue) ELSE queue
  <2>1. /\ output # <<>> /\ output' = Tail(output) /\ heard' = n /\ queue' = Append(rest, n)
        /\ UNCHANGED <<next, step, mine, turn, took, pending, slot, holder, input, work, child,
                       noted, reader, seen, closing>>
    BY <1>2 DEF Calls!ReadNote
  <2>2. OutputFits' /\ n \in Nat
    BY <2>1, ReaderTakes DEF Mail
  <2> HIDE DEF n
  <2>3. MaxQueue \in Nat \ {0} /\ Len(queue) \in Nat
    BY InstanceAssumption
  <2>4. rest \in Seq(Nat) /\ Len(rest) \in Nat /\ Len(rest) < MaxQueue
    <3>1. CASE Len(queue) = MaxQueue
      <4>1. queue # <<>>
        BY <2>3, <3>1
      <4> QED
        BY <2>3, <3>1, <4>1, HeadTailProperties
    <3>2. CASE Len(queue) # MaxQueue
      BY <2>3, <3>2
    <3> QED
      BY <3>1, <3>2
  <2> HIDE DEF rest
  <2>5. /\ queue' \in Seq(Nat) /\ Len(queue') = Len(rest) + 1 /\ queue'[Len(queue')] = n
        /\ queue' # <<>>
    BY <2>1, <2>2, <2>4, AppendProperties
  <2>6. Len(queue') <= MaxQueue
    BY <2>3, <2>4, <2>5
  <2> QED
    BY <2>1, <2>2, <2>5, <2>6 DEF InputFits, CallBooks
<1>3. CASE Calls!ReadJunk
  <2>1. output # <<>> /\ output' = Tail(output) /\ Calls!FailAll /\ reader' \in {"reading", "ended"}
        /\ UNCHANGED <<next, step, mine, turn, took, holder, input, work, child, noted,
                       queue, seen, heard, closing>>
    BY <1>3 DEF Calls!ReadJunk
  <2> QED
    BY <2>1, ReaderTakes, FailAllKeeps DEF InputFits
<1>4. CASE Calls!ReadAsk
  <2>1. output # <<>> /\ output' = Tail(output) /\ reader' = "asked"
        /\ UNCHANGED <<next, step, mine, turn, took, pending, slot, holder, input, work, child,
                       noted, queue, seen, heard, closing>>
    BY <1>4 DEF Calls!ReadAsk
  <2> QED
    BY <2>1, ReaderTakes DEF InputFits, CallBooks
<1>5. CASE Calls!ReaderAcquires
  BY <1>5 DEF Calls!ReaderAcquires, InputFits, OutputFits, CallBooks
<1>6. CASE Calls!ReaderAnswers
  <2>1. InputFits'
    <3>1. CASE UNCHANGED input
      BY <3>1 DEF InputFits
    <3>2. CASE Len(input) < Room /\ input' = Append(input, Calls!Other)
      BY ONLY <3>2, InputFits, PutFits, OtherMail
    <3> QED
      BY <1>6, <3>1, <3>2 DEF Calls!ReaderAnswers
  <2> QED
    BY <1>6, <2>1 DEF Calls!ReaderAnswers, OutputFits, CallBooks
<1>7. CASE Calls!ReadEnd
  <2>1. Calls!FailAll /\ reader' = "ended"
        /\ UNCHANGED <<next, step, mine, turn, took, holder, input, output, work, child, noted,
                       queue, seen, heard, closing>>
    BY <1>7 DEF Calls!ReadEnd
  <2> QED
    BY <2>1, FailAllKeeps DEF InputFits, OutputFits
<1> QED
  BY <1>1, <1>2, <1>3, <1>4, <1>5, <1>6, <1>7 DEF Calls!ReaderStep

(* Closing fails the calls that wait.                                      *)
LEMMA ClosingKeeps ==
  ASSUME CallInv, Calls!Close \/ Calls!ShutInput \/ Calls!Closed PROVE CallInv'
<1> USE DEF CallInv, CallTypes, NewestKept, Calls!callers, Calls!notes, Calls!server
<1>1. CASE Calls!Close
  BY <1>1 DEF Calls!Close, CallBooks, InputFits, OutputFits
<1>2. CASE Calls!ShutInput
  BY <1>2 DEF Calls!ShutInput, CallBooks, InputFits, OutputFits
<1>3. CASE Calls!Closed
  <2>1. /\ Calls!FailAll /\ child' = FALSE /\ closing' = "closed"
        /\ UNCHANGED <<next, step, mine, turn, took, holder, input, work, noted, output, reader,
                       queue, seen, heard>>
    BY <1>3 DEF Calls!Closed
  <2> QED
    BY <2>1, FailAllKeeps DEF InputFits, OutputFits
<1> QED
  BY <1>1, <1>2, <1>3

(* Every step of the transport keeps the books of its calls.               *)
LEMMA CallsKeep ==
  ASSUME CallInv, Calls!Next PROVE CallInv'
BY CallKeeps, CallStepKeeps, ServerKeeps, ReaderKeeps, ClosingKeeps DEF Calls!Next

(* What the run checks of the calls over pipes follows.                    *)
LEMMA CallsWithin ==
  ASSUME CallInv
  PROVE  Calls!TypeOK /\ Calls!AnswersFit /\ Calls!NothingLeaks /\ Calls!NewestIsKept
<1> USE InstanceAssumption DEF CallInv
<1>1. Calls!TypeOK
  BY DEF CallTypes, InputFits, OutputFits, Calls!TypeOK, Calls!Nothing, Calls!Failure
<1>2. Calls!AnswersFit
  <2>1. MaxCall \in Nat
    BY InstanceAssumption
  <2>2. SUFFICES ASSUME NEW c \in Caller, took[c] \in 1..MaxCall, step[c] = "idle"
                 PROVE  took[c] = turn[c]
    BY DEF Calls!AnswersFit, Calls!Id
  <2>3. /\ took[c] \in {0, MaxCall + 1, mine[c]} /\ turn[c] = mine[c]
    BY <2>2 DEF CallBooks
  <2> QED
    BY <2>1, <2>2, <2>3
<1>3. Calls!NothingLeaks
  BY DEF CallTypes, CallBooks, Calls!NothingLeaks
<1>4. Calls!NewestIsKept
  BY DEF NewestKept, Calls!NewestIsKept
<1> QED
  BY <1>1, <1>2, <1>3, <1>4

-----------------------------------------------------------------------------
(* Calls over HTTP                                                         *)

Place == [on : 0..MaxPost, at : 0..MaxMessage]

(* A call returns nothing yet, an error, or the answer to the last call    *)
(* posted; a stream is resumed only while there are resumptions left.      *)
HttpInv ==
  /\ posted \in 0..MaxPost
  /\ stage \in {"idle", "read", "resume"}
  /\ body \in Place /\ fresh \in Place /\ last \in Place
  /\ tries \in 0..MaxResume /\ (stage = "resume" => tries # 0)
  /\ sent \in [0..MaxPost -> Seq(0..MaxPost)]
  /\ \A s \in 0..MaxPost : Len(sent[s]) <= MaxMessage
  /\ answer \in {0, MaxPost + 1, posted}
  /\ session \in BOOLEAN /\ opened \in BOOLEAN /\ shut \in BOOLEAN

(* The bounds of the instance are numbers.                                 *)
LEMMA HttpNumbers == /\ MaxPost \in Nat /\ MaxMessage \in Nat /\ MaxResume \in Nat
BY InstanceAssumption

(* A transport over HTTP starts with no session and no stream.             *)
LEMMA HttpStart == Http!Init => HttpInv
<1> SUFFICES ASSUME Http!Init PROVE HttpInv
  OBVIOUS
<1>1. /\ <<>> \in Seq(0..MaxPost) /\ Len(<<>>) = 0 /\ 0 \in 0..MaxPost
      /\ 0 \in 0..MaxMessage /\ 0 \in 0..MaxResume
  BY HttpNumbers
<1>2. [on |-> 0, at |-> 0] \in Place
  BY <1>1 DEF Place
<1>3. /\ sent \in [0..MaxPost -> Seq(0..MaxPost)]
      /\ \A s \in 0..MaxPost : Len(sent[s]) <= MaxMessage
  BY <1>1, HttpNumbers DEF Http!Init, Http!Streams
<1> QED
  BY <1>1, <1>2, <1>3 DEF Http!Init, HttpInv, Http!NoEvent

(* A stream goes on by one message.                                        *)
LEMMA ServeKeeps ==
  ASSUME HttpInv, NEW s \in Http!Streams, Http!Serve(s) PROVE HttpInv'
<1>1. PICK m \in {0, s} : sent' = [sent EXCEPT ![s] = Append(sent[s], m)]
  BY DEF Http!Serve, Http!Note
<1>2. /\ s \in 0..MaxPost /\ m \in 0..MaxPost /\ sent[s] \in Seq(0..MaxPost)
      /\ Len(sent[s]) < MaxMessage
  BY HttpNumbers DEF HttpInv, Http!Streams, Http!Serve
<1>3. /\ Append(sent[s], m) \in Seq(0..MaxPost)
      /\ Len(Append(sent[s], m)) = Len(sent[s]) + 1 /\ Len(sent[s]) \in Nat
  BY <1>2, AppendProperties
<1>4. Len(Append(sent[s], m)) <= MaxMessage
  BY <1>2, <1>3, HttpNumbers
<1>5. /\ sent' \in [0..MaxPost -> Seq(0..MaxPost)]
      /\ \A r \in 0..MaxPost : Len(sent'[r]) <= MaxMessage
  BY <1>1, <1>3, <1>4 DEF HttpInv
<1> QED
  BY <1>5 DEF HttpInv, Http!Serve, Http!link

(* The event that is cut off is within its stream.                         *)
LEMMA CutOffFits ==
  ASSUME HttpInv PROVE Http!CutOff \subseteq Place
<1>1. CASE body.at < Len(sent[body.on])
  <2>1. body.on \in 0..MaxPost /\ body.at \in 0..MaxMessage
    BY DEF HttpInv, Place
  <2>2. sent[body.on] \in Seq(0..MaxPost) /\ Len(sent[body.on]) <= MaxMessage
    BY <2>1 DEF HttpInv
  <2>3. Len(sent[body.on]) \in Nat
    BY <2>2, LenProperties
  <2>4. [body EXCEPT !.at = @ + 1] = [on |-> body.on, at |-> body.at + 1]
    BY DEF HttpInv, Place
  <2>5. [on |-> body.on, at |-> body.at + 1] \in Place
    BY <1>1, <2>1, <2>2, <2>3, HttpNumbers DEF Place
  <2> QED
    BY <2>4, <2>5 DEF Http!CutOff
<1> QED
  BY <1>1 DEF Http!CutOff

(* The next event of a body is within its stream, and an answer taken from *)
(* it is the one to the last call posted.                                  *)
LEMMA ReadKeeps ==
  ASSUME HttpInv, Http!Read PROVE HttpInv'
<1>1. /\ body.on \in 0..MaxPost /\ body.at \in 0..MaxMessage
      /\ body.at < Len(sent[body.on]) /\ Len(sent[body.on]) \in Nat
      /\ Len(sent[body.on]) <= MaxMessage
      /\ body' = [on |-> body.on, at |-> body.at + 1]
  <2>1. body \in Place /\ body' = [body EXCEPT !.at = body.at + 1]
        /\ body.at < Len(sent[body.on])
    BY DEF HttpInv, Http!Read
  <2>2. body.on \in 0..MaxPost /\ body.at \in 0..MaxMessage
        /\ body' = [on |-> body.on, at |-> body.at + 1]
    BY <2>1 DEF Place
  <2>3. sent[body.on] \in Seq(0..MaxPost) /\ Len(sent[body.on]) <= MaxMessage
    BY <2>2 DEF HttpInv
  <2> QED
    BY <2>1, <2>2, <2>3, LenProperties
<1>2. body' \in Place /\ fresh' \in Place
  <2>1. body' \in Place
    BY <1>1, HttpNumbers DEF Place
  <2> QED
    BY <2>1 DEF HttpInv, Http!Read
<1>3. /\ stage' \in {"idle", "read"} /\ answer' \in {answer, posted}
      /\ last' \in {last, fresh'}
      /\ UNCHANGED <<posted, tries, sent, session, opened, shut>>
  BY DEF Http!Read, Http!Answers, Http!link
<1> QED
  BY <1>2, <1>3 DEF HttpInv

(* Every step of a call over HTTP keeps what the client remembers.         *)
LEMMA HttpKeeps ==
  ASSUME HttpInv, Http!Next PROVE HttpInv'
<1> USE HttpNumbers DEF HttpInv, Place, Http!link, Http!NoEvent, Http!Failed
<1>1. CASE Http!Send
  <2>1. /\ posted' \in 0..MaxPost /\ posted' = posted + 1 /\ posted' \in 1..MaxPost
        /\ answer' \in {0, MaxPost + 1, posted'} /\ opened' = TRUE /\ session' = TRUE
        /\ UNCHANGED <<last, sent, shut>>
    BY <1>1 DEF Http!Send
  <2>2. CASE UNCHANGED <<stage, body, fresh, tries>>
    BY <2>1, <2>2
  <2>3. CASE /\ stage' = "read" /\ body' = [on |-> posted', at |-> 0]
             /\ fresh' = [on |-> 0, at |-> 0] /\ tries' = MaxResume
    <3>1. body' \in Place /\ fresh' \in Place
      BY <2>1, <2>3
    <3> QED
      BY <2>1, <2>3, <3>1
  <2> QED
    BY <1>1, <2>2, <2>3 DEF Http!Send
<1>2. CASE Http!SendFails
  BY <1>2 DEF Http!SendFails
<1>3. CASE Http!StreamEnds
  <2>1. PICK e \in {fresh} \cup Http!CutOff :
          last' = IF e = [on |-> 0, at |-> 0] THEN last ELSE e
    BY <1>3 DEF Http!StreamEnds
  <2>2. /\ stage' \in {"idle", "resume"} /\ answer' \in {answer, MaxPost + 1}
        /\ stage' = "resume" => tries # 0
        /\ UNCHANGED <<posted, body, fresh, tries, sent, session, opened, shut>>
    BY <1>3 DEF Http!StreamEnds
  <2>3. last' \in Place
    BY <2>1, CutOffFits
  <2> QED
    BY <2>2, <2>3
<1>4. CASE Http!StreamBreaks
  BY <1>4 DEF Http!StreamBreaks
<1>5. CASE Http!Resume
  BY SMTT(30), <1>5 DEF Http!Resume
<1>6. CASE Http!Poll
  <2>1. last' \in {last, [on |-> last.on, at |-> Len(sent[last.on])]}
        /\ UNCHANGED <<posted, stage, body, fresh, tries, sent, answer, session, opened, shut>>
    BY <1>6 DEF Http!Poll
  <2>2. Len(sent[last.on]) \in 0..MaxMessage
    OBVIOUS
  <2> QED
    BY <2>1, <2>2
<1>7. CASE Http!Close
  BY <1>7 DEF Http!Close
<1> QED
  BY <1>1, <1>2, <1>3, <1>4, <1>5, <1>6, <1>7, ServeKeeps, ReadKeeps DEF Http!Next

(* What the run checks of the calls over HTTP follows.                     *)
LEMMA HttpWithin ==
  ASSUME HttpInv PROVE Http!TypeOK /\ Http!AnswerIsOwn
BY HttpNumbers DEF HttpInv, Place, Http!TypeOK, Http!AnswerIsOwn, Http!Streams, Http!Post,
  Http!Failed

-----------------------------------------------------------------------------
(* The turns of a model                                                    *)

Index == 1..MaxCallIndex
ModelEvent == [kind : {"text", "call", "stop", "length", "usage", "error"}, of : Nat]

(* The events of one kind in a sequence, how many, and the calls in it.    *)
At(k, s) == {i \in DOMAIN s : s[i].kind = k}
Number(k, s) == Cardinality(At(k, s))
CallsIn(s) == {s[i].of : i \in At("call", s)}

(* The calls of this response that the run has taken, and those that were  *)
(* translated; what is on its way to the run; a turn that can still end    *)
(* well.                                                                   *)
Taken == {calls[i] : i \in DOMAIN calls}
Out == Taken \cup CallsIn(channel) \cup CallsIn(queued)
Comes(k) == At(k, channel) # {} \/ At(k, queued) # {}
Fine == state = "reading" /\ ~cancelled /\ ~Comes("error")

Response ==
  [texts : 0..MaxText, parts : [Index -> Nat], begun : SUBSET Index, whole : SUBSET Index,
   end : {"none", "stop", "length"}, counted : BOOLEAN]
Parser ==
  [over : BOOLEAN, held : [Index -> Nat], known : SUBSET Index, emitted : SUBSET Index,
   end : {"none", "stop", "length"}, counted : BOOLEAN]

ModelTypes ==
  /\ dialect \in Dialects
  /\ said \in Response /\ parser \in Parser
  /\ link \in {"none", "asked", "open", "ended", "broken", "drained"}
  /\ queued \in Seq(ModelEvent)
  /\ channel \in Seq(ModelEvent) /\ Len(channel) <= Channel
  /\ thread \in {"none", "running", "ended"}
  /\ state \in {"next", "reading", "batch", "done", "failed"}
  /\ turns \in 0..MaxTurn /\ (state \in {"next", "reading"} => turns < MaxTurn)
  /\ more \in 0..MaxMore
  /\ text \in Nat /\ told \in Nat /\ calls \in Seq(Nat)
  /\ finish \in {"none", "stop", "length"}
  /\ cancelled \in BOOLEAN

(* What the provider has sent: calls begin in the order of their index.    *)
SaidBooks ==
  /\ said.whole \subseteq said.begun
  /\ \E n \in Nat : said.begun = 1..n
  /\ \A i \in Index : said.parts[i] # 0 => i \in said.begun
  /\ said.end = "stop" => said.begun \subseteq said.whole
  /\ said.counted => said.end # "none"

(* What the parser holds is what has been sent and not yet translated.  In *)
(* chat the calls go out together, in responses no later than they are     *)
(* whole, in messages as they get whole.                                   *)
ParserBooks ==
  /\ parser.over => said.end # "none"
  /\ dialect = "chat" =>
       /\ parser.known = said.begun /\ parser.end = said.end
       /\ Out = IF parser.over THEN said.begun ELSE {}
  /\ dialect = "responses" => parser.emitted = Out /\ said.whole \subseteq Out
  /\ dialect = "messages" =>
       /\ parser.known = said.begun \ said.whole /\ parser.end = said.end
       /\ Out = said.whole

(* Between the provider and the run no text is lost or doubled, a call goes *)
(* out once, and the completion comes only with all the calls begun.       *)
OutBooks ==
  /\ text + Number("text", channel) + Number("text", queued) = told + said.texts
  /\ Len(calls) + Number("call", channel) + Number("call", queued) = Cardinality(Out)
  /\ Out \subseteq said.begun
  /\ finish = "stop" \/ Comes("stop") => said.end = "stop" /\ Out = said.begun

RunBooks ==
  /\ thread # "running" => queued = <<>> /\ link = "none"
  /\ state \in {"next", "batch", "done"} => thread # "running" /\ text = told
  /\ state = "batch" =>
       /\ said.end = "stop" /\ Taken = said.begun /\ Len(calls) = Cardinality(said.begun)

ModelInv ==
  /\ ModelTypes /\ SaidBooks /\ RunBooks
  /\ Fine => OutBooks
  /\ Fine /\ thread = "running" => ParserBooks

(* What the instance says of the bounds of a turn.                         *)
LEMMA ModelNumbers ==
  /\ MaxCallIndex \in Nat /\ MaxText \in Nat /\ MaxMore \in Nat
  /\ Parts \in Nat \ {0} /\ MaxTurn \in Nat \ {0} /\ Channel \in Nat \ {0}
  /\ Dialects \subseteq {"chat", "responses", "messages"}
BY InstanceAssumption

(* The instance counts as this module does.                                *)
LEMMA SameCount == \A S : Model!Cardinality(S) = Cardinality(S)
BY Zenon DEF Model!Cardinality, Cardinality

(* The calls of one response can be counted.                               *)
LEMMA IndexFinite ==
  \A S \in SUBSET Index : IsFiniteSet(S) /\ Cardinality(S) \in Nat
<1>1. IsFiniteSet(Index)
  BY ModelNumbers, FS_Interval DEF Index
<1> QED
  BY <1>1, FS_Subset, FS_CardinalityType

(* The events of one kind can be counted, and none are zero of them.       *)
LEMMA AtFinite ==
  ASSUME NEW s \in Seq(ModelEvent), NEW k
  PROVE  /\ IsFiniteSet(At(k, s)) /\ Number(k, s) \in Nat
         /\ Number(k, s) = 0 <=> At(k, s) = {}
<1>1. IsFiniteSet(1..Len(s)) /\ DOMAIN s = 1..Len(s) /\ At(k, s) \in SUBSET (1..Len(s))
  <2>1. Len(s) \in Nat /\ DOMAIN s = 1..Len(s)
    OBVIOUS
  <2> QED
    BY <2>1, FS_Interval DEF At
<1>2. IsFiniteSet(At(k, s))
  BY <1>1, FS_Subset
<1> QED
  BY <1>2, FS_CardinalityType, FS_EmptySet DEF Number

(* The first event of a sequence, and the rest.                            *)
LEMMA TakeOff ==
  ASSUME NEW s \in Seq(ModelEvent), s # <<>>, NEW k
  PROVE  /\ Head(s) \in ModelEvent /\ Tail(s) \in Seq(ModelEvent)
         /\ Len(Tail(s)) = Len(s) - 1 /\ Len(s) \in Nat \ {0}
         /\ Number(k, s) = Number(k, Tail(s)) + (IF Head(s).kind = k THEN 1 ELSE 0)
         /\ At(k, s) = {} <=> At(k, Tail(s)) = {} /\ Head(s).kind # k
         /\ CallsIn(s) = CallsIn(Tail(s)) \cup
                           (IF Head(s).kind = "call" THEN {Head(s).of} ELSE {})
<1>1. /\ Len(s) \in Nat \ {0} /\ Head(s) = s[1] /\ Tail(s) \in Seq(ModelEvent)
      /\ s[1] \in ModelEvent /\ DOMAIN s = 1..Len(s)
      /\ Len(Tail(s)) = Len(s) - 1 /\ DOMAIN Tail(s) = 1..(Len(s) - 1)
      /\ \A i \in 1..(Len(s) - 1) : Tail(s)[i] = s[i + 1]
  BY HeadTailProperties
<1>2. \A i \in 2..Len(s) : i - 1 \in 1..(Len(s) - 1) /\ Tail(s)[i - 1] = s[i]
  BY <1>1
<1>3. \A kk : At(kk, s) \ {1} = {i + 1 : i \in At(kk, Tail(s))}
  <2> SUFFICES ASSUME NEW kk
               PROVE  At(kk, s) \ {1} = {i + 1 : i \in At(kk, Tail(s))}
    OBVIOUS
  <2>1. ASSUME NEW i \in At(kk, s), i # 1
        PROVE  i - 1 \in At(kk, Tail(s)) /\ i = (i - 1) + 1
    BY <1>1, <1>2, <2>1 DEF At
  <2>2. ASSUME NEW i \in At(kk, Tail(s)) PROVE i + 1 \in At(kk, s) /\ i + 1 # 1
    BY <1>1, <2>2 DEF At
  <2> QED
    BY <2>1, <2>2
<1>4. Cardinality(At(k, s) \ {1}) = Cardinality(At(k, Tail(s)))
  <2> DEFINE f == [i \in At(k, Tail(s)) |-> i + 1]
  <2>1. f \in Surjection(At(k, Tail(s)), At(k, s) \ {1})
    BY <1>3 DEF Surjection
  <2>2. \A i, j \in At(k, Tail(s)) : f[i] = f[j] => i = j
    BY <1>1 DEF At
  <2>3. f \in Injection(At(k, Tail(s)), At(k, s) \ {1})
    BY <2>1, <2>2 DEF Injection, Surjection, IsInjective
  <2> HIDE DEF f
  <2>4. IsFiniteSet(At(k, Tail(s)))
    BY <1>1, AtFinite
  <2> QED
    BY <2>1, <2>3, <2>4, FS_Surjection
<1>5. Number(k, s) = Number(k, Tail(s)) + (IF Head(s).kind = k THEN 1 ELSE 0)
  <2>1. /\ IsFiniteSet(At(k, s)) /\ Cardinality(At(k, s)) \in Nat
        /\ Cardinality(At(k, Tail(s))) \in Nat
    BY <1>1, AtFinite DEF Number
  <2>2. 1 \in At(k, s) <=> Head(s).kind = k
    BY <1>1 DEF At
  <2>3. Cardinality(At(k, s) \ {1})
          = IF 1 \in At(k, s) THEN Cardinality(At(k, s)) - 1 ELSE Cardinality(At(k, s))
    BY <2>1, FS_RemoveElement
  <2> QED
    BY <1>4, <2>1, <2>2, <2>3 DEF Number
<1>6. At(k, s) = {} <=> At(k, Tail(s)) = {} /\ Head(s).kind # k
  <2>1. 1 \in At(k, s) <=> Head(s).kind = k
    BY <1>1 DEF At
  <2>2. At(k, s) \ {1} = {} <=> At(k, Tail(s)) = {}
    <3>1. At(k, s) \ {1} = {i + 1 : i \in At(k, Tail(s))}
      BY <1>3
    <3> HIDE DEF At
    <3> QED
      BY ONLY <3>1
  <2>3. At(k, s) = {} <=> At(k, s) \ {1} = {} /\ 1 \notin At(k, s)
    OBVIOUS
  <2> QED
    BY <2>1, <2>2, <2>3
<1>7. CallsIn(s) = CallsIn(Tail(s)) \cup (IF Head(s).kind = "call" THEN {Head(s).of} ELSE {})
  <2>1. \A i \in At("call", Tail(s)) : i + 1 \in At("call", s) /\ Tail(s)[i].of = s[i + 1].of
    BY <1>1, <1>3 DEF At
  <2>2. \A i \in At("call", s) : i # 1 =>
          i - 1 \in At("call", Tail(s)) /\ s[i].of = Tail(s)[i - 1].of
    BY <1>1, <1>2 DEF At
  <2>3. 1 \in At("call", s) <=> Head(s).kind = "call"
    BY <1>1 DEF At
  <2>4. Head(s).of = s[1].of
    BY <1>1
  <2>5. CASE Head(s).kind = "call"
    <3>1. s[1].of \in CallsIn(s)
      BY <2>3, <2>5 DEF CallsIn
    <3>2. \A x \in CallsIn(Tail(s)) : x \in CallsIn(s)
      BY <2>1 DEF CallsIn
    <3>3. \A x \in CallsIn(s) : x = s[1].of \/ x \in CallsIn(Tail(s))
      <4>1. SUFFICES ASSUME NEW x \in CallsIn(s), x # s[1].of PROVE x \in CallsIn(Tail(s))
        OBVIOUS
      <4>2. PICK i \in At("call", s) : x = s[i].of
        BY DEF CallsIn
      <4>3. i - 1 \in At("call", Tail(s)) /\ x = Tail(s)[i - 1].of
        BY <2>2, <4>1, <4>2
      <4> QED
        BY ONLY <4>3 DEF CallsIn
    <3> QED
      BY <2>4, <2>5, <3>1, <3>2, <3>3
  <2>6. CASE Head(s).kind # "call"
    BY <2>1, <2>2, <2>3, <2>6 DEF CallsIn
  <2> QED
    BY <2>5, <2>6
<1> QED
  BY <1>1, <1>5, <1>6, <1>7

(* An event put after the others.                                          *)
LEMMA PutOn ==
  ASSUME NEW s \in Seq(ModelEvent), NEW e \in ModelEvent, NEW k
  PROVE  /\ Append(s, e) \in Seq(ModelEvent) /\ Len(Append(s, e)) = Len(s) + 1
         /\ Number(k, Append(s, e)) = Number(k, s) + (IF e.kind = k THEN 1 ELSE 0)
         /\ At(k, Append(s, e)) = {} <=> At(k, s) = {} /\ e.kind # k
         /\ CallsIn(Append(s, e)) = CallsIn(s) \cup (IF e.kind = "call" THEN {e.of} ELSE {})
<1>1. /\ Append(s, e) \in Seq(ModelEvent) /\ Len(Append(s, e)) = Len(s) + 1
      /\ Len(s) \in Nat /\ DOMAIN s = 1..Len(s) /\ DOMAIN Append(s, e) = 1..(Len(s) + 1)
      /\ \A i \in 1..Len(s) : Append(s, e)[i] = s[i]
      /\ Append(s, e)[Len(s) + 1] = e
  BY AppendProperties
<1>2. \A kk : At(kk, Append(s, e)) = At(kk, s) \cup (IF e.kind = kk THEN {Len(s) + 1} ELSE {})
  <2>1. \A i \in DOMAIN Append(s, e) : i \in DOMAIN s \/ i = Len(s) + 1
    BY <1>1
  <2> QED
    BY <1>1, <2>1 DEF At
<1>3. \A kk : Len(s) + 1 \notin At(kk, s)
  BY <1>1 DEF At
<1>4. Number(k, Append(s, e)) = Number(k, s) + (IF e.kind = k THEN 1 ELSE 0)
  <2>1. IsFiniteSet(At(k, s)) /\ Number(k, s) \in Nat
    BY AtFinite
  <2>2. Cardinality(At(k, s) \cup {Len(s) + 1}) = Cardinality(At(k, s)) + 1
    BY <1>3, <2>1, FS_AddElement
  <2>3. CASE e.kind = k
    BY <1>2, <2>1, <2>2, <2>3 DEF Number
  <2>4. CASE e.kind # k
    <3>1. At(k, Append(s, e)) = At(k, s)
      BY <1>2, <2>4
    <3> QED
      BY <2>1, <2>4, <3>1 DEF Number
  <2> QED
    BY <2>3, <2>4
<1>5. At(k, Append(s, e)) = {} <=> At(k, s) = {} /\ e.kind # k
  BY <1>2
<1>6. CallsIn(Append(s, e)) = CallsIn(s) \cup (IF e.kind = "call" THEN {e.of} ELSE {})
  <2>1. \A i \in At("call", s) : Append(s, e)[i] = s[i]
    BY <1>1 DEF At
  <2>2. CASE e.kind = "call"
    <3>1. At("call", Append(s, e)) = At("call", s) \cup {Len(s) + 1}
      BY <1>2, <2>2
    <3> QED
      BY <1>1, <2>1, <2>2, <3>1 DEF CallsIn
  <2>3. CASE e.kind # "call"
    <3>1. At("call", Append(s, e)) = At("call", s)
      BY <1>2, <2>3
    <3> QED
      BY <2>1, <2>3, <3>1 DEF CallsIn
  <2> QED
    BY <2>2, <2>3
<1> QED
  BY <1>1, <1>4, <1>5, <1>6

(* What the provider sends next: once it has said why the response ends,   *)
(* its calls stay as they are.                                             *)
LEMMA SendKeeps ==
  ASSUME ModelTypes, SaidBooks, NEW m \in Model!WireEvent, Model!Sends(m)
  PROVE  /\ said' \in Response /\ SaidBooks'
         /\ said.end # "none" => /\ said'.end = said.end /\ said'.begun = said.begun
                                 /\ said'.whole = said.whole
         /\ said.begun \subseteq said'.begun
         /\ said'.texts = said.texts + (IF m.kind = "text" THEN 1 ELSE 0)
<1> USE ModelNumbers DEF Response, Model!Event
<1>1. /\ said \in Response /\ m.of \in Nat /\ Index = 1..MaxCallIndex
      /\ Model!CallIndex = Index /\ said.texts \in Nat /\ said.texts + 0 = said.texts
  BY DEF ModelTypes, Model!WireEvent, Model!CallIndex, Index
<1>2. PICK n \in Nat : said.begun = 1..n
  BY DEF SaidBooks
<1>3. ASSUME m.of \in Index, Model!Begins(m.of)
      PROVE  m.of = n + 1 /\ said.begun \cup {m.of} = 1..(n + 1)
  <2>1. m.of \notin 1..n /\ \A j \in 1..MaxCallIndex : j < m.of => j \in 1..n
    BY <1>1, <1>2, <1>3 DEF Model!Begins
  <2>2. m.of = n + 1
    <3>1. m.of > n
      BY <1>1, <1>3, <2>1
    <3>2. CASE m.of > n + 1
      BY <1>1, <1>3, <2>1, <3>2
    <3> QED
      BY <1>1, <3>1, <3>2
  <2> QED
    BY <1>2, <2>2
<1>4. CASE m.kind = "text" /\ said.texts < MaxText /\ said.end = "none"
           /\ said' = [said EXCEPT !.texts = said.texts + 1]
  <2>1. said.texts \in Nat /\ said.texts + 1 \in 0..MaxText
    BY <1>1, <1>4
  <2>2. said' \in Response /\ said'.texts = said.texts + 1
        /\ \A f \in {"parts", "begun", "whole", "end", "counted"} : said'[f] = said[f]
    BY ONLY <1>1, <1>4, <2>1 DEF Response
  <2> QED
    BY <1>4, <2>2 DEF SaidBooks
<1>5. CASE /\ m.kind \in {"stop", "length"} /\ said.end = "none"
           /\ m.kind = "stop" => Model!Finished
           /\ said' = [said EXCEPT !.end = m.kind]
  <2>1. said' \in Response /\ said'.end = m.kind
        /\ \A f \in {"texts", "parts", "begun", "whole", "counted"} : said'[f] = said[f]
    BY ONLY <1>1, <1>5 DEF Response
  <2> QED
    BY <1>1, <1>5, <2>1 DEF SaidBooks, Model!Finished
<1>6. CASE m.kind # "text" /\ said' = said
  BY <1>1, <1>6 DEF SaidBooks
<1>7. CASE /\ m.kind = "usage" /\ said.end # "none" /\ said' = [said EXCEPT !.counted = TRUE]
  <2>1. said' \in Response /\ said'.texts = said.texts /\ said'.parts = said.parts
        /\ said'.begun = said.begun /\ said'.whole = said.whole /\ said'.end = said.end
        /\ said.texts + 0 = said.texts /\ m.kind # "text"
    <3>1. PICK v \in BOOLEAN : said' = [said EXCEPT !.counted = v]
      BY <1>7, Zenon
    <3> QED
      BY ONLY <1>1, <1>7, <3>1 DEF Response
  <2> QED
    BY <1>1, <1>7, <2>1 DEF SaidBooks
<1>8. ASSUME m.of \in Index, said.end = "none", m.kind # "text",
             NEW p \in [Index -> Nat], p \in {said.parts, [said.parts EXCEPT ![m.of] = p[m.of]]},
             NEW b \in {said.begun, said.begun \cup {m.of}},
             NEW w \in {said.whole, said.whole \cup {m.of}},
             b = said.begun \/ Model!Begins(m.of), m.of \in b, w \subseteq b,
             said' = [said EXCEPT !.begun = b, !.parts = p, !.whole = w]
      PROVE  /\ said' \in Response /\ SaidBooks'
             /\ said.begun \subseteq said'.begun /\ said'.texts = said.texts
  <2>1. b = 1..(n + 1) \/ b = 1..n
    BY <1>2, <1>3, <1>8
  <2>2. b \in SUBSET Index /\ w \in SUBSET Index
    BY <1>1, <1>8
  <2>3. /\ said' \in Response /\ said'.begun = b /\ said'.parts = p /\ said'.whole = w
        /\ \A f \in {"texts", "end", "counted"} : said'[f] = said[f]
    BY ONLY <1>1, <1>8, <2>2 DEF Response
  <2>4. \A i \in Index : said'.parts[i] # 0 => i \in said'.begun
    BY <1>8, <2>3 DEF SaidBooks
  <2>5. \E k \in Nat : said'.begun = 1..k
    BY <1>2, <2>1, <2>3
  <2> QED
    BY <1>8, <2>3, <2>4, <2>5 DEF SaidBooks
<1>9. ASSUME m.of \in Index
      PROVE  /\ said.parts \in [Index -> Nat] /\ said.parts[m.of] + 1 \in Nat
             /\ [said.parts EXCEPT ![m.of] = said.parts[m.of] + 1] \in [Index -> Nat]
  <2>1. said.parts \in [Index -> Nat]
    BY <1>1
  <2>2. said.parts[m.of] + 1 \in Nat
    BY <1>9, <2>1
  <2> QED
    BY ONLY <1>9, <2>1, <2>2
<1>10. ASSUME m.of \in Index, said.end = "none", m.kind = "args",
              m.of \in said.begun \/ Model!Begins(m.of),
              NEW w \in {said.whole, said.whole \cup {m.of}},
              said' = [said EXCEPT !.begun = said.begun \cup {m.of},
                                   !.parts[m.of] = said.parts[m.of] + 1, !.whole = w]
       PROVE  /\ said' \in Response /\ SaidBooks'
              /\ said.begun \subseteq said'.begun /\ said'.texts = said.texts
  <2> DEFINE p == [said.parts EXCEPT ![m.of] = said.parts[m.of] + 1]
             b == said.begun \cup {m.of}
  <2>1. p \in [Index -> Nat] /\ p = [said.parts EXCEPT ![m.of] = p[m.of]]
    BY <1>9, <1>10
  <2>2. /\ b \in {said.begun, said.begun \cup {m.of}} /\ m.of \in b /\ w \subseteq b
        /\ b = said.begun \/ Model!Begins(m.of)
    BY <1>10 DEF SaidBooks
  <2>3. said' = [said EXCEPT !.begun = b, !.parts = p, !.whole = w]
    BY <1>1, <1>10
  <2> HIDE DEF p, b
  <2> QED
    BY <1>8, <1>10, <2>1, <2>2, <2>3
<1>11. CASE Model!SendsInChat(m)
  <2>1. CASE m.kind = "args"
    <3>1. /\ m.of \in Index /\ said.end = "none"
          /\ Model!Begins(m.of) \/ m.of \in said.begun
          /\ said' = [said EXCEPT
                       !.begun = @ \cup {m.of}, !.parts[m.of] = @ + 1,
                       !.whole = IF said.parts[m.of] + 1 = Parts THEN @ \cup {m.of} ELSE @]
      BY ONLY <1>1, <1>11, <2>1 DEF Model!SendsInChat, Model!Event
    <3>2. PICK w \in {said.whole, said.whole \cup {m.of}} :
            said' = [said EXCEPT !.begun = said.begun \cup {m.of},
                                 !.parts[m.of] = said.parts[m.of] + 1, !.whole = w]
      <4>1. CASE said.parts[m.of] + 1 = Parts
        BY ONLY <3>1, <4>1
      <4>2. CASE said.parts[m.of] + 1 # Parts
        BY ONLY <3>1, <4>2
      <4> QED
        BY <4>1, <4>2
    <3> QED
      BY <1>1, <1>10, <2>1, <3>1, <3>2
  <2>2. CASE m.kind # "args"
    BY <1>6, <1>7, <1>11, <2>2 DEF Model!SendsInChat
  <2> QED
    BY <2>1, <2>2
<1>12. ASSUME m.of \in Index, said.end = "none", m.kind = "call", Model!Begins(m.of),
              said' = [said EXCEPT !.begun = said.begun \cup {m.of}]
       PROVE  /\ said' \in Response /\ SaidBooks'
              /\ said.begun \subseteq said'.begun /\ said'.texts = said.texts
  <2> DEFINE b == said.begun \cup {m.of}
  <2>1. /\ b \in {said.begun, said.begun \cup {m.of}} /\ m.of \in b /\ said.whole \subseteq b
        /\ said.parts \in [Index -> Nat]
        /\ said.parts = [said.parts EXCEPT ![m.of] = said.parts[m.of]]
    BY <1>1, <1>12 DEF SaidBooks
  <2>2. said' = [said EXCEPT !.begun = b, !.parts = said.parts, !.whole = said.whole]
    BY ONLY <1>1, <1>12 DEF Response
  <2> HIDE DEF b
  <2> QED
    BY <1>8, <1>12, <2>1, <2>2
<1>13. ASSUME m.of \in Index, said.end = "none", m.kind = "args", m.of \in said.begun,
              NEW k \in Nat, said' = [said EXCEPT !.parts[m.of] = k]
       PROVE  /\ said' \in Response /\ SaidBooks'
              /\ said.begun \subseteq said'.begun /\ said'.texts = said.texts
  <2> DEFINE p == [said.parts EXCEPT ![m.of] = k]
  <2>1. /\ p \in [Index -> Nat] /\ p = [said.parts EXCEPT ![m.of] = p[m.of]]
        /\ said.whole \subseteq said.begun
    <3>1. said.parts \in [Index -> Nat]
      BY <1>1
    <3> QED
      BY <1>13, <3>1 DEF SaidBooks
  <2>2. said' = [said EXCEPT !.begun = said.begun, !.parts = p, !.whole = said.whole]
    BY ONLY <1>1, <1>13 DEF Response
  <2> HIDE DEF p
  <2> QED
    BY <1>8, <1>13, <2>1, <2>2
<1>14. ASSUME m.of \in Index, said.end = "none", m.kind = "close", said.parts[m.of] # 0,
              said' = [said EXCEPT !.whole = said.whole \cup {m.of}]
       PROVE  /\ said' \in Response /\ SaidBooks'
              /\ said.begun \subseteq said'.begun /\ said'.texts = said.texts
  <2> DEFINE w == said.whole \cup {m.of}
  <2>1. /\ m.of \in said.begun /\ w \subseteq said.begun
        /\ w \in {said.whole, said.whole \cup {m.of}} /\ said.parts \in [Index -> Nat]
        /\ said.parts = [said.parts EXCEPT ![m.of] = said.parts[m.of]]
    BY <1>1, <1>14 DEF SaidBooks
  <2>2. said' = [said EXCEPT !.begun = said.begun, !.parts = said.parts, !.whole = w]
    BY ONLY <1>1, <1>14 DEF Response
  <2> HIDE DEF w
  <2> QED
    BY <1>8, <1>14, <2>1, <2>2
<1>15. CASE Model!SendsResponse(m)
  <2>1. CASE m.kind = "call"
    <3>1. /\ m.of \in Index /\ said.end = "none" /\ Model!Begins(m.of)
          /\ said' = [said EXCEPT !.begun = said.begun \cup {m.of}]
      BY ONLY <1>1, <1>15, <2>1 DEF Model!SendsResponse
    <3> QED
      BY <1>1, <1>12, <2>1, <3>1
  <2>2. CASE m.kind = "args"
    <3>1. /\ m.of \in Index /\ said.end = "none" /\ m.of \in said.begun
          /\ said' = [said EXCEPT !.parts[m.of] = 1]
      BY ONLY <1>1, <1>15, <2>2 DEF Model!SendsResponse
    <3> QED
      BY <1>1, <1>13, <2>2, <3>1
  <2>3. CASE m.kind = "close"
    <3>1. /\ m.of \in Index /\ said.end = "none" /\ said.parts[m.of] # 0
          /\ said' = [said EXCEPT !.whole = said.whole \cup {m.of}]
      BY ONLY <1>1, <1>15, <2>3 DEF Model!SendsResponse
    <3> QED
      BY <1>1, <1>14, <2>3, <3>1
  <2> QED
    BY <1>15, <2>1, <2>2, <2>3 DEF Model!SendsResponse
<1>16. CASE Model!SendsMessage(m)
  <2>1. CASE m.kind = "call"
    <3>1. /\ m.of \in Index /\ said.end = "none" /\ Model!Begins(m.of)
          /\ said' = [said EXCEPT !.begun = said.begun \cup {m.of}]
      BY ONLY <1>1, <1>16, <2>1 DEF Model!SendsMessage, Model!Event
    <3> QED
      BY <1>1, <1>12, <2>1, <3>1
  <2>2. CASE m.kind = "args"
    <3>1. /\ m.of \in Index /\ said.end = "none" /\ m.of \in said.begun
          /\ said' = [said EXCEPT !.parts[m.of] = said.parts[m.of] + 1]
      BY ONLY <1>1, <1>16, <2>2 DEF Model!SendsMessage, Model!Event
    <3>2. said.parts[m.of] + 1 \in Nat
      BY <1>9, <3>1
    <3> QED
      BY <1>1, <1>13, <2>2, <3>1, <3>2
  <2>3. CASE m.kind = "close"
    <3>1. /\ m.of \in Index /\ said.end = "none" /\ said.parts[m.of] # 0
          /\ said' = [said EXCEPT !.whole = said.whole \cup {m.of}]
      BY ONLY <1>1, <1>16, <2>3, ModelNumbers DEF Model!SendsMessage, Model!Event
    <3> QED
      BY <1>1, <1>14, <2>3, <3>1
  <2>4. CASE m.kind \notin {"call", "args", "close"}
    BY <1>6, <1>16, <2>4 DEF Model!SendsMessage
  <2> QED
    BY <2>1, <2>2, <2>3, <2>4
<1> QED
  BY <1>4, <1>5, <1>6, <1>11, <1>15, <1>16 DEF Model!Sends

(* What one event of the body is translated to.                            *)
LEMMA NoneOut ==
  /\ <<>> \in Seq(ModelEvent) /\ CallsIn(<<>>) = {}
  /\ \A k : At(k, <<>>) = {} /\ Number(k, <<>>) = 0
<1>1. \A k : At(k, <<>>) = {}
  BY DEF At
<1> QED
  BY <1>1, FS_EmptySet DEF Number, CallsIn

(* An event on its own.                                                    *)
LEMMA OneOut ==
  ASSUME NEW e \in ModelEvent
  PROVE  /\ <<e>> \in Seq(ModelEvent)
         /\ CallsIn(<<e>>) = IF e.kind = "call" THEN {e.of} ELSE {}
         /\ \A k : /\ At(k, <<e>>) = {} <=> e.kind # k
                   /\ Number(k, <<e>>) = IF e.kind = k THEN 1 ELSE 0
<1>1. <<e>> = Append(<<>>, e)
  OBVIOUS
<1>2. ASSUME NEW k
      PROVE  /\ Number(k, Append(<<>>, e)) = 0 + (IF e.kind = k THEN 1 ELSE 0)
             /\ At(k, Append(<<>>, e)) = {} <=> e.kind # k
             /\ CallsIn(Append(<<>>, e)) = {} \cup (IF e.kind = "call" THEN {e.of} ELSE {})
  <2> DEFINE s == <<>>
  <2>1. s \in Seq(ModelEvent) /\ CallsIn(s) = {} /\ At(k, s) = {} /\ Number(k, s) = 0
    BY NoneOut
  <2> HIDE DEF s
  <2>2. /\ Number(k, Append(s, e)) = 0 + (IF e.kind = k THEN 1 ELSE 0)
        /\ At(k, Append(s, e)) = {} <=> e.kind # k
        /\ CallsIn(Append(s, e)) = {} \cup (IF e.kind = "call" THEN {e.of} ELSE {})
    BY <2>1, PutOn
  <2> QED
    BY <2>2 DEF s
<1> QED
  BY <1>1, <1>2

(* What a parser hands over last: the usage, and the completion.           *)
LEMMA EndOut ==
  ASSUME NEW a \in ModelEvent, NEW b \in ModelEvent,
         a.kind \in {"usage", "error"}, b.kind \in {"stop", "length"}
  PROVE  /\ <<a, b>> \in Seq(ModelEvent) /\ CallsIn(<<a, b>>) = {}
         /\ Number("text", <<a, b>>) = 0 /\ Number("call", <<a, b>>) = 0
         /\ At("stop", <<a, b>>) = {} <=> b.kind # "stop"
         /\ At("error", <<a, b>>) = {} <=> a.kind # "error"
<1>1. <<a, b>> = Append(<<a>>, b)
  OBVIOUS
<1>2. /\ <<a>> \in Seq(ModelEvent) /\ CallsIn(<<a>>) = {}
      /\ \A k : /\ At(k, <<a>>) = {} <=> a.kind # k
                /\ Number(k, <<a>>) = IF a.kind = k THEN 1 ELSE 0
  BY OneOut
<1>3. ASSUME NEW k
      PROVE  /\ Number(k, Append(<<a>>, b)) = Number(k, <<a>>) + (IF b.kind = k THEN 1 ELSE 0)
             /\ At(k, Append(<<a>>, b)) = {} <=> a.kind # k /\ b.kind # k
             /\ CallsIn(Append(<<a>>, b)) = CallsIn(<<a>>)
  BY <1>2, PutOn
<1>4. Append(<<a>>, b) \in Seq(ModelEvent)
  BY <1>2, PutOn
<1>5. ASSUME NEW k \in {"text", "call"} PROVE Number(k, <<a, b>>) = 0
  <2>1. a.kind # k /\ b.kind # k
    OBVIOUS
  <2>2. Number(k, <<a>>) = 0 /\ Number(k, Append(<<a>>, b)) = Number(k, <<a>>) + 0
    BY <1>2, <1>3, <2>1
  <2>3. Number(k, Append(<<a>>, b)) = 0
    BY ONLY <2>2
  <2> QED
    BY ONLY <1>1, <2>3, Zenon
<1>6. \A k \in {"stop", "error"} : At(k, <<a, b>>) = {} <=> a.kind # k /\ b.kind # k
  BY <1>1, <1>3
<1>7. CallsIn(<<a, b>>) = {}
  BY <1>1, <1>2, <1>3
<1> QED
  BY <1>1, <1>4, <1>5, <1>6, <1>7

(* At the end of a chat all its calls go out, or there is an error.        *)
LEMMA FinishOut ==
  ASSUME NEW st, NEW n \in Nat, st.known = 1..n, NEW a \in ModelEvent, NEW b \in ModelEvent,
         a.kind \in {"usage", "error"}, b.kind \in {"stop", "length"}
  PROVE  LET q == Model!Listed(st) \o <<a, b>> IN
         /\ q \in Seq(ModelEvent)
         /\ At("error", q) = {} =>
              /\ CallsIn(q) = st.known
              /\ Number("text", q) = 0 /\ Number("call", q) = Cardinality(st.known)
              /\ At("stop", q) # {} => b.kind = "stop"
<1> DEFINE l == [i \in 1..n |-> IF st.held[i] = Parts THEN Model!Event("call", i) ELSE Model!Err]
           q == l \o <<a, b>>
<1>1. Model!Listed(st) = l
  <2>1. Model!Cardinality(st.known) = n
    BY SameCount, FS_Interval
  <2> QED
    BY <2>1 DEF Model!Listed
<1>2. \A i \in 1..n : l[i] \in ModelEvent /\ l[i] \in {Model!Event("call", i), Model!Err}
  BY DEF ModelEvent, Model!Event, Model!Err
<1>3. l \in Seq(ModelEvent) /\ Len(l) = n
  BY <1>2
<1>4. \A i \in 1..n : l[i].kind # "error" => l[i].kind = "call" /\ l[i].of = i
  BY <1>2 DEF Model!Event, Model!Err
<1> HIDE DEF l
<1>5. /\ q \in Seq(ModelEvent) /\ Len(q) = n + 2 /\ DOMAIN q = 1..(n + 2)
      /\ \A i \in 1..n : q[i] = l[i]
      /\ q[n + 1] = a /\ q[n + 2] = b
  BY <1>3
<1> HIDE DEF q
<1>6. ASSUME At("error", q) = {}
      PROVE  /\ CallsIn(q) = st.known
             /\ Number("text", q) = 0 /\ Number("call", q) = Cardinality(st.known)
             /\ At("stop", q) # {} => b.kind = "stop"
  <2>1. \A i \in 1..n : q[i].kind # "error"
    BY <1>5, <1>6 DEF At
  <2>2. \A i \in 1..n : q[i].kind = "call" /\ q[i].of = i
    BY <1>4, <1>5, <2>1
  <2>3. \A i \in DOMAIN q : i \in 1..n \/ i = n + 1 \/ i = n + 2
    BY <1>5
  <2>4. At("call", q) = 1..n /\ At("text", q) = {} /\ At("stop", q) \subseteq {n + 2}
    BY <1>5, <2>2, <2>3 DEF At
  <2>5. CallsIn(q) = 1..n
    BY <2>2, <2>4 DEF CallsIn
  <2>6. At("stop", q) # {} => b.kind = "stop"
    BY <1>5, <2>4 DEF At
  <2> QED
    BY <2>4, <2>5, <2>6, FS_EmptySet DEF Number
<1> QED
  BY <1>1, <1>5, <1>6 DEF q

(* The books after an event was translated: the calls S go out.            *)
LEMMA OutGrows ==
  ASSUME ModelTypes, OutBooks, queued = <<>>,
         UNCHANGED <<calls, channel, text, told, finish>>,
         queued' \in Seq(ModelEvent), NEW S \in SUBSET Index, S \cap Out = {},
         CallsIn(queued') = S, Number("call", queued') = Cardinality(S),
         said'.texts = said.texts + Number("text", queued'),
         Out \cup S \subseteq said'.begun,
         finish = "stop" \/ At("stop", channel) # {} \/ At("stop", queued') # {}
           => said'.end = "stop" /\ Out \cup S = said'.begun
  PROVE  OutBooks' /\ Out' = Out \cup S
<1>1. Out' = Out \cup S
  BY NoneOut DEF Out, Taken
<1>2. /\ Number("text", channel) \in Nat /\ Number("call", channel) \in Nat
      /\ Number("text", queued) = 0 /\ Number("call", queued) = 0
      /\ Number("text", queued') \in Nat /\ Number("call", queued') \in Nat
      /\ At("stop", queued) = {}
  BY AtFinite, NoneOut DEF ModelTypes
<1>3. /\ Number("text", channel)' = Number("text", channel)
      /\ Number("call", channel)' = Number("call", channel)
      /\ Number("text", queued)' = Number("text", queued')
      /\ Number("call", queued)' = Number("call", queued')
  BY DEF Number, At
<1>4. Cardinality(Out \cup S) = Cardinality(Out) + Cardinality(S)
  <2>1. Out \in SUBSET Index /\ IsFiniteSet(Out) /\ IsFiniteSet(S)
        /\ Cardinality(Out) \in Nat /\ Cardinality(S) \in Nat
    BY IndexFinite DEF OutBooks, ModelTypes, Response
  <2>2. Cardinality(Out \cup S) = Cardinality(Out) + Cardinality(S) - Cardinality(S \cap Out)
    BY <2>1, FS_Union
  <2> QED
    <3>1. Cardinality(S \cap Out) = 0
      BY FS_EmptySet
    <3> QED
      BY <2>1, <2>2, <3>1
<1>5. text' + Number("text", channel)' + Number("text", queued)' = told' + said'.texts
  <2>1. text + Number("text", channel) + 0 = told + said.texts
        /\ text \in Nat /\ told \in Nat /\ said.texts \in Nat
    BY <1>2 DEF OutBooks, ModelTypes, Response
  <2> QED
    BY <1>2, <1>3, <2>1
<1>6. Len(calls)' + Number("call", channel)' + Number("call", queued)' = Cardinality(Out')
  <2>1. Len(calls) + Number("call", channel) + 0 = Cardinality(Out) /\ Len(calls) \in Nat
    BY <1>2 DEF OutBooks, ModelTypes
  <2> QED
    BY <1>1, <1>2, <1>3, <1>4, <2>1
<1>7. finish' = "stop" \/ Comes("stop")' => said'.end = "stop" /\ Out' = said'.begun
  BY <1>1 DEF Comes, At
<1> QED
  BY <1>1, <1>5, <1>6, <1>7 DEF OutBooks

(* An event is translated while the run has not yet taken the next.        *)
Reads(m) ==
  /\ ModelTypes /\ SaidBooks /\ queued = <<>>
  /\ m \in Model!WireEvent /\ Model!Sends(m)
  /\ parser' = Model!Parse(parser, m).state /\ queued' = Model!Parse(parser, m).out
  /\ UNCHANGED <<dialect, calls, channel, text, told, finish>>

(* It is translated to no call: the books go on.                           *)
LEMMA NoCallOut ==
  ASSUME NEW m, Reads(m), OutBooks,
         queued' = IF m.kind = "text" THEN <<Model!Event("text", 0)>> ELSE <<>>
  PROVE  OutBooks' /\ Out' = Out
<1>1. /\ said.begun \subseteq said'.begun
      /\ said'.texts = said.texts + (IF m.kind = "text" THEN 1 ELSE 0)
      /\ said.end # "none" => said'.end = said.end /\ said'.begun = said.begun
  BY SendKeeps DEF Reads
<1>2. /\ queued' \in Seq(ModelEvent) /\ CallsIn(queued') = {} /\ At("stop", queued') = {}
      /\ Number("call", queued') = 0
      /\ Number("text", queued') = IF m.kind = "text" THEN 1 ELSE 0
  <2>1. CASE m.kind = "text"
    <3> DEFINE e == Model!Event("text", 0)
    <3>1. e \in ModelEvent /\ e.kind = "text"
      BY DEF ModelEvent, Model!Event
    <3> HIDE DEF e
    <3>2. queued' = <<e>>
      BY <2>1 DEF e
    <3> QED
      BY <2>1, <3>1, <3>2, OneOut
  <2>2. CASE m.kind # "text"
    <3>1. queued' = <<>>
      BY <2>2
    <3> QED
      BY <2>2, <3>1, NoneOut
  <2> QED
    BY <2>1, <2>2
<1>3. /\ said'.texts = said.texts + Number("text", queued')
      /\ finish = "stop" \/ At("stop", channel) # {} \/ At("stop", queued') # {}
           => said'.end = "stop" /\ Out \cup {} = said'.begun
      /\ Out \cup {} \subseteq said'.begun /\ {} \cap Out = {} /\ {} \in SUBSET Index
  BY <1>1, <1>2 DEF OutBooks, Comes
<1>4. Number("call", queued') = Cardinality({})
  BY <1>2, FS_EmptySet
<1>5. ASSUME NEW S \in SUBSET Index, S = {} PROVE OutBooks' /\ Out' = Out \cup S
  BY <1>2, <1>3, <1>4, <1>5, OutGrows DEF Reads
<1>6. OutBooks' /\ Out' = Out \cup {}
  BY ONLY <1>5, Zenon
<1> QED
  BY ONLY <1>6

(* It is translated to a call that did not go out before.                  *)
LEMMA CallOut ==
  ASSUME NEW m, Reads(m), OutBooks, m.kind # "text", NEW i \in Index, i \notin Out,
         i \in said.begun, said.end = "none", queued' = <<Model!Event("call", i)>>
  PROVE  OutBooks' /\ Out' = Out \cup {i}
<1>1. said.begun \subseteq said'.begun /\ said'.texts = said.texts + 0
  BY SendKeeps DEF Reads
<1>2. /\ queued' \in Seq(ModelEvent) /\ CallsIn(queued') = {i} /\ At("stop", queued') = {}
      /\ Number("call", queued') = 1 /\ Number("text", queued') = 0
  <2> DEFINE e == Model!Event("call", i)
  <2>1. e \in ModelEvent /\ e.kind = "call" /\ e.of = i
    BY ModelNumbers DEF ModelEvent, Model!Event, Index
  <2>2. queued' = <<e>>
    OBVIOUS
  <2> HIDE DEF e
  <2>3. /\ <<e>> \in Seq(ModelEvent) /\ CallsIn(<<e>>) = {i} /\ At("stop", <<e>>) = {}
        /\ Number("call", <<e>>) = 1 /\ Number("text", <<e>>) = 0
    BY <2>1, OneOut
  <2> QED
    BY <2>2, <2>3
<1>3. Number("call", queued') = Cardinality({i})
  BY <1>2, FS_Singleton
<1>4. /\ said'.texts = said.texts + Number("text", queued')
      /\ finish = "stop" \/ At("stop", channel) # {} \/ At("stop", queued') # {}
           => said'.end = "stop" /\ Out \cup {i} = said'.begun
      /\ Out \cup {i} \subseteq said'.begun /\ {i} \cap Out = {} /\ {i} \in SUBSET Index
  BY <1>1, <1>2 DEF OutBooks, Comes
<1> QED
  BY <1>2, <1>3, <1>4, OutGrows DEF Reads

(* It is translated to the completion, all the calls being out.            *)
LEMMA CompletionOut ==
  ASSUME NEW m, Reads(m), OutBooks, m.kind # "text", NEW k \in {"stop", "length"},
         k = "stop" => said'.end = "stop" /\ Out = said'.begun,
         queued' = <<Model!Event("usage", 0), Model!Event(k, 0)>>
  PROVE  OutBooks' /\ Out' = Out
<1>1. /\ said.begun \subseteq said'.begun /\ said'.texts = said.texts + 0
      /\ said.end # "none" => said'.end = said.end /\ said'.begun = said.begun
  BY SendKeeps DEF Reads
<1>2. /\ queued' \in Seq(ModelEvent) /\ CallsIn(queued') = {}
      /\ At("stop", queued') # {} => k = "stop"
      /\ Number("call", queued') = 0 /\ Number("text", queued') = 0
  <2> DEFINE a == Model!Event("usage", 0)
             b == Model!Event(k, 0)
  <2>1. /\ a \in ModelEvent /\ a.kind = "usage" /\ b \in ModelEvent /\ b.kind = k
    BY DEF ModelEvent, Model!Event
  <2>2. queued' = <<a, b>>
    OBVIOUS
  <2> HIDE DEF a, b
  <2> QED
    BY <2>1, <2>2, EndOut
<1>3. /\ said'.texts = said.texts + Number("text", queued')
      /\ finish = "stop" \/ At("stop", channel) # {} \/ At("stop", queued') # {}
           => said'.end = "stop" /\ Out \cup {} = said'.begun
      /\ Out \cup {} \subseteq said'.begun /\ {} \cap Out = {} /\ {} \in SUBSET Index
  BY <1>1, <1>2 DEF OutBooks, Comes
<1>4. Number("call", queued') = Cardinality({})
  BY <1>2, FS_EmptySet
<1>5. ASSUME NEW S \in SUBSET Index, S = {} PROVE OutBooks' /\ Out' = Out \cup S
  BY <1>2, <1>3, <1>4, <1>5, OutGrows DEF Reads
<1>6. OutBooks' /\ Out' = Out \cup {}
  BY ONLY <1>5, Zenon
<1> QED
  BY ONLY <1>6

(* What an event of a chat is translated to, kind by kind.                 *)
LEMMA ChatEventIs ==
  ASSUME NEW st, NEW m
  PROVE  /\ m.kind = "args" => Model!ChatEvent(st, m) =
              Model!Silent([st EXCEPT !.known = st.known \cup {m.of},
                                      !.held[m.of] = st.held[m.of] + 1])
         /\ m.kind = "text" => Model!ChatEvent(st, m) = Model!One(st, "text", 0)
         /\ m.kind \in {"stop", "length"} =>
              Model!ChatEvent(st, m) = Model!Silent([st EXCEPT !.end = m.kind])
         /\ m.kind = "usage" => Model!ChatEvent(st, m) = Model!Silent([st EXCEPT !.counted = TRUE])
         /\ m.kind = "end" => Model!ChatEvent(st, m) =
              Model!ChatFinish(st, IF st.end = "none" THEN "stop" ELSE st.end)
         /\ m.kind = "failure" => Model!ChatEvent(st, m) = Model!Failed([st EXCEPT !.over = TRUE])
         /\ m.kind = "junk" => Model!ChatEvent(st, m) = Model!Failed(st)
<1>1. CASE m.kind = "args"
  BY <1>1 DEF Model!ChatEvent
<1>2. CASE m.kind = "text"
  BY <1>2 DEF Model!ChatEvent
<1>3. CASE m.kind \in {"stop", "length"}
  BY <1>3 DEF Model!ChatEvent
<1>4. CASE m.kind = "usage"
  BY <1>4 DEF Model!ChatEvent
<1>5. CASE m.kind = "end"
  BY <1>5 DEF Model!ChatEvent
<1>6. CASE m.kind = "failure"
  BY <1>6 DEF Model!ChatEvent
<1>7. CASE m.kind = "junk"
  BY <1>7 DEF Model!ChatEvent
<1> QED
  BY <1>1, <1>2, <1>3, <1>4, <1>5, <1>6, <1>7

(* What is sent in a chat.                                                 *)
LEMMA ChatSends ==
  ASSUME NEW m, Reads(m), dialect = "chat"
  PROVE  /\ m.kind \in {"args", "usage", "end", "text", "stop", "length", "failure", "junk"}
         /\ m.kind = "args" =>
              /\ m.of \in Index /\ said.end = "none" /\ said'.end = said.end
              /\ said'.begun = said.begun \cup {m.of}
         /\ m.kind \in {"usage", "end", "text", "failure", "junk"} =>
              said'.begun = said.begun /\ said'.end = said.end
         /\ m.kind = "end" => said.end # "none" /\ said' = said
         /\ m.kind \in {"stop", "length"} =>
              said'.begun = said.begun /\ said'.end = m.kind /\ said.end = "none"
<1>1. said \in Response /\ Model!CallIndex = Index /\ m \in Model!WireEvent
      /\ (said.counted => said.end # "none")
  BY DEF Reads, ModelTypes, SaidBooks, Model!CallIndex, Index
<1>2. \/ Model!SendsInChat(m)
      \/ /\ m = Model!Event("text", 0)
         /\ said.end = "none" /\ said' = [said EXCEPT !.texts = said.texts + 1]
      \/ /\ m \in {Model!Event("stop", 0), Model!Event("length", 0)}
         /\ said.end = "none" /\ said' = [said EXCEPT !.end = m.kind]
      \/ m \in {Model!Event("failure", 0), Model!Event("junk", 0)} /\ UNCHANGED said
  BY DEF Reads, Model!Sends
<1>3. CASE Model!SendsInChat(m)
  <2>1. CASE m.kind = "args"
    <3>1. /\ m.of \in Index /\ said.end = "none"
          /\ said' = [said EXCEPT
                       !.begun = @ \cup {m.of}, !.parts[m.of] = @ + 1,
                       !.whole = IF said.parts[m.of] + 1 = Parts THEN @ \cup {m.of} ELSE @]
      BY ONLY <1>1, <1>3, <2>1 DEF Model!SendsInChat, Model!Event
    <3>2. said'.begun = said.begun \cup {m.of} /\ said'.end = said.end
      BY ONLY <1>1, <3>1 DEF Response
    <3> QED
      BY <2>1, <3>1, <3>2
  <2>2. CASE m.kind # "args"
    <3>1. \/ /\ m = Model!Event("usage", 0) /\ said.end # "none"
             /\ said' = [said EXCEPT !.counted = TRUE]
          \/ m = Model!Event("end", 0) /\ said.counted /\ UNCHANGED said
      BY ONLY <1>3, <2>2 DEF Model!SendsInChat
    <3>2. said'.begun = said.begun /\ said'.end = said.end
      BY ONLY <1>1, <3>1 DEF Response
    <3> QED
      BY <1>1, <3>1, <3>2 DEF Model!Event
  <2> QED
    BY <2>1, <2>2
<1>4. CASE /\ m = Model!Event("text", 0) /\ said.end = "none"
           /\ said' = [said EXCEPT !.texts = said.texts + 1]
  <2>1. said'.begun = said.begun /\ said'.end = said.end
    BY ONLY <1>1, <1>4 DEF Response
  <2> QED
    BY <1>4, <2>1 DEF Model!Event
<1>5. CASE /\ m \in {Model!Event("stop", 0), Model!Event("length", 0)}
           /\ said.end = "none" /\ said' = [said EXCEPT !.end = m.kind]
  <2>1. said'.begun = said.begun /\ said'.end = m.kind
    BY ONLY <1>1, <1>5 DEF Response
  <2> QED
    BY <1>5, <2>1 DEF Model!Event
<1>6. CASE m \in {Model!Event("failure", 0), Model!Event("junk", 0)} /\ UNCHANGED said
  BY <1>6 DEF Model!Event
<1> QED
  BY <1>2, <1>3, <1>4, <1>5, <1>6

(* An error on its own: nothing is promised of the turn any more.          *)
LEMMA FailedOut ==
  <<Model!Err>> \in Seq(ModelEvent) /\ At("error", <<Model!Err>>) # {}
<1>1. Model!Err \in ModelEvent /\ Model!Err.kind = "error"
  BY DEF ModelEvent, Model!Err, Model!Event
<1> QED
  BY <1>1, OneOut

(* The calls a chat holds are handed over as events.                       *)
LEMMA ListedFits ==
  ASSUME NEW st, st.known \in SUBSET Index, NEW a \in ModelEvent, NEW b \in ModelEvent
  PROVE  Model!Listed(st) \o <<a, b>> \in Seq(ModelEvent)
<1> DEFINE n == Cardinality(st.known)
           l == [i \in 1..n |-> IF st.held[i] = Parts THEN Model!Event("call", i) ELSE Model!Err]
<1>1. n \in Nat
  BY IndexFinite
<1>2. Model!Listed(st) = l
  BY SameCount DEF Model!Listed
<1> HIDE DEF n
<1>3. \A i \in 1..n : l[i] \in ModelEvent
  BY <1>1 DEF ModelEvent, Model!Event, Model!Err
<1>4. l \in Seq(ModelEvent)
  BY <1>1, <1>3
<1> HIDE DEF l
<1> QED
  BY <1>2, <1>4

(* ChatCompletionsSseStream::finish hands over all the calls begun, once.  *)
LEMMA ChatFinishes ==
  ASSUME ModelTypes, SaidBooks, queued = <<>>, dialect = "chat",
         UNCHANGED <<said, dialect, calls, channel, text, told, finish>>,
         NEW k \in {"stop", "length"}, k = IF parser.end = "none" THEN "stop" ELSE parser.end,
         ParserBooks => said.end # "none",
         parser' = Model!ChatFinish(parser, k).state, queued' = Model!ChatFinish(parser, k).out
  PROVE  /\ parser' \in Parser /\ queued' \in Seq(ModelEvent)
         /\ OutBooks /\ ParserBooks /\ At("error", queued') = {} => OutBooks' /\ ParserBooks'
<1>1. parser \in Parser /\ parser.known \in SUBSET Index /\ said \in Response /\ said' = said
      /\ dialect' = "chat"
  BY DEF ModelTypes, Parser
<1>2. CASE parser.over
  <2>1. parser' = parser /\ queued' = <<>>
    BY <1>2 DEF Model!ChatFinish, Model!Silent, Model!Result
  <2>2. OutBooks => OutBooks' /\ Out' = Out
    BY <2>1 DEF OutBooks, Out, Taken, Comes
  <2> QED
    BY <1>1, <2>1, <2>2, NoneOut DEF ParserBooks
<1>3. CASE ~parser.over
  <2> DEFINE a == IF parser.counted THEN Model!Event("usage", 0) ELSE Model!Err
             b == Model!Event(k, 0)
  <2>1. /\ a \in ModelEvent /\ a.kind \in {"usage", "error"} /\ b \in ModelEvent /\ b.kind = k
    BY DEF ModelEvent, Model!Event, Model!Err
  <2>2. /\ parser' = [parser EXCEPT !.over = TRUE]
        /\ queued' = Model!Listed(parser) \o <<a, b>>
    BY ONLY <1>3, Zenon, parser' = Model!ChatFinish(parser, k).state,
       queued' = Model!ChatFinish(parser, k).out
    DEF Model!ChatFinish, Model!Result
  <2> HIDE DEF a, b
  <2>3. PICK v \in BOOLEAN : v = TRUE /\ parser' = [parser EXCEPT !.over = v]
    BY ONLY <2>2, Zenon
  <2>4. /\ parser' \in Parser /\ parser'.over = v /\ parser'.known = parser.known
        /\ parser'.end = parser.end
    BY ONLY <1>1, <2>3 DEF Parser
  <2>5. queued' \in Seq(ModelEvent)
    <3>1. Model!Listed(parser) \o <<a, b>> \in Seq(ModelEvent)
      BY ONLY <1>1, <2>1, ListedFits
    <3> QED
      BY ONLY <2>2, <3>1
  <2>6. ASSUME OutBooks, ParserBooks, At("error", queued') = {}
        PROVE  OutBooks' /\ ParserBooks'
    <3>1. /\ parser.known = said.begun /\ parser.end = said.end /\ Out = {}
          /\ said.end # "none" /\ k = said.end
      BY <1>3, <2>6 DEF ParserBooks
    <3>2. PICK n \in Nat : parser.known = 1..n
      BY <3>1 DEF SaidBooks
    <3>3. /\ CallsIn(queued') = parser.known
          /\ Number("text", queued') = 0 /\ Number("call", queued') = Cardinality(parser.known)
          /\ At("stop", queued') # {} => k = "stop"
      <4> DEFINE q == Model!Listed(parser) \o <<a, b>>
      <4>1. /\ At("error", q) = {} =>
                 /\ CallsIn(q) = parser.known
                 /\ Number("text", q) = 0 /\ Number("call", q) = Cardinality(parser.known)
                 /\ At("stop", q) # {} => b.kind = "stop"
        BY ONLY <2>1, <3>2, k \in {"stop", "length"}, FinishOut
      <4>2. queued' = q
        BY <2>2
      <4> HIDE DEF q
      <4> QED
        BY ONLY <2>1, <2>6, <4>1, <4>2
    <3>4. /\ said'.texts = said.texts + Number("text", queued')
          /\ parser.known \cap Out = {} /\ Out \cup parser.known = said'.begun
          /\ finish = "stop" \/ At("stop", channel) # {} \/ At("stop", queued') # {}
               => said'.end = "stop"
      <4>1. said.texts + 0 = said.texts
        BY <1>1 DEF Response
      <4> QED
        BY <1>1, <2>6, <3>1, <3>3, <4>1 DEF OutBooks, Comes
    <3>5. OutBooks' /\ Out' = Out \cup parser.known
      BY <1>1, <2>5, <2>6, <3>3, <3>4, OutGrows
    <3> QED
      BY <1>1, <2>3, <2>4, <3>1, <3>5 DEF ParserBooks
  <2> QED
    BY <2>4, <2>5, <2>6
<1> QED
  BY <1>2, <1>3

(* Reading an event of a chat keeps the books.                             *)
LEMMA ChatReads ==
  ASSUME NEW m, Reads(m), dialect = "chat"
  PROVE  /\ parser' \in Parser /\ queued' \in Seq(ModelEvent)
         /\ OutBooks /\ ParserBooks /\ At("error", queued') = {} => OutBooks' /\ ParserBooks'
<1> DEFINE r == Model!ChatEvent(parser, m)
<1>1. /\ r = Model!Parse(parser, m) /\ parser' = r.state /\ queued' = r.out /\ dialect' = "chat"
      /\ parser \in Parser /\ said.begun \in SUBSET Index /\ m.of \in Nat
      /\ said \in Response /\ said' \in Response
  BY SendKeeps DEF Reads, Model!Parse, ModelTypes, Response, Model!WireEvent
<1>7. /\ m.kind = "args" => r = Model!Silent([parser EXCEPT !.known = parser.known \cup {m.of},
                                                      !.held[m.of] = parser.held[m.of] + 1])
      /\ m.kind = "text" => r = Model!One(parser, "text", 0)
      /\ m.kind \in {"stop", "length"} => r = Model!Silent([parser EXCEPT !.end = m.kind])
      /\ m.kind = "usage" => r = Model!Silent([parser EXCEPT !.counted = TRUE])
      /\ m.kind = "end" =>
           r = Model!ChatFinish(parser, IF parser.end = "none" THEN "stop" ELSE parser.end)
      /\ m.kind = "failure" => r = Model!Failed([parser EXCEPT !.over = TRUE])
      /\ m.kind = "junk" => r = Model!Failed(parser)
  BY ONLY ChatEventIs
<1> HIDE DEF r
<1>2. CASE m.kind = "args"
  <2>1. m.of \in Index /\ parser.held \in [Index -> Nat]
    BY <1>1, <1>2, ChatSends DEF Parser
  <2>2. /\ queued' = <<>>
        /\ parser' = [parser EXCEPT !.known = parser.known \cup {m.of},
                                    !.held[m.of] = parser.held[m.of] + 1]
    BY ONLY <1>1, <1>7, <1>2 DEF Model!Silent, Model!Result
  <2>3. PICK h \in [Index -> Nat] :
          parser' = [parser EXCEPT !.known = parser.known \cup {m.of}, !.held = h]
    <3>1. parser.held[m.of] + 1 \in Nat
      BY <2>1
    <3>2. [parser.held EXCEPT ![m.of] = parser.held[m.of] + 1] \in [Index -> Nat]
      BY ONLY <2>1, <3>1
    <3> QED
      BY <2>2, <3>2
  <2>4. /\ parser' \in Parser /\ parser'.known = parser.known \cup {m.of}
        /\ parser'.end = parser.end /\ parser'.over = parser.over
    <3>1. parser.known \cup {m.of} \in SUBSET Index
      BY <1>1, <2>1 DEF Parser
    <3> QED
      BY ONLY <1>1, <2>3, <3>1 DEF Parser
  <2>5. ASSUME OutBooks, ParserBooks PROVE OutBooks' /\ ParserBooks'
    <3>1. OutBooks' /\ Out' = Out
      BY <1>2, <2>2, <2>5, NoCallOut
    <3> QED
      BY <1>1, <1>2, <2>4, <2>5, <3>1, ChatSends DEF ParserBooks
  <2> QED
    BY <2>2, <2>4, <2>5, NoneOut
<1>3. CASE m.kind = "text"
  <2>1. queued' = <<Model!Event("text", 0)>> /\ parser' = parser
    BY ONLY <1>1, <1>7, <1>3 DEF Model!One, Model!Result
  <2>2. ASSUME OutBooks, ParserBooks PROVE OutBooks' /\ ParserBooks'
    <3>1. OutBooks' /\ Out' = Out
      BY <1>3, <2>1, <2>2, NoCallOut
    <3> QED
      BY <1>1, <1>3, <2>1, <2>2, <3>1, ChatSends DEF ParserBooks
  <2>3. Model!Event("text", 0) \in ModelEvent
    BY DEF Model!Event, ModelEvent
  <2> QED
    BY <1>1, <2>1, <2>2, <2>3, OneOut
<1>4. CASE m.kind \in {"stop", "length"}
  <2>1. queued' = <<>> /\ parser' = [parser EXCEPT !.end = m.kind]
    BY ONLY <1>1, <1>7, <1>4 DEF Model!Silent, Model!Result
  <2>2. /\ parser' \in Parser /\ parser'.known = parser.known
        /\ parser'.end = m.kind /\ parser'.over = parser.over
    BY ONLY <1>1, <1>4, <2>1 DEF Parser
  <2>3. ASSUME OutBooks, ParserBooks PROVE OutBooks' /\ ParserBooks'
    <3>1. OutBooks' /\ Out' = Out
      BY <1>4, <2>1, <2>3, NoCallOut
    <3> QED
      BY <1>1, <1>4, <2>2, <2>3, <3>1, ChatSends DEF ParserBooks
  <2> QED
    BY <2>1, <2>2, <2>3, NoneOut
<1>5. CASE m.kind = "usage"
  <2>1. queued' = <<>> /\ \E v \in BOOLEAN : parser' = [parser EXCEPT !.counted = v]
    <3>1. queued' = <<>> /\ parser' = [parser EXCEPT !.counted = TRUE]
      BY ONLY <1>1, <1>7, <1>5 DEF Model!Silent, Model!Result
    <3> QED
      BY ONLY <3>1, Zenon
  <2>2. /\ parser' \in Parser /\ parser'.known = parser.known
        /\ parser'.end = parser.end /\ parser'.over = parser.over
    BY ONLY <1>1, <2>1 DEF Parser
  <2>3. ASSUME OutBooks, ParserBooks PROVE OutBooks' /\ ParserBooks'
    <3>1. OutBooks' /\ Out' = Out
      BY <1>5, <2>1, <2>3, NoCallOut
    <3> QED
      BY <1>1, <1>5, <2>2, <2>3, <3>1, ChatSends DEF ParserBooks
  <2> QED
    BY <2>1, <2>2, <2>3, NoneOut
<1>6. CASE m.kind \in {"failure", "junk"}
  <2>1. queued' = <<Model!Err>>
    BY ONLY <1>1, <1>7, <1>6 DEF Model!Failed, Model!One, Model!Result, Model!Err
  <2>2. parser' = parser \/ \E v \in BOOLEAN : parser' = [parser EXCEPT !.over = v]
    <3>1. parser' = parser \/ parser' = [parser EXCEPT !.over = TRUE]
      <4>1. CASE m.kind = "failure"
        BY ONLY <1>1, <1>7, <4>1 DEF Model!Failed, Model!One, Model!Result
      <4>2. CASE m.kind = "junk"
        BY ONLY <1>1, <1>7, <4>2 DEF Model!Failed, Model!One, Model!Result
      <4> QED
        BY <1>6, <4>1, <4>2
    <3> QED
      BY ONLY <3>1, Zenon
  <2>3. parser' \in Parser
    BY ONLY <1>1, <2>2 DEF Parser
  <2> QED
    BY <2>1, <2>3, FailedOut
<1>8. CASE m.kind = "end"
  <2> DEFINE k == IF parser.end = "none" THEN "stop" ELSE parser.end
  <2>1. k \in {"stop", "length"}
    BY <1>1 DEF Parser
  <2>2. /\ parser' = Model!ChatFinish(parser, k).state
        /\ queued' = Model!ChatFinish(parser, k).out
    BY ONLY <1>1, <1>7, <1>8
  <2>3. /\ said.end # "none" /\ queued = <<>> /\ ModelTypes /\ SaidBooks
        /\ UNCHANGED <<said, dialect, calls, channel, text, told, finish>>
    BY <1>1, <1>8, ChatSends DEF Reads
  <2> HIDE DEF k
  <2>4. k = IF parser.end = "none" THEN "stop" ELSE parser.end
    BY DEF k
  <2> QED
    BY <2>1, <2>2, <2>3, <2>4, ChatFinishes
<1> QED
  BY <1>2, <1>3, <1>4, <1>5, <1>6, <1>8, ChatSends

(* What is sent in a response or a message.                                *)
LEMMA ItemSends ==
  ASSUME NEW m, Reads(m), dialect # "chat"
  PROVE  /\ m.kind \in {"call", "args", "close", "end", "text", "stop", "length", "failure",
                        "junk"}
         /\ m.kind = "call" =>
              /\ m.of \in Index \ said.begun /\ said.end = "none" /\ said'.end = said.end
              /\ said'.begun = said.begun \cup {m.of} /\ said'.whole = said.whole
         /\ m.kind = "args" => m.of \in said.begun /\ said.end = "none"
         /\ m.kind \in {"args", "end", "text", "failure", "junk"} =>
              said'.begun = said.begun /\ said'.end = said.end /\ said'.whole = said.whole
         /\ m.kind = "close" =>
              /\ m.of \in said.begun \ said.whole /\ said.end = "none" /\ said'.end = said.end
              /\ said'.begun = said.begun /\ said'.whole = said.whole \cup {m.of}
         /\ m.kind = "end" => said.end # "none" /\ dialect = "messages"
         /\ m.kind \in {"stop", "length"} =>
              /\ said'.begun = said.begun /\ said'.whole = said.whole
              /\ said'.end = m.kind /\ said.end = "none"
              /\ m.kind = "stop" => said.begun \subseteq said.whole
<1>1. /\ said \in Response /\ said.begun \in SUBSET Index
      /\ Model!CallIndex = Index /\ m \in Model!WireEvent /\ Parts \in Nat \ {0}
      /\ \A i \in Index : said.parts[i] # 0 => i \in said.begun
  BY ModelNumbers DEF Reads, ModelTypes, Response, SaidBooks, Model!CallIndex, Index
<1>2. \/ Model!SendsResponse(m)
      \/ dialect = "messages" /\ Model!SendsMessage(m)
      \/ /\ m = Model!Event("text", 0)
         /\ said.end = "none" /\ said' = [said EXCEPT !.texts = said.texts + 1]
      \/ /\ m \in {Model!Event("stop", 0), Model!Event("length", 0)}
         /\ said.end = "none" /\ (m.kind = "stop" => Model!Finished)
         /\ said' = [said EXCEPT !.end = m.kind]
      \/ m \in {Model!Event("failure", 0), Model!Event("junk", 0)} /\ UNCHANGED said
  <2>1. Model!Sends(m)
    BY DEF Reads
  <2> QED
    BY ONLY <2>1, dialect # "chat" DEF Model!Sends
<1>3. CASE m.kind = "call" /\ (Model!SendsResponse(m) \/ Model!SendsMessage(m))
  <2>1. /\ m.of \in Index \ said.begun /\ said.end = "none"
        /\ said' = [said EXCEPT !.begun = said.begun \cup {m.of}]
    BY ONLY <1>1, <1>3
    DEF Model!SendsResponse, Model!SendsMessage, Model!Event, Model!Begins
  <2>2. /\ said'.end = said.end /\ said'.begun = said.begun \cup {m.of}
        /\ said'.whole = said.whole
    BY ONLY <1>1, <2>1 DEF Response
  <2> QED
    BY <1>3, <2>1, <2>2
<1>4. CASE m.kind = "args" /\ (Model!SendsResponse(m) \/ Model!SendsMessage(m))
  <2>1. /\ m.of \in said.begun /\ said.end = "none"
        /\ \/ said' = [said EXCEPT !.parts[m.of] = 1]
           \/ said' = [said EXCEPT !.parts[m.of] = said.parts[m.of] + 1]
    BY ONLY <1>1, <1>4 DEF Model!SendsResponse, Model!SendsMessage, Model!Event
  <2>2. said'.end = said.end /\ said'.begun = said.begun /\ said'.whole = said.whole
    BY ONLY <1>1, <2>1 DEF Response
  <2> QED
    BY <1>4, <2>1, <2>2
<1>5. CASE m.kind = "close" /\ (Model!SendsResponse(m) \/ Model!SendsMessage(m))
  <2>1. /\ m.of \in Index \ said.whole /\ said.parts[m.of] # 0 /\ said.end = "none"
        /\ said' = [said EXCEPT !.whole = said.whole \cup {m.of}]
    BY ONLY <1>1, <1>5 DEF Model!SendsResponse, Model!SendsMessage, Model!Event
  <2>2. /\ said'.end = said.end /\ said'.begun = said.begun
        /\ said'.whole = said.whole \cup {m.of}
    BY ONLY <1>1, <2>1 DEF Response
  <2>3. m.of \in said.begun
    BY <1>1, <2>1
  <2> QED
    BY <1>5, <2>1, <2>2, <2>3
<1>6. CASE Model!SendsResponse(m)
  BY <1>3, <1>4, <1>5, <1>6 DEF Model!SendsResponse
<1>7. CASE dialect = "messages" /\ Model!SendsMessage(m)
  <2>1. CASE m = Model!Event("end", 0) /\ said.end # "none" /\ UNCHANGED said
    BY <1>7, <2>1 DEF Model!Event
  <2> QED
    BY <1>3, <1>4, <1>5, <1>7, <2>1 DEF Model!SendsMessage
<1>8. CASE /\ m = Model!Event("text", 0) /\ said.end = "none"
           /\ said' = [said EXCEPT !.texts = said.texts + 1]
  <2>1. said'.begun = said.begun /\ said'.end = said.end /\ said'.whole = said.whole
    BY ONLY <1>1, <1>8 DEF Response
  <2> QED
    BY <1>8, <2>1 DEF Model!Event
<1>9. CASE /\ m \in {Model!Event("stop", 0), Model!Event("length", 0)}
           /\ said.end = "none" /\ (m.kind = "stop" => Model!Finished)
           /\ said' = [said EXCEPT !.end = m.kind]
  <2>1. said'.begun = said.begun /\ said'.end = m.kind /\ said'.whole = said.whole
    BY ONLY <1>1, <1>9 DEF Response
  <2>2. m.kind = "stop" => said.begun \subseteq said.whole
    BY <1>9 DEF Model!Finished
  <2> QED
    BY <1>9, <2>1, <2>2 DEF Model!Event
<1>10. CASE m \in {Model!Event("failure", 0), Model!Event("junk", 0)} /\ UNCHANGED said
  BY <1>10 DEF Model!Event
<1> QED
  BY <1>2, <1>6, <1>7, <1>8, <1>9, <1>10

(* What an event of a response is translated to, kind by kind.             *)
LEMMA ResponsesEventIs ==
  ASSUME NEW st, NEW m
  PROVE  /\ m.kind = "call" => Model!ResponsesEvent(st, m) =
              Model!Silent([st EXCEPT !.known = st.known \cup {m.of}])
         /\ m.kind = "args" => Model!ResponsesEvent(st, m) =
              IF m.of \in st.known
                THEN Model!Emit([st EXCEPT !.known = st.known \ {m.of}], m.of)
                ELSE Model!Failed(st)
         /\ m.kind = "close" => Model!ResponsesEvent(st, m) = Model!Emit(st, m.of)
         /\ m.kind = "text" => Model!ResponsesEvent(st, m) = Model!One(st, "text", 0)
         /\ m.kind \in {"stop", "length"} => Model!ResponsesEvent(st, m) =
              IF st.over THEN Model!Failed(st)
              ELSE Model!Result([st EXCEPT !.over = TRUE],
                                <<Model!Event("usage", 0), Model!Event(m.kind, 0)>>)
         /\ m.kind = "failure" =>
              Model!ResponsesEvent(st, m) = Model!Failed([st EXCEPT !.over = TRUE])
         /\ m.kind = "junk" => Model!ResponsesEvent(st, m) = Model!Failed(st)
<1>1. CASE m.kind = "call"
  BY <1>1 DEF Model!ResponsesEvent
<1>2. CASE m.kind = "args"
  BY <1>2 DEF Model!ResponsesEvent
<1>3. CASE m.kind = "close"
  BY <1>3 DEF Model!ResponsesEvent
<1>4. CASE m.kind = "text"
  BY <1>4 DEF Model!ResponsesEvent
<1>5. CASE m.kind \in {"stop", "length"}
  BY <1>5 DEF Model!ResponsesEvent
<1>6. CASE m.kind = "failure"
  BY <1>6 DEF Model!ResponsesEvent
<1>7. CASE m.kind = "junk"
  BY <1>7 DEF Model!ResponsesEvent
<1> QED
  BY <1>1, <1>2, <1>3, <1>4, <1>5, <1>6, <1>7

(* What an event of a message is translated to, kind by kind.              *)
LEMMA MessagesEventIs ==
  ASSUME NEW st, NEW m
  PROVE  /\ m.kind = "call" => Model!MessagesEvent(st, m) =
              Model!Silent([st EXCEPT !.known = st.known \cup {m.of}])
         /\ m.kind = "args" => Model!MessagesEvent(st, m) =
              Model!Silent(IF m.of \in st.known
                             THEN [st EXCEPT !.held[m.of] = st.held[m.of] + 1] ELSE st)
         /\ m.kind = "close" => Model!MessagesEvent(st, m) =
              IF m.of \notin st.known THEN Model!Silent(st)
              ELSE Model!One([st EXCEPT !.known = st.known \ {m.of}],
                             IF st.held[m.of] = Parts THEN "call" ELSE "error", m.of)
         /\ m.kind = "text" => Model!MessagesEvent(st, m) = Model!One(st, "text", 0)
         /\ m.kind \in {"stop", "length"} =>
              Model!MessagesEvent(st, m) = Model!Silent([st EXCEPT !.end = m.kind])
         /\ m.kind = "end" => Model!MessagesEvent(st, m) =
              IF st.over THEN Model!Silent(st)
              ELSE Model!Result([st EXCEPT !.over = TRUE],
                                <<Model!Event("usage", 0),
                                  Model!Event(IF st.end = "none" THEN "stop" ELSE st.end, 0)>>)
         /\ m.kind = "failure" =>
              Model!MessagesEvent(st, m) = Model!Failed([st EXCEPT !.over = TRUE])
         /\ m.kind = "junk" => Model!MessagesEvent(st, m) = Model!Failed(st)
<1>1. CASE m.kind = "call"
  BY <1>1 DEF Model!MessagesEvent
<1>2. CASE m.kind = "args"
  BY <1>2 DEF Model!MessagesEvent
<1>3. CASE m.kind = "close"
  BY <1>3 DEF Model!MessagesEvent
<1>4. CASE m.kind = "text"
  BY <1>4 DEF Model!MessagesEvent
<1>5. CASE m.kind \in {"stop", "length"}
  BY <1>5 DEF Model!MessagesEvent
<1>6. CASE m.kind = "end"
  BY <1>6 DEF Model!MessagesEvent
<1>7. CASE m.kind = "failure"
  BY <1>7 DEF Model!MessagesEvent
<1>8. CASE m.kind = "junk"
  BY <1>8 DEF Model!MessagesEvent
<1> QED
  BY <1>1, <1>2, <1>3, <1>4, <1>5, <1>6, <1>7, <1>8

(* The translation of an error, and of a text, in every protocol.          *)
LEMMA ErrorReads ==
  ASSUME NEW m, Reads(m), NEW st, st = parser \/ st = [parser EXCEPT !.over = TRUE],
         Model!Parse(parser, m) = Model!Failed(st)
  PROVE  parser' \in Parser /\ queued' \in Seq(ModelEvent) /\ At("error", queued') # {}
<1>1. parser' = st /\ queued' = <<Model!Err>>
  BY DEF Reads, Model!Failed, Model!One, Model!Result, Model!Err
<1>2. parser \in Parser
  BY DEF Reads, ModelTypes
<1>3. \E v \in BOOLEAN : st = parser \/ st = [parser EXCEPT !.over = v]
  BY Zenon
<1>4. st \in Parser
  BY ONLY <1>2, <1>3 DEF Parser
<1> QED
  BY <1>1, <1>4, FailedOut

(* A text is handed over as it comes, in every protocol.                   *)
LEMMA TextReads ==
  ASSUME NEW m, Reads(m), dialect # "chat", m.kind = "text",
         Model!Parse(parser, m) = Model!One(parser, "text", 0)
  PROVE  /\ parser' \in Parser /\ queued' \in Seq(ModelEvent)
         /\ OutBooks /\ ParserBooks => OutBooks' /\ ParserBooks'
<1>1. queued' = <<Model!Event("text", 0)>> /\ parser' = parser
  BY DEF Reads, Model!One, Model!Result
<1>2. Model!Event("text", 0) \in ModelEvent /\ parser \in Parser /\ dialect' = dialect
  BY DEF Model!Event, ModelEvent, Reads, ModelTypes
<1>3. ASSUME OutBooks, ParserBooks PROVE OutBooks' /\ ParserBooks'
  <2>1. OutBooks' /\ Out' = Out
    BY <1>1, <1>3, NoCallOut
  <2> QED
    BY <1>1, <1>2, <1>3, <2>1, ItemSends DEF ParserBooks
<1> QED
  BY <1>1, <1>2, <1>3, OneOut

(* The usage and the completion are events.                                *)
LEMMA CompletionFits ==
  ASSUME NEW k \in {"stop", "length"}
  PROVE  <<Model!Event("usage", 0), Model!Event(k, 0)>> \in Seq(ModelEvent)
<1> DEFINE a == Model!Event("usage", 0)
           b == Model!Event(k, 0)
<1>1. /\ a \in ModelEvent /\ a.kind = "usage" /\ b \in ModelEvent /\ b.kind = k
  BY DEF ModelEvent, Model!Event
<1> HIDE DEF a, b
<1>2. <<a, b>> \in Seq(ModelEvent)
  BY <1>1, EndOut
<1> QED
  BY <1>2 DEF a, b

(* A call goes out once.                                                   *)
LEMMA EmitReads ==
  ASSUME NEW m, Reads(m), dialect = "responses", m.kind \in {"args", "close"},
         NEW st \in Parser, st.emitted = parser.emitted, st.over = parser.over,
         Model!Parse(parser, m) = Model!Emit(st, m.of)
  PROVE  /\ parser' \in Parser /\ queued' \in Seq(ModelEvent)
         /\ OutBooks /\ ParserBooks => OutBooks' /\ ParserBooks'
<1>1. /\ parser' = Model!Emit(st, m.of).state /\ queued' = Model!Emit(st, m.of).out
      /\ m.of \in Index /\ m.of \in said.begun /\ said.end = "none" /\ dialect' = "responses"
  BY ItemSends DEF Reads, ModelTypes, Response
<1>2. CASE m.of \in parser.emitted
  <2>1. parser' = st /\ queued' = <<>>
    BY <1>1, <1>2 DEF Model!Emit, Model!Silent, Model!Result
  <2>2. ASSUME OutBooks, ParserBooks PROVE OutBooks' /\ ParserBooks'
    <3>1. OutBooks' /\ Out' = Out
      BY <2>1, <2>2, NoCallOut
    <3> QED
      BY <1>1, <1>2, <2>1, <2>2, <3>1, ItemSends DEF ParserBooks
  <2> QED
    BY <2>1, <2>2, NoneOut
<1>3. CASE m.of \notin parser.emitted
  <2>1. /\ parser' = [st EXCEPT !.emitted = st.emitted \cup {m.of}]
        /\ queued' = <<Model!Event("call", m.of)>>
    BY <1>1, <1>3 DEF Model!Emit, Model!One, Model!Result
  <2>2. parser.emitted \cup {m.of} \in SUBSET Index
    BY <1>1 DEF Reads, ModelTypes, Parser
  <2>3. /\ parser' \in Parser /\ parser'.emitted = parser.emitted \cup {m.of}
        /\ parser'.over = parser.over
    BY ONLY <2>1, <2>2, st \in Parser, st.emitted = parser.emitted, st.over = parser.over
    DEF Parser
  <2>4. Model!Event("call", m.of) \in ModelEvent
    BY <1>1, ModelNumbers DEF Model!Event, ModelEvent, Index
  <2>5. ASSUME OutBooks, ParserBooks PROVE OutBooks' /\ ParserBooks'
    <3>1. m.of \notin Out
      BY <1>3, <2>5 DEF ParserBooks
    <3>2. OutBooks' /\ Out' = Out \cup {m.of}
      BY <1>1, <2>1, <2>5, <3>1, CallOut
    <3> QED
      BY <1>1, <2>3, <2>5, <3>2, ItemSends DEF ParserBooks
  <2> QED
    BY <2>1, <2>3, <2>4, <2>5, OneOut
<1> QED
  BY <1>2, <1>3

(* Reading an event of a response keeps the books.                         *)
LEMMA ResponsesReads ==
  ASSUME NEW m, Reads(m), dialect = "responses"
  PROVE  /\ parser' \in Parser /\ queued' \in Seq(ModelEvent)
         /\ OutBooks /\ ParserBooks /\ At("error", queued') = {} => OutBooks' /\ ParserBooks'
<1> DEFINE r == Model!Parse(parser, m)
<1>1. /\ parser' = r.state /\ queued' = r.out /\ dialect' = "responses"
      /\ parser \in Parser /\ said.begun \in SUBSET Index
  BY DEF Reads, ModelTypes, Response
<1>2. r = Model!ResponsesEvent(parser, m)
  BY DEF Model!Parse
<1>3. CASE m.kind = "call"
  <2>1. r = Model!Silent([parser EXCEPT !.known = parser.known \cup {m.of}])
    BY ONLY <1>2, <1>3, ResponsesEventIs
  <2> HIDE DEF r
  <2>2. queued' = <<>> /\ parser' = [parser EXCEPT !.known = parser.known \cup {m.of}]
    BY ONLY <1>1, <2>1 DEF Model!Silent, Model!Result
  <2>3. parser.known \cup {m.of} \in SUBSET Index
    BY <1>1, <1>3, ItemSends DEF Parser
  <2>4. parser' \in Parser /\ parser'.emitted = parser.emitted /\ parser'.over = parser.over
    BY ONLY <1>1, <2>2, <2>3 DEF Parser
  <2>5. ASSUME OutBooks, ParserBooks PROVE OutBooks' /\ ParserBooks'
    <3>1. OutBooks' /\ Out' = Out
      BY <1>3, <2>2, <2>5, NoCallOut
    <3> QED
      BY <1>1, <1>3, <2>4, <2>5, <3>1, ItemSends DEF ParserBooks
  <2> QED
    BY <2>2, <2>4, <2>5, NoneOut
<1>4. CASE m.kind = "args"
  <2>1. CASE m.of \in parser.known
    <3> DEFINE st == [parser EXCEPT !.known = parser.known \ {m.of}]
    <3>1. r = Model!Emit(st, m.of)
      BY ONLY <1>2, <1>4, <2>1, ResponsesEventIs
    <3>2. parser.known \ {m.of} \in SUBSET Index
      BY <1>1 DEF Parser
    <3>3. st \in Parser /\ st.emitted = parser.emitted /\ st.over = parser.over
      BY ONLY <1>1, <3>2 DEF Parser
    <3> HIDE DEF st
    <3> QED
      BY <1>4, <3>1, <3>3, EmitReads
  <2>2. CASE m.of \notin parser.known
    <3>1. r = Model!Failed(parser)
      BY ONLY <1>2, <1>4, <2>2, ResponsesEventIs
    <3> QED
      BY <3>1, ErrorReads
  <2> QED
    BY <2>1, <2>2
<1>5. CASE m.kind = "close"
  <2>1. r = Model!Emit(parser, m.of)
    BY ONLY <1>2, <1>5, ResponsesEventIs
  <2> QED
    BY <1>1, <1>5, <2>1, EmitReads
<1>6. CASE m.kind = "text"
  <2>1. r = Model!One(parser, "text", 0)
    BY ONLY <1>2, <1>6, ResponsesEventIs
  <2> QED
    BY <1>6, <2>1, TextReads
<1>7. CASE m.kind \in {"stop", "length"}
  <2>1. CASE parser.over
    <3>1. r = Model!Failed(parser)
      BY ONLY <1>2, <1>7, <2>1, ResponsesEventIs
    <3> QED
      BY <3>1, ErrorReads
  <2>2. CASE ~parser.over
    <3>1. r = Model!Result([parser EXCEPT !.over = TRUE],
                           <<Model!Event("usage", 0), Model!Event(m.kind, 0)>>)
      BY ONLY <1>2, <1>7, <2>2, ResponsesEventIs
    <3> HIDE DEF r
    <3>2. /\ parser' = [parser EXCEPT !.over = TRUE]
          /\ queued' = <<Model!Event("usage", 0), Model!Event(m.kind, 0)>>
      BY ONLY <1>1, <3>1 DEF Model!Result
    <3>3. PICK v \in BOOLEAN : parser' = [parser EXCEPT !.over = v]
      BY ONLY <3>2, Zenon
    <3>4. parser' \in Parser /\ parser'.emitted = parser.emitted
      BY ONLY <1>1, <3>3 DEF Parser
    <3>5. ASSUME OutBooks, ParserBooks PROVE OutBooks' /\ ParserBooks'
      <4>1. m.kind = "stop" => said'.end = "stop" /\ Out = said'.begun
        BY <1>7, <3>5, ItemSends DEF OutBooks, ParserBooks
      <4>2. OutBooks' /\ Out' = Out
        BY <1>7, <3>2, <3>5, <4>1, CompletionOut
      <4> QED
        BY <1>1, <1>7, <3>4, <3>5, <4>2, ItemSends DEF ParserBooks
    <3>6. queued' \in Seq(ModelEvent)
      BY <1>7, <3>2, CompletionFits
    <3> QED
      BY <3>4, <3>5, <3>6
  <2> QED
    BY <2>1, <2>2
<1>8. CASE m.kind = "failure"
  <2>1. r = Model!Failed([parser EXCEPT !.over = TRUE])
    BY ONLY <1>2, <1>8, ResponsesEventIs
  <2> QED
    BY <2>1, ErrorReads
<1>9. CASE m.kind = "junk"
  <2>1. r = Model!Failed(parser)
    BY ONLY <1>2, <1>9, ResponsesEventIs
  <2> QED
    BY <2>1, ErrorReads
<1> QED
  BY <1>3, <1>4, <1>5, <1>6, <1>7, <1>8, <1>9, ItemSends

(* Reading an event of a message keeps the books.                          *)
LEMMA MessagesReads ==
  ASSUME NEW m, Reads(m), dialect = "messages"
  PROVE  /\ parser' \in Parser /\ queued' \in Seq(ModelEvent)
         /\ OutBooks /\ ParserBooks /\ At("error", queued') = {} => OutBooks' /\ ParserBooks'
<1> DEFINE r == Model!Parse(parser, m)
<1>1. /\ parser' = r.state /\ queued' = r.out /\ dialect' = "messages"
      /\ parser \in Parser /\ said.begun \in SUBSET Index /\ said.whole \subseteq said.begun
  BY DEF Reads, ModelTypes, Response, SaidBooks
<1>2. r = Model!MessagesEvent(parser, m)
  BY DEF Model!Parse
<1>3. CASE m.kind = "call"
  <2>1. r = Model!Silent([parser EXCEPT !.known = parser.known \cup {m.of}])
    BY ONLY <1>2, <1>3, MessagesEventIs
  <2> HIDE DEF r
  <2>2. queued' = <<>> /\ parser' = [parser EXCEPT !.known = parser.known \cup {m.of}]
    BY ONLY <1>1, <2>1 DEF Model!Silent, Model!Result
  <2>3. parser.known \cup {m.of} \in SUBSET Index
    BY <1>1, <1>3, ItemSends DEF Parser
  <2>4. /\ parser' \in Parser /\ parser'.known = parser.known \cup {m.of}
        /\ parser'.over = parser.over /\ parser'.end = parser.end
    BY ONLY <1>1, <2>2, <2>3 DEF Parser
  <2>5. ASSUME OutBooks, ParserBooks PROVE OutBooks' /\ ParserBooks'
    <3>1. OutBooks' /\ Out' = Out
      BY <1>3, <2>2, <2>5, NoCallOut
    <3> QED
      BY <1>1, <1>3, <2>4, <2>5, <3>1, ItemSends DEF ParserBooks
  <2> QED
    BY <2>2, <2>4, <2>5, NoneOut
<1>4. CASE m.kind = "args"
  <2> DEFINE st == IF m.of \in parser.known
                     THEN [parser EXCEPT !.held[m.of] = parser.held[m.of] + 1] ELSE parser
  <2>1. r = Model!Silent(st)
    BY ONLY <1>2, <1>4, MessagesEventIs
  <2>2. /\ st \in Parser /\ st.known = parser.known /\ st.over = parser.over
        /\ st.end = parser.end
    <3>1. CASE m.of \in parser.known
      <4>1. m.of \in Index /\ parser.held \in [Index -> Nat]
        BY <1>1, <3>1 DEF Parser
      <4>2. parser.held[m.of] + 1 \in Nat
        BY <4>1
      <4>3. [parser.held EXCEPT ![m.of] = parser.held[m.of] + 1] \in [Index -> Nat]
        BY ONLY <4>1, <4>2
      <4>4. PICK h \in [Index -> Nat] : st = [parser EXCEPT !.held = h]
        BY <3>1, <4>3
      <4> HIDE DEF st
      <4> QED
        BY ONLY <1>1, <4>4 DEF Parser
    <3>2. CASE m.of \notin parser.known
      BY <1>1, <3>2
    <3> QED
      BY <3>1, <3>2
  <2> HIDE DEF r, st
  <2>3. queued' = <<>> /\ parser' = st
    BY ONLY <1>1, <2>1 DEF Model!Silent, Model!Result
  <2>4. ASSUME OutBooks, ParserBooks PROVE OutBooks' /\ ParserBooks'
    <3>1. OutBooks' /\ Out' = Out
      BY <1>4, <2>3, <2>4, NoCallOut
    <3> QED
      BY <1>1, <1>4, <2>2, <2>3, <2>4, <3>1, ItemSends DEF ParserBooks
  <2> QED
    BY <2>2, <2>3, <2>4, NoneOut
<1>5. CASE m.kind = "close"
  <2>0. /\ m.of \in Index /\ m.of \in said.begun \ said.whole /\ said.end = "none"
        /\ said'.end = said.end /\ said'.begun = said.begun
        /\ said'.whole = said.whole \cup {m.of}
    BY <1>1, <1>5, ItemSends
  <2>1. CASE m.of \notin parser.known
    <3>1. r = Model!Silent(parser)
      BY ONLY <1>2, <1>5, <2>1, MessagesEventIs
    <3> HIDE DEF r
    <3>2. queued' = <<>> /\ parser' = parser
      BY ONLY <1>1, <3>1 DEF Model!Silent, Model!Result
    <3>3. ~ParserBooks
      BY <2>0, <2>1 DEF ParserBooks
    <3> QED
      BY <1>1, <3>2, <3>3, NoneOut
  <2>2. CASE m.of \in parser.known
    <3> DEFINE k == IF parser.held[m.of] = Parts THEN "call" ELSE "error"
    <3>1. r = Model!One([parser EXCEPT !.known = parser.known \ {m.of}], k, m.of)
      BY ONLY <1>2, <1>5, <2>2, MessagesEventIs
    <3>2. k \in {"call", "error"}
      OBVIOUS
    <3> HIDE DEF r, k
    <3>3. /\ parser' = [parser EXCEPT !.known = parser.known \ {m.of}]
          /\ queued' = <<Model!Event(k, m.of)>>
      BY ONLY <1>1, <3>1 DEF Model!One, Model!Result
    <3>4. parser.known \ {m.of} \in SUBSET Index
      BY <1>1 DEF Parser
    <3>5. /\ parser' \in Parser /\ parser'.known = parser.known \ {m.of}
          /\ parser'.over = parser.over /\ parser'.end = parser.end
      BY ONLY <1>1, <3>3, <3>4 DEF Parser
    <3>6. Model!Event(k, m.of) \in ModelEvent /\ Model!Event(k, m.of).kind = k
      BY <2>0, <3>2, ModelNumbers DEF Model!Event, ModelEvent, Index
    <3>7. queued' \in Seq(ModelEvent) /\ (At("error", queued') = {} => k = "call")
      BY <3>2, <3>3, <3>6, OneOut
    <3>8. ASSUME OutBooks, ParserBooks, k = "call" PROVE OutBooks' /\ ParserBooks'
      <4>1. m.of \notin Out
        BY <2>0, <3>8 DEF ParserBooks
      <4>2. OutBooks' /\ Out' = Out \cup {m.of}
        BY <1>5, <2>0, <3>3, <3>8, <4>1, CallOut
      <4> QED
        BY <1>1, <2>0, <3>5, <3>8, <4>2 DEF ParserBooks
    <3> QED
      BY <3>5, <3>7, <3>8
  <2> QED
    BY <2>1, <2>2
<1>6. CASE m.kind = "text"
  <2>1. r = Model!One(parser, "text", 0)
    BY ONLY <1>2, <1>6, MessagesEventIs
  <2> QED
    BY <1>6, <2>1, TextReads
<1>7. CASE m.kind \in {"stop", "length"}
  <2>1. r = Model!Silent([parser EXCEPT !.end = m.kind])
    BY ONLY <1>2, <1>7, MessagesEventIs
  <2> HIDE DEF r
  <2>2. queued' = <<>> /\ parser' = [parser EXCEPT !.end = m.kind]
    BY ONLY <1>1, <2>1 DEF Model!Silent, Model!Result
  <2>3. /\ parser' \in Parser /\ parser'.known = parser.known
        /\ parser'.over = parser.over /\ parser'.end = m.kind
    BY ONLY <1>1, <1>7, <2>2 DEF Parser
  <2>4. ASSUME OutBooks, ParserBooks PROVE OutBooks' /\ ParserBooks'
    <3>1. OutBooks' /\ Out' = Out
      BY <1>7, <2>2, <2>4, NoCallOut
    <3> QED
      BY <1>1, <1>7, <2>3, <2>4, <3>1, ItemSends DEF ParserBooks
  <2> QED
    BY <2>2, <2>3, <2>4, NoneOut
<1>8. CASE m.kind = "end"
  <2>0. /\ said.end # "none" /\ said'.begun = said.begun /\ said'.end = said.end
        /\ said'.whole = said.whole
    BY <1>8, ItemSends
  <2>1. CASE parser.over
    <3>1. r = Model!Silent(parser)
      BY ONLY <1>2, <1>8, <2>1, MessagesEventIs
    <3> HIDE DEF r
    <3>2. queued' = <<>> /\ parser' = parser
      BY ONLY <1>1, <3>1 DEF Model!Silent, Model!Result
    <3>3. ASSUME OutBooks, ParserBooks PROVE OutBooks' /\ ParserBooks'
      <4>1. OutBooks' /\ Out' = Out
        BY <1>8, <3>2, <3>3, NoCallOut
      <4> QED
        BY <1>1, <2>0, <3>2, <3>3, <4>1 DEF ParserBooks
    <3> QED
      BY <1>1, <3>2, <3>3, NoneOut
  <2>2. CASE ~parser.over
    <3> DEFINE k == IF parser.end = "none" THEN "stop" ELSE parser.end
    <3>1. r = Model!Result([parser EXCEPT !.over = TRUE],
                           <<Model!Event("usage", 0), Model!Event(k, 0)>>)
      BY ONLY <1>2, <1>8, <2>2, MessagesEventIs
    <3>2. k \in {"stop", "length"}
      BY <1>1 DEF Parser
    <3>3. ParserBooks => k = said.end
      BY <1>1, <2>0 DEF ParserBooks
    <3> HIDE DEF r, k
    <3>4. /\ parser' = [parser EXCEPT !.over = TRUE]
          /\ queued' = <<Model!Event("usage", 0), Model!Event(k, 0)>>
      BY ONLY <1>1, <3>1 DEF Model!Result
    <3>5. PICK v \in BOOLEAN : parser' = [parser EXCEPT !.over = v]
      BY ONLY <3>4, Zenon
    <3>6. parser' \in Parser /\ parser'.known = parser.known /\ parser'.end = parser.end
      BY ONLY <1>1, <3>5 DEF Parser
    <3>7. ASSUME OutBooks, ParserBooks PROVE OutBooks' /\ ParserBooks'
      <4>1. k = "stop" => said'.end = "stop" /\ Out = said'.begun
        BY <1>1, <2>0, <3>3, <3>7 DEF Reads, SaidBooks, ParserBooks
      <4>2. OutBooks' /\ Out' = Out
        BY <1>8, <3>2, <3>4, <3>7, <4>1, CompletionOut
      <4> QED
        BY <1>1, <2>0, <3>6, <3>7, <4>2 DEF ParserBooks
    <3>8. queued' \in Seq(ModelEvent)
      BY <3>2, <3>4, CompletionFits
    <3> QED
      BY <3>6, <3>7, <3>8
  <2> QED
    BY <2>1, <2>2
<1>9. CASE m.kind = "failure"
  <2>1. r = Model!Failed([parser EXCEPT !.over = TRUE])
    BY ONLY <1>2, <1>9, MessagesEventIs
  <2> QED
    BY <2>1, ErrorReads
<1>10. CASE m.kind = "junk"
  <2>1. r = Model!Failed(parser)
    BY ONLY <1>2, <1>10, MessagesEventIs
  <2> QED
    BY <2>1, ErrorReads
<1> QED
  BY <1>3, <1>4, <1>5, <1>6, <1>7, <1>8, <1>9, <1>10, ItemSends

(* The thread reads an event of the body.                                  *)
LEMMA ReadEventKeeps ==
  ASSUME ModelInv, Model!ReadEvent PROVE ModelInv'
<1>1. PICK m \in Model!WireEvent :
        /\ Model!Sends(m) /\ parser' = Model!Parse(parser, m).state
        /\ queued' = Model!Parse(parser, m).out
  BY DEF Model!ReadEvent
<1>2. /\ thread = "running" /\ queued = <<>>
      /\ UNCHANGED <<dialect, link, thread, channel, state, turns, more, text, calls, finish,
                     told, cancelled>>
  BY DEF Model!ReadEvent, Model!Reading, Model!run
<1>3. Reads(m)
  BY <1>1, <1>2 DEF ModelInv, Reads
<1>4. said' \in Response /\ SaidBooks'
  BY <1>3, SendKeeps DEF Reads
<1>5. /\ parser' \in Parser /\ queued' \in Seq(ModelEvent)
      /\ OutBooks /\ ParserBooks /\ At("error", queued') = {} => OutBooks' /\ ParserBooks'
  <2>1. dialect \in {"chat", "responses", "messages"}
    BY ModelNumbers DEF ModelInv, ModelTypes
  <2> QED
    BY <1>3, <2>1, ChatReads, ResponsesReads, MessagesReads
<1>6. ModelTypes'
  BY <1>2, <1>4, <1>5 DEF ModelInv, ModelTypes
<1>7. RunBooks'
  BY <1>2 DEF ModelInv, RunBooks
<1>8. Fine' => OutBooks /\ ParserBooks /\ At("error", queued') = {}
  <2>1. Fine' => At("error", channel) = {} /\ At("error", queued') = {}
    BY <1>2 DEF Fine, Comes, At
  <2>2. At("error", queued) = {}
    BY <1>2, NoneOut
  <2> QED
    BY <1>2, <2>1, <2>2 DEF ModelInv, Fine, Comes
<1> QED
  BY <1>4, <1>5, <1>6, <1>7, <1>8 DEF ModelInv

(* The end of the body.                                                    *)
LEMMA ParseEndIs ==
  \/ Model!ParseEnd(parser) \in {Model!Silent(parser), Model!Failed(parser)}
  \/ /\ dialect = "chat" /\ parser.end # "none"
     /\ Model!ParseEnd(parser) = Model!ChatFinish(parser, parser.end)
BY DEF Model!ParseEnd

(* Translating the end of the body keeps the books.                        *)
LEMMA ParseEndReads ==
  ASSUME ModelTypes, SaidBooks, queued = <<>>,
         UNCHANGED <<said, dialect, calls, channel, text, told, finish>>,
         parser' = Model!ParseEnd(parser).state, queued' = Model!ParseEnd(parser).out
  PROVE  /\ parser' \in Parser /\ queued' \in Seq(ModelEvent)
         /\ OutBooks /\ ParserBooks /\ At("error", queued') = {} => OutBooks' /\ ParserBooks'
<1>1. parser \in Parser
  BY DEF ModelTypes
<1>2. CASE Model!ParseEnd(parser) = Model!Silent(parser)
  <2>1. parser' = parser /\ queued' = <<>>
    BY <1>2 DEF Model!Silent, Model!Result
  <2>2. (OutBooks => OutBooks') /\ (ParserBooks => ParserBooks')
    BY <2>1 DEF OutBooks, ParserBooks, Out, Taken, Comes
  <2> QED
    BY <1>1, <2>1, <2>2, NoneOut
<1>3. CASE Model!ParseEnd(parser) = Model!Failed(parser)
  <2>1. parser' = parser /\ queued' = <<Model!Err>>
    BY <1>3 DEF Model!Failed, Model!One, Model!Result, Model!Err
  <2> QED
    BY <1>1, <2>1, FailedOut
<1>4. CASE /\ dialect = "chat" /\ parser.end # "none"
           /\ Model!ParseEnd(parser) = Model!ChatFinish(parser, parser.end)
  <2> DEFINE k == parser.end
  <2>1. k \in {"stop", "length"} /\ k = (IF parser.end = "none" THEN "stop" ELSE parser.end)
    BY <1>1, <1>4 DEF Parser
  <2>2. ParserBooks => said.end # "none"
    BY <1>4 DEF ParserBooks
  <2>3. parser' = Model!ChatFinish(parser, k).state /\ queued' = Model!ChatFinish(parser, k).out
    BY <1>4
  <2> HIDE DEF k
  <2> QED
    BY <1>4, <2>1, <2>2, <2>3, ChatFinishes
<1> QED
  BY <1>2, <1>3, <1>4, ParseEndIs

(* The end of the body is translated to events.                            *)
LEMMA ParseEndFits ==
  ASSUME ModelTypes
  PROVE  Model!ParseEnd(parser).state \in Parser /\ Model!ParseEnd(parser).out \in Seq(ModelEvent)
<1> DEFINE r == Model!ParseEnd(parser)
<1>1. parser \in Parser /\ parser.known \in SUBSET Index /\ parser.over \in BOOLEAN
  BY DEF ModelTypes, Parser
<1>2. CASE r = Model!Silent(parser)
  <2>1. r.state = parser /\ r.out = <<>>
    BY <1>2 DEF Model!Silent, Model!Result
  <2> QED
    BY <1>1, <2>1, NoneOut
<1>3. CASE r = Model!Failed(parser)
  <2>1. r.state = parser /\ r.out = <<Model!Err>>
    BY <1>3 DEF Model!Failed, Model!One, Model!Result, Model!Err
  <2> QED
    BY <1>1, <2>1, FailedOut
<1>4. CASE parser.end # "none" /\ r = Model!ChatFinish(parser, parser.end)
  <2>1. CASE parser.over
    <3>1. r.state = parser /\ r.out = <<>>
      BY <1>4, <2>1 DEF Model!ChatFinish, Model!Silent, Model!Result
    <3> QED
      BY <1>1, <3>1, NoneOut
  <2>2. CASE ~parser.over
    <3> DEFINE a == IF parser.counted THEN Model!Event("usage", 0) ELSE Model!Err
               b == Model!Event(parser.end, 0)
    <3>1. a \in ModelEvent /\ b \in ModelEvent
      BY <1>1, <1>4 DEF ModelEvent, Model!Event, Model!Err, Parser
    <3>2. r = Model!Result([parser EXCEPT !.over = TRUE], Model!Listed(parser) \o <<a, b>>)
      BY ONLY <1>4, <2>2, Zenon DEF Model!ChatFinish
    <3> HIDE DEF r, a, b
    <3>3. r.state = [parser EXCEPT !.over = TRUE] /\ r.out = Model!Listed(parser) \o <<a, b>>
      BY ONLY <3>2 DEF Model!Result
    <3>4. PICK v \in BOOLEAN : r.state = [parser EXCEPT !.over = v]
      BY ONLY <3>3, Zenon
    <3>5. r.state \in Parser
      BY ONLY <1>1, <3>4 DEF Parser
    <3>6. Model!Listed(parser) \o <<a, b>> \in Seq(ModelEvent)
      BY ONLY <1>1, <3>1, ListedFits
    <3> QED
      BY <3>3, <3>5, <3>6 DEF r
  <2> QED
    BY <1>1, <2>1, <2>2
<1> QED
  BY <1>2, <1>3, <1>4, ParseEndIs

(* The thread reads to the end of the body, or cannot read on.             *)
LEMMA ReadEndKeeps ==
  ASSUME ModelInv, Model!ReadEnd PROVE ModelInv'
<1>1. /\ thread = "running" /\ queued = <<>>
      /\ UNCHANGED <<dialect, said, thread, channel, state, turns, more, text, calls, finish,
                     told, cancelled>>
      /\ link' \in {"drained", link}
  BY DEF Model!ReadEnd, Model!Reading, Model!run
<1>2. /\ parser' \in Parser /\ queued' \in Seq(ModelEvent)
      /\ OutBooks /\ ParserBooks /\ At("error", queued') = {} => OutBooks' /\ ParserBooks'
  <2>1. CASE parser' = parser /\ queued' = <<Model!Err>>
    BY <2>1, FailedOut DEF ModelInv, ModelTypes
  <2>2. CASE /\ parser' = Model!ParseEnd(parser).state
             /\ queued' = Model!ParseEnd(parser).out
    BY <1>1, <2>2, ParseEndReads DEF ModelInv
  <2>3. CASE /\ parser' = Model!ParseEnd(parser).state
             /\ queued' = <<Model!Err>> \o Model!ParseEnd(parser).out
    <3> DEFINE rest == Model!ParseEnd(parser).out
    <3>1. parser' \in Parser /\ rest \in Seq(ModelEvent)
      BY <2>3, ParseEndFits DEF ModelInv
    <3>2. Model!Err \in ModelEvent /\ Model!Err.kind = "error"
      BY DEF ModelEvent, Model!Err, Model!Event
    <3>3. queued' = <<Model!Err>> \o rest
      BY <2>3
    <3> HIDE DEF rest
    <3>4. queued' \in Seq(ModelEvent) /\ 1 \in DOMAIN queued' /\ queued'[1] = Model!Err
      BY ONLY <3>1, <3>2, <3>3
    <3>5. 1 \in At("error", queued')
      BY <3>2, <3>4 DEF At
    <3> QED
      BY <3>1, <3>4, <3>5
  <2>4. ASSUME NEW cut \in BOOLEAN
        PROVE  LET rest == IF cut THEN Model!Failed(parser) ELSE Model!Silent(parser)
               IN  /\ rest.state = parser
                   /\ rest.out = IF cut THEN <<Model!Err>> ELSE <<>>
    BY DEF Model!Failed, Model!Silent, Model!One, Model!Result, Model!Err
  <2>5. <<>> \o Model!ParseEnd(parser).out = Model!ParseEnd(parser).out
    BY ParseEndFits DEF ModelInv
  <2> QED
    BY <2>1, <2>2, <2>3, <2>4, <2>5 DEF Model!ReadEnd
<1>3. ModelTypes'
  BY <1>1, <1>2 DEF ModelInv, ModelTypes
<1>4. RunBooks' /\ SaidBooks'
  BY <1>1 DEF ModelInv, RunBooks, SaidBooks
<1>5. Fine' => OutBooks /\ ParserBooks /\ At("error", queued') = {}
  <2>1. Fine' => At("error", channel) = {} /\ At("error", queued') = {}
    BY <1>1 DEF Fine, Comes, At
  <2>2. At("error", queued) = {}
    BY <1>1, NoneOut
  <2> QED
    BY <1>1, <2>1, <2>2 DEF ModelInv, Fine, Comes
<1> QED
  BY <1>2, <1>3, <1>4, <1>5 DEF ModelInv

(* The other steps of the thread: it gets an error instead of a response,  *)
(* passes an event on, or ends.                                            *)
LEMMA RequestKeeps ==
  ASSUME ModelInv, Model!Request \/ Model!ReadCancelled \/ Model!ConnectionEnds
  PROVE  ModelInv'
<1>1. /\ UNCHANGED <<dialect, said, parser, thread, channel, state, turns, more, text, calls,
                     finish, told, cancelled>>
      /\ link' \in {"none", "asked", "open", "ended", "broken", "drained"}
      /\ queued' = queued \/ queued' = <<Model!Err>>
      /\ queued' # queued \/ link' # link => link \notin {"none", "drained"}
      /\ queued' # queued => queued' = <<Model!Err>>
  BY DEF ModelInv, ModelTypes, Model!Request, Model!ReadCancelled, Model!ConnectionEnds,
    Model!worker, Model!run, Model!stream, Model!Reading
<1>2. ModelTypes' /\ SaidBooks' /\ RunBooks'
  <2>1. queued' \in Seq(ModelEvent)
    BY <1>1, FailedOut DEF ModelInv, ModelTypes
  <2>2. ModelTypes' /\ SaidBooks'
    BY <1>1, <2>1 DEF ModelInv, ModelTypes, SaidBooks
  <2>3. RunBooks'
    BY <1>1 DEF ModelInv, RunBooks, Taken
  <2> QED
    BY <2>2, <2>3
<1>3. CASE queued' = queued
  BY <1>1, <1>2, <1>3 DEF ModelInv, Fine, Comes, OutBooks, ParserBooks, Out, Taken
<1>4. CASE queued' = <<Model!Err>>
  <2>1. ~Fine'
    BY <1>4, FailedOut DEF Fine, Comes, At
  <2> QED
    BY <1>2, <2>1 DEF ModelInv
<1> QED
  BY <1>1, <1>3, <1>4

(* The books are about what is on its way, however much has been handed on. *)
LEMMA EventPassed ==
  ASSUME ModelTypes, queued # <<>>, channel' = Append(channel, Head(queued)),
         queued' = Tail(queued)
  PROVE  /\ channel' \in Seq(ModelEvent) /\ Len(channel') = Len(channel) + 1
         /\ queued' \in Seq(ModelEvent)
         /\ CallsIn(channel') \cup CallsIn(queued') = CallsIn(channel) \cup CallsIn(queued)
         /\ \A k : /\ Number(k, channel') + Number(k, queued')
                        = Number(k, channel) + Number(k, queued)
                   /\ At(k, channel') # {} \/ At(k, queued') # {}
                        <=> At(k, channel) # {} \/ At(k, queued) # {}
<1>1. queued \in Seq(ModelEvent) /\ channel \in Seq(ModelEvent)
  BY DEF ModelTypes
<1> DEFINE h == Head(queued)
           rest == Tail(queued)
           to == Append(channel, h)
<1>2. /\ h \in ModelEvent /\ rest \in Seq(ModelEvent)
      /\ CallsIn(queued) = CallsIn(rest) \cup (IF h.kind = "call" THEN {h.of} ELSE {})
      /\ \A k : /\ Number(k, queued) = Number(k, rest) + (IF h.kind = k THEN 1 ELSE 0)
                /\ At(k, queued) = {} <=> At(k, rest) = {} /\ h.kind # k
  BY <1>1, TakeOff
<1> HIDE DEF h, rest
<1>3. /\ to \in Seq(ModelEvent) /\ Len(to) = Len(channel) + 1
      /\ CallsIn(to) = CallsIn(channel) \cup (IF h.kind = "call" THEN {h.of} ELSE {})
      /\ \A k : /\ Number(k, to) = Number(k, channel) + (IF h.kind = k THEN 1 ELSE 0)
                /\ At(k, to) = {} <=> At(k, channel) = {} /\ h.kind # k
  <2>1. channel \in Seq(ModelEvent) /\ h \in ModelEvent
    BY <1>1, <1>2
  <2>2. ASSUME NEW k
        PROVE  /\ to \in Seq(ModelEvent) /\ Len(to) = Len(channel) + 1
               /\ CallsIn(to) = CallsIn(channel) \cup (IF h.kind = "call" THEN {h.of} ELSE {})
               /\ Number(k, to) = Number(k, channel) + (IF h.kind = k THEN 1 ELSE 0)
               /\ At(k, to) = {} <=> At(k, channel) = {} /\ h.kind # k
    BY ONLY <2>1, PutOn
  <2> QED
    BY ONLY <2>2
<1>4. channel' = to /\ queued' = rest
  BY DEF h, rest
<1> HIDE DEF to
<1>5. \A k : /\ Number(k, channel) \in Nat /\ Number(k, rest) \in Nat
  BY <1>1, <1>2, AtFinite
<1>6. ASSUME NEW k
      PROVE  /\ Number(k, to) + Number(k, rest) = Number(k, channel) + Number(k, queued)
             /\ At(k, to) # {} \/ At(k, rest) # {} <=> At(k, channel) # {} \/ At(k, queued) # {}
  <2>1. /\ Number(k, queued) = Number(k, rest) + (IF h.kind = k THEN 1 ELSE 0)
        /\ Number(k, to) = Number(k, channel) + (IF h.kind = k THEN 1 ELSE 0)
        /\ Number(k, channel) \in Nat /\ Number(k, rest) \in Nat
    BY <1>2, <1>3, <1>5
  <2>2. /\ At(k, queued) = {} <=> At(k, rest) = {} /\ h.kind # k
        /\ At(k, to) = {} <=> At(k, channel) = {} /\ h.kind # k
    BY <1>2, <1>3
  <2> QED
    BY ONLY <2>1, <2>2
<1>7. CallsIn(to) \cup CallsIn(rest) = CallsIn(channel) \cup CallsIn(queued)
  BY ONLY <1>2, <1>3
<1> QED
  BY ONLY <1>2, <1>3, <1>4, <1>6, <1>7

(* The thread hands an event on, or ends.                                  *)
LEMMA PassKeeps ==
  ASSUME ModelInv, Model!Pass \/ Model!ThreadEnds PROVE ModelInv'
<1> USE ModelNumbers DEF Model!run
<1>1. /\ thread = "running"
      /\ UNCHANGED <<dialect, said, state, turns, more, text, calls, finish, told, cancelled>>
  BY DEF Model!Pass, Model!ThreadEnds
<1>2. ASSUME Model!End PROVE /\ thread' = "ended" /\ queued' = <<>> /\ link' = "none"
                             /\ parser' \in Parser /\ queued' \in Seq(ModelEvent)
  <2>1. Model!Fresh \in Parser
    BY DEF Model!Fresh, Parser, Model!CallIndex, Index
  <2> QED
    BY <1>2, <2>1, NoneOut DEF Model!End
<1>3. CASE Model!ThreadEnds
  <2>1. queued = <<>> /\ Model!End /\ UNCHANGED channel
    BY <1>3 DEF Model!ThreadEnds
  <2>2. ModelTypes' /\ SaidBooks' /\ RunBooks' /\ thread' # "running"
    BY <1>1, <1>2, <2>1 DEF ModelInv, ModelTypes, SaidBooks, RunBooks, Taken
  <2>3. UNCHANGED <<queued, channel>>
    BY <1>2, <2>1
  <2> QED
    BY <1>1, <2>2, <2>3 DEF ModelInv, Fine, Comes, OutBooks, Out, Taken
<1>4. CASE Model!Pass /\ channel' = channel
  <2>1. state # "reading" /\ Model!End
    <3>1. channel' = Append(channel, Head(queued)) => FALSE
      <4>1. channel \in Seq(ModelEvent) /\ queued \in Seq(ModelEvent) /\ queued # <<>>
        BY <1>4 DEF ModelInv, ModelTypes, Model!Pass
      <4>2. Head(queued) \in ModelEvent
        BY <4>1, TakeOff
      <4>3. Len(Append(channel, Head(queued))) = Len(channel) + 1 /\ Len(channel) \in Nat
        BY <4>1, <4>2, AppendProperties
      <4> QED
        BY <1>4, <4>3
    <3> QED
      BY <1>4, <3>1 DEF Model!Pass
  <2>2. ~Fine'
    BY <1>1, <2>1 DEF Fine
  <2> QED
    BY <1>1, <1>2, <1>4, <2>1, <2>2
      DEF ModelInv, ModelTypes, SaidBooks, RunBooks, Taken
<1>5. CASE Model!Pass /\ channel' # channel
  <2>1. /\ queued # <<>> /\ state = "reading" /\ Len(channel) < Channel
        /\ channel' = Append(channel, Head(queued))
        /\ \/ cancelled /\ Model!End
           \/ ~cancelled /\ queued' = Tail(queued) /\ UNCHANGED <<parser, thread, link>>
    BY <1>5 DEF Model!Pass
  <2>2. Len(channel') <= Channel /\ channel' \in Seq(ModelEvent)
    <3>1. channel \in Seq(ModelEvent) /\ queued \in Seq(ModelEvent) /\ queued # <<>>
      BY <2>1 DEF ModelInv, ModelTypes
    <3>2. Head(queued) \in ModelEvent
      BY <3>1, TakeOff
    <3>3. /\ Append(channel, Head(queued)) \in Seq(ModelEvent)
          /\ Len(Append(channel, Head(queued))) = Len(channel) + 1 /\ Len(channel) \in Nat
      BY <3>1, <3>2, AppendProperties
    <3> QED
      BY <2>1, <3>3
  <2>3. CASE cancelled /\ Model!End
    <3>1. ~Fine'
      BY <1>1, <2>3 DEF Fine
    <3> QED
      BY <1>1, <1>2, <2>1, <2>2, <2>3, <3>1
        DEF ModelInv, ModelTypes, SaidBooks, RunBooks, Taken
  <2>4. CASE ~cancelled /\ queued' = Tail(queued) /\ UNCHANGED <<parser, thread, link>>
    <3>1. /\ queued' \in Seq(ModelEvent)
          /\ CallsIn(channel') \cup CallsIn(queued') = CallsIn(channel) \cup CallsIn(queued)
          /\ \A k : /\ Number(k, channel') + Number(k, queued')
                         = Number(k, channel) + Number(k, queued)
                    /\ At(k, channel') # {} \/ At(k, queued') # {}
                         <=> At(k, channel) # {} \/ At(k, queued) # {}
      BY <2>1, <2>4, EventPassed DEF ModelInv
    <3>2. ModelTypes' /\ SaidBooks' /\ RunBooks'
      BY <1>1, <2>1, <2>2, <2>4, <3>1 DEF ModelInv, ModelTypes, SaidBooks, RunBooks, Taken
    <3>3. Out' = Out
      BY <1>1, <3>1 DEF Out, Taken, CallsIn, At
    <3>4. /\ Comes("stop")' <=> Comes("stop")
          /\ Comes("error")' <=> Comes("error")
      BY <3>1 DEF Comes, At
    <3>5. OutBooks => OutBooks'
      <4>1. /\ text + Number("text", channel') + Number("text", queued')
                 = text + Number("text", channel) + Number("text", queued)
            /\ Len(calls) + Number("call", channel') + Number("call", queued')
                 = Len(calls) + Number("call", channel) + Number("call", queued)
        <5>1. /\ channel \in Seq(ModelEvent) /\ channel' \in Seq(ModelEvent)
              /\ queued \in Seq(ModelEvent) /\ queued' \in Seq(ModelEvent)
              /\ text \in Nat /\ Len(calls) \in Nat
          BY <2>2, <3>1 DEF ModelInv, ModelTypes
        <5>2. \A k : /\ Number(k, channel) \in Nat /\ Number(k, channel') \in Nat
                     /\ Number(k, queued) \in Nat /\ Number(k, queued') \in Nat
          BY ONLY <5>1, AtFinite
        <5>3. ASSUME NEW k, NEW a \in Nat
              PROVE  a + Number(k, channel') + Number(k, queued')
                       = a + Number(k, channel) + Number(k, queued)
          BY ONLY <3>1, <5>2, <5>3
        <5> QED
          BY ONLY <5>1, <5>3
      <4>2. /\ Number("text", channel)' = Number("text", channel')
            /\ Number("text", queued)' = Number("text", queued')
            /\ Number("call", channel)' = Number("call", channel')
            /\ Number("call", queued)' = Number("call", queued')
        BY DEF Number, At
      <4> QED
        BY <1>1, <3>3, <3>4, <4>1, <4>2 DEF OutBooks
    <3>6. ParserBooks => ParserBooks'
      BY <1>1, <2>4, <3>3 DEF ParserBooks
    <3> QED
      BY <1>1, <2>4, <3>2, <3>4, <3>5, <3>6 DEF ModelInv, Fine
  <2> QED
    BY <2>1, <2>3, <2>4
<1> QED
  BY <1>3, <1>4, <1>5

(* The run.  Once it has given up nothing is promised of its turn.         *)
LEMMA GiveUpKeeps ==
  ASSUME ModelInv, Model!GiveUp,
         UNCHANGED <<dialect, said, parser, link, queued, thread, cancelled>>,
         channel' \in Seq(ModelEvent), Len(channel') <= Channel
  PROVE  ModelInv'
<1> USE ModelNumbers
<1>1. /\ state' = "failed" /\ turns' = 0 /\ more' = 0 /\ text' = 0 /\ told' = 0
      /\ calls' = <<>> /\ finish' = "none"
  BY DEF Model!GiveUp
<1>2. ModelTypes' /\ SaidBooks' /\ RunBooks'
  <2>1. <<>> \in Seq(Nat) /\ 0 \in 0..MaxTurn /\ 0 \in 0..MaxMore
    OBVIOUS
  <2> QED
    BY <1>1, <2>1 DEF ModelInv, ModelTypes, SaidBooks, RunBooks
<1>3. ~Fine'
  BY <1>1 DEF Fine
<1> QED
  BY <1>2, <1>3 DEF ModelInv

(* A response nobody has begun and a parser nobody has used.               *)
LEMMA BlankFits ==
  /\ Model!Blank \in Response /\ Model!Fresh \in Parser
  /\ Model!Blank.texts = 0 /\ Model!Blank.begun = {} /\ Model!Blank.whole = {}
  /\ Model!Blank.end = "none" /\ ~Model!Blank.counted
  /\ \A i \in Index : Model!Blank.parts[i] = 0
  /\ ~Model!Fresh.over /\ Model!Fresh.known = {} /\ Model!Fresh.emitted = {}
  /\ Model!Fresh.end = "none"
BY ModelNumbers DEF Model!Blank, Model!Fresh, Response, Parser, Model!CallIndex, Index

(* A response has not begun.                                               *)
LEMMA BlankBooks ==
  ASSUME said' = Model!Blank PROVE SaidBooks'
<1>1. {} = 1..0 /\ 0 \in Nat
  OBVIOUS
<1> QED
  BY <1>1, BlankFits DEF SaidBooks

(* Before its first turn the run has nothing.                              *)
LEMMA ModelStart == Model!Init => ModelInv
<1> SUFFICES ASSUME Model!Init PROVE ModelInv
  OBVIOUS
<1> USE ModelNumbers
<1>1. /\ dialect \in Dialects /\ said = Model!Blank /\ link = "none"
      /\ parser = Model!Fresh /\ queued = <<>> /\ thread = "none" /\ channel = <<>>
      /\ state = "next" /\ turns = 0 /\ more = 0 /\ text = 0 /\ calls = <<>>
      /\ finish = "none" /\ told = 0 /\ cancelled = FALSE
  BY DEF Model!Init
<1>2. ModelTypes
  <2>1. <<>> \in Seq(Nat) /\ 0 \in 0..MaxTurn /\ 0 \in 0..MaxMore /\ 0 < MaxTurn
        /\ Len(<<>>) <= Channel /\ <<>> \in Seq(ModelEvent)
    OBVIOUS
  <2> QED
    BY <1>1, <2>1, BlankFits DEF ModelTypes
<1>3. SaidBooks
  <2>1. {} = 1..0 /\ 0 \in Nat
    OBVIOUS
  <2> QED
    BY <1>1, <2>1, BlankFits DEF SaidBooks
<1>4. RunBooks /\ ~Fine
  BY <1>1 DEF RunBooks, Fine
<1> QED
  BY <1>2, <1>3, <1>4 DEF ModelInv

(* A turn begins with a new response and empty hands.                      *)
LEMMA BeginKeeps ==
  ASSUME ModelInv, Model!Begin PROVE ModelInv'
<1> USE ModelNumbers
<1>1. CASE Model!GiveUp /\ UNCHANGED <<said, link, parser, queued, thread, channel>>
  BY <1>1, GiveUpKeeps DEF ModelInv, ModelTypes, Model!Begin
<1>2. CASE /\ ~cancelled /\ state' = "reading"
           /\ calls' = <<>> /\ finish' = "none" /\ UNCHANGED <<turns, more, text, told>>
           /\ said' = Model!Blank /\ link' = "asked"
           /\ parser' = Model!Fresh /\ queued' = <<>> /\ thread' = "running"
           /\ channel' = <<>>
  <2>1. state = "next" /\ UNCHANGED <<dialect, cancelled>>
    BY DEF Model!Begin
  <2>2. SaidBooks'
    BY <1>2, BlankBooks
  <2>3. ModelTypes'
    <3>1. <<>> \in Seq(Nat) /\ Len(<<>>) <= Channel /\ <<>> \in Seq(ModelEvent)
      OBVIOUS
    <3> QED
      BY <1>2, <2>1, <3>1, BlankFits DEF ModelInv, ModelTypes
  <2>4. RunBooks'
    BY <1>2 DEF RunBooks
  <2>5. /\ Out' = {} /\ ~Comes("stop")'
        /\ Number("text", channel)' = 0 /\ Number("text", queued)' = 0
        /\ Number("call", channel)' = 0 /\ Number("call", queued)' = 0
    <3>1. /\ CallsIn(channel') = {} /\ CallsIn(queued') = {}
          /\ \A k : At(k, channel') = {} /\ Number(k, channel') = 0
          /\ \A k : At(k, queued') = {} /\ Number(k, queued') = 0
      BY <1>2, NoneOut
    <3>2. Taken' = {}
      BY <1>2 DEF Taken
    <3> QED
      BY <3>1, <3>2 DEF Out, Comes, CallsIn, Number, At
  <2>6. OutBooks'
    <3>1. text' = told' /\ text' \in Nat /\ said'.texts = 0 /\ said'.begun = {}
      BY <1>2, <2>1, BlankFits DEF ModelInv, ModelTypes, RunBooks
    <3>2. Len(calls') = 0 /\ Cardinality({}) = 0 /\ finish' # "stop"
      BY <1>2, FS_EmptySet
    <3>3. text' + 0 + 0 = told' + 0
      BY <3>1
    <3>4. text' + Number("text", channel)' + Number("text", queued)' = told' + said'.texts
      BY ONLY <2>5, <3>1, <3>3
    <3>5. Len(calls') + Number("call", channel)' + Number("call", queued)' = Cardinality(Out')
      BY ONLY <2>5, <3>2
    <3> QED
      BY <2>5, <3>1, <3>2, <3>4, <3>5 DEF OutBooks
  <2>7. ParserBooks'
    BY <1>2, <2>5, BlankFits DEF ParserBooks
  <2> QED
    BY <2>2, <2>3, <2>4, <2>6, <2>7 DEF ModelInv
<1> QED
  BY <1>1, <1>2 DEF Model!Begin, Model!stream, Model!worker

(* A call that is taken is one of those taken.                             *)
LEMMA CallTaken ==
  ASSUME NEW s \in Seq(Nat), NEW n \in Nat
  PROVE  /\ Append(s, n) \in Seq(Nat) /\ Len(Append(s, n)) = Len(s) + 1 /\ Len(s) \in Nat
         /\ {Append(s, n)[i] : i \in DOMAIN Append(s, n)} = {s[i] : i \in DOMAIN s} \cup {n}
<1>1. /\ Append(s, n) \in Seq(Nat) /\ Len(Append(s, n)) = Len(s) + 1 /\ Len(s) \in Nat
      /\ DOMAIN s = 1..Len(s) /\ DOMAIN Append(s, n) = 1..(Len(s) + 1)
      /\ \A i \in 1..Len(s) : Append(s, n)[i] = s[i]
      /\ Append(s, n)[Len(s) + 1] = n
  BY AppendProperties
<1>2. \A i \in 1..(Len(s) + 1) : i \in 1..Len(s) \/ i = Len(s) + 1
  BY <1>1
<1>3. Len(s) + 1 \in 1..(Len(s) + 1) /\ \A i \in 1..Len(s) : i \in 1..(Len(s) + 1)
  BY <1>1
<1> QED
  BY <1>1, <1>2, <1>3

(* The run takes an event from the channel.                                *)
LEMMA TakeKeeps ==
  ASSUME ModelInv, Model!Take PROVE ModelInv'
<1> USE ModelNumbers
<1> DEFINE h == Head(channel)
           rest == Tail(channel)
<1>1. /\ channel # <<>> /\ channel' = rest /\ state = "reading" /\ ~cancelled
      /\ UNCHANGED <<dialect, said, link, parser, queued, thread, cancelled>>
  BY DEF Model!Take, Model!stream, Model!worker
<1>2. /\ h \in ModelEvent /\ rest \in Seq(ModelEvent)
      /\ Len(rest) = Len(channel) - 1 /\ Len(channel) \in Nat \ {0} /\ Len(channel) <= Channel
      /\ CallsIn(channel) = CallsIn(rest) \cup (IF h.kind = "call" THEN {h.of} ELSE {})
      /\ \A k : /\ Number(k, channel) = Number(k, rest) + (IF h.kind = k THEN 1 ELSE 0)
                /\ At(k, channel) = {} <=> At(k, rest) = {} /\ h.kind # k
  BY <1>1, TakeOff DEF ModelInv, ModelTypes
<1>3. \/ Model!GiveUp
      \/ /\ UNCHANGED <<state, turns, more, told>>
         /\ \/ h.kind = "text" /\ text' = text + 1 /\ UNCHANGED <<calls, finish>>
            \/ h.kind = "call" /\ calls' = Append(calls, h.of) /\ UNCHANGED <<text, finish>>
            \/ h.kind \in {"stop", "length"} /\ finish' = h.kind /\ UNCHANGED <<text, calls>>
            \/ h.kind = "usage" /\ UNCHANGED <<text, calls, finish>>
  BY DEF Model!Take
<1>4. h.of \in Nat
  BY <1>2 DEF ModelEvent
<1> HIDE DEF h, rest
<1>5. channel' \in Seq(ModelEvent) /\ Len(channel') <= Channel
  BY <1>1, <1>2
<1>6. CASE Model!GiveUp
  BY <1>1, <1>5, <1>6, GiveUpKeeps
<1>7. CASE /\ UNCHANGED <<state, turns, more, told>>
           /\ \/ h.kind = "text" /\ text' = text + 1 /\ UNCHANGED <<calls, finish>>
              \/ h.kind = "call" /\ calls' = Append(calls, h.of) /\ UNCHANGED <<text, finish>>
              \/ h.kind \in {"stop", "length"} /\ finish' = h.kind /\ UNCHANGED <<text, calls>>
              \/ h.kind = "usage" /\ UNCHANGED <<text, calls, finish>>
  <2>1. /\ text \in Nat /\ told \in Nat /\ calls \in Seq(Nat) /\ Len(calls) \in Nat
        /\ queued \in Seq(ModelEvent) /\ channel \in Seq(ModelEvent)
        /\ finish \in {"none", "stop", "length"}
    BY DEF ModelInv, ModelTypes
  <2>2. /\ text' \in Nat /\ text' = text + (IF h.kind = "text" THEN 1 ELSE 0)
        /\ calls' \in Seq(Nat) /\ Len(calls') = Len(calls) + (IF h.kind = "call" THEN 1 ELSE 0)
        /\ Taken' = Taken \cup (IF h.kind = "call" THEN {h.of} ELSE {})
        /\ finish' \in {"none", "stop", "length"}
        /\ finish' = "stop" => finish = "stop" \/ h.kind = "stop"
    <3>1. CASE h.kind = "call" /\ calls' = Append(calls, h.of) /\ UNCHANGED <<text, finish>>
      <4>1. /\ calls' \in Seq(Nat) /\ Len(calls') = Len(calls) + 1
            /\ {calls'[i] : i \in DOMAIN calls'} = {calls[i] : i \in DOMAIN calls} \cup {h.of}
        <5> DEFINE to == Append(calls, h.of)
        <5>1. /\ to \in Seq(Nat) /\ Len(to) = Len(calls) + 1
              /\ {to[i] : i \in DOMAIN to} = {calls[i] : i \in DOMAIN calls} \cup {h.of}
          BY <1>4, <2>1, CallTaken
        <5>2. calls' = to
          BY <3>1
        <5> HIDE DEF to
        <5> QED
          BY ONLY <5>1, <5>2
      <4>2. Taken' = Taken \cup {h.of}
        BY <4>1 DEF Taken
      <4> QED
        BY <2>1, <3>1, <4>1, <4>2
    <3>2. CASE h.kind # "call" /\ UNCHANGED calls
      BY <1>7, <2>1, <3>2 DEF Taken
    <3> QED
      BY <1>7, <3>1, <3>2
  <2>3. ModelTypes' /\ SaidBooks' /\ RunBooks'
    BY <1>1, <1>5, <1>7, <2>2 DEF ModelInv, ModelTypes, SaidBooks, RunBooks
  <2>4. Out' = Out
    <3>1. Out' = Taken' \cup CallsIn(rest) \cup CallsIn(queued)
      BY <1>1 DEF Out, CallsIn, At
    <3> QED
      BY <1>2, <2>2, <3>1 DEF Out
  <2>5. h.kind # "error"
    BY <1>7
  <2>6. /\ \A k : At(k, channel') = At(k, rest) /\ Number(k, channel') = Number(k, rest)
        /\ \A k : At(k, queued') = At(k, queued) /\ Number(k, queued') = Number(k, queued)
    BY <1>1
  <2>7. Fine' => Fine
    <3>1. Comes("error")' <=> At("error", channel') # {} \/ At("error", queued') # {}
      BY DEF Comes, At
    <3> QED
      BY <1>1, <1>2, <2>5, <2>6, <3>1 DEF Fine, Comes
  <2>8. OutBooks => OutBooks'
    <3>1. \A k : /\ Number(k, rest) \in Nat /\ Number(k, queued) \in Nat
                 /\ Number(k, channel) = Number(k, rest) + (IF h.kind = k THEN 1 ELSE 0)
      BY <1>2, <2>1, AtFinite
    <3>2. ASSUME NEW k, NEW a \in Nat, NEW b \in Nat,
                 b = a + (IF h.kind = k THEN 1 ELSE 0)
          PROVE  b + Number(k, rest) + Number(k, queued)
                   = a + Number(k, channel) + Number(k, queued)
      BY ONLY <3>1, <3>2
    <3>3. /\ text' + Number("text", rest) + Number("text", queued)
               = text + Number("text", channel) + Number("text", queued)
          /\ Len(calls') + Number("call", rest) + Number("call", queued)
               = Len(calls) + Number("call", channel) + Number("call", queued)
      <4>1. Len(calls') \in Nat
        BY <2>2
      <4> QED
        BY ONLY <2>1, <2>2, <3>2, <4>1
    <3>4. /\ Number("text", channel)' = Number("text", rest)
          /\ Number("text", queued)' = Number("text", queued)
          /\ Number("call", channel)' = Number("call", rest)
          /\ Number("call", queued)' = Number("call", queued)
      <4>1. /\ Number("text", channel)' = Number("text", channel')
            /\ Number("text", queued)' = Number("text", queued')
            /\ Number("call", channel)' = Number("call", channel')
            /\ Number("call", queued)' = Number("call", queued')
        BY DEF Number, At
      <4> QED
        BY <2>6, <4>1
    <3>5. finish' = "stop" \/ Comes("stop")' => finish = "stop" \/ Comes("stop")
      <4>1. Comes("stop")' <=> At("stop", channel') # {} \/ At("stop", queued') # {}
        BY DEF Comes, At
      <4> QED
        BY <1>2, <2>2, <2>6, <4>1 DEF Comes
    <3> QED
      BY <1>1, <1>7, <2>4, <3>3, <3>4, <3>5 DEF OutBooks
  <2>9. ParserBooks => ParserBooks'
    BY <1>1, <2>4 DEF ParserBooks
  <2> QED
    BY <1>1, <2>3, <2>7, <2>8, <2>9 DEF ModelInv
<1> QED
  BY <1>3, <1>6, <1>7

(* At the end of a stream nothing is on its way any more.                  *)
LEMMA EndOfStreamKeeps ==
  ASSUME ModelInv, Model!EndOfStream PROVE ModelInv'
<1> USE ModelNumbers
<1>1. /\ state = "reading" /\ ~cancelled /\ channel = <<>> /\ thread = "ended"
      /\ UNCHANGED <<dialect, said, link, parser, queued, thread, channel, cancelled>>
  BY DEF Model!EndOfStream, Model!stream, Model!worker
<1>2. /\ turns \in Nat /\ turns < MaxTurn /\ more \in Nat /\ more <= MaxMore
      /\ told \in Nat /\ said.texts \in Nat /\ text \in Nat /\ calls \in Seq(Nat)
      /\ channel \in Seq(ModelEvent) /\ Len(channel) <= Channel
  BY <1>1 DEF ModelInv, ModelTypes, Response
<1>3. CASE Model!GiveUp
  BY <1>1, <1>2, <1>3, GiveUpKeeps
<1>4. CASE /\ turns' = turns + 1
           /\ \/ Model!Completed /\ calls # <<>> /\ state' = "batch" /\ UNCHANGED more
              \/ Model!Completed /\ calls = <<>> /\ text > 0 /\ state' = "done" /\ UNCHANGED more
              \/ Model!Continued /\ state' = "next" /\ more' = more + 1
           /\ told' = told + said.texts
           /\ UNCHANGED <<text, calls, finish>>
  <2>1. queued = <<>> /\ link = "none"
    BY <1>1 DEF ModelInv, RunBooks
  <2>2. \A k : /\ At(k, channel) = {} /\ Number(k, channel) = 0
               /\ At(k, queued) = {} /\ Number(k, queued) = 0
    BY <1>1, <2>1, NoneOut
  <2>3. OutBooks
    BY <1>1, <2>2 DEF ModelInv, Fine, Comes
  <2>4. Out = Taken
    BY <1>1, <2>1, NoneOut DEF Out
  <2>5. text = told + said.texts
    <3>1. text + 0 + 0 = told + said.texts
      BY <2>2, <2>3 DEF OutBooks
    <3> QED
      BY <1>2, <3>1
  <2>6. Len(calls) = Cardinality(Taken)
    <3>1. Len(calls) + 0 + 0 = Cardinality(Taken) /\ Len(calls) \in Nat
      BY <1>2, <2>2, <2>3, <2>4 DEF OutBooks
    <3> QED
      BY <3>1
  <2>7. finish = "stop" => said.end = "stop" /\ Taken = said.begun
    BY <2>3, <2>4 DEF OutBooks
  <2>8. ~Fine'
    BY <1>4 DEF Fine
  <2>9. turns' \in 0..MaxTurn /\ (state' = "next" => turns' < MaxTurn) /\ more' \in 0..MaxMore
        /\ state' \in {"batch", "done", "next"} /\ told' \in Nat
    BY <1>2, <1>4 DEF Model!Continued, Model!Completed
  <2>10. ModelTypes' /\ SaidBooks'
    BY <1>1, <1>4, <2>9 DEF ModelInv, ModelTypes, SaidBooks
  <2>11. RunBooks'
    <3>1. state' = "batch" => finish = "stop"
      BY <1>4 DEF Model!Completed
    <3>2. Taken' = Taken
      BY <1>4 DEF Taken
    <3> QED
      BY <1>1, <1>4, <2>1, <2>5, <2>6, <2>7, <2>9, <3>1, <3>2 DEF RunBooks
  <2> QED
    BY <2>8, <2>10, <2>11 DEF ModelInv
<1> QED
  BY <1>3, <1>4 DEF Model!EndOfStream

(* The steps that end a turn, or cancel it.                                *)
LEMMA TurnKeeps ==
  ASSUME ModelInv, Model!HearCancel \/ Model!Batch \/ Model!Cancel PROVE ModelInv'
<1> USE ModelNumbers DEF Model!stream, Model!worker
<1>1. channel \in Seq(ModelEvent) /\ Len(channel) <= Channel
  BY DEF ModelInv, ModelTypes
<1>2. CASE Model!HearCancel \/ (Model!Batch /\ Model!GiveUp)
  BY <1>1, <1>2, GiveUpKeeps DEF Model!HearCancel, Model!Batch
<1>3. CASE Model!Batch /\ ~Model!GiveUp
  <2>1. /\ state = "batch" /\ turns < MaxTurn /\ state' = "next"
        /\ UNCHANGED <<dialect, said, link, parser, queued, thread, channel, turns, more, text,
                       calls, finish, told, cancelled>>
    BY <1>3 DEF Model!Batch
  <2>2. ~Fine'
    BY <2>1 DEF Fine
  <2>3. ModelTypes' /\ SaidBooks' /\ RunBooks'
    BY <2>1 DEF ModelInv, ModelTypes, SaidBooks, RunBooks
  <2> QED
    BY <2>2, <2>3 DEF ModelInv
<1>4. CASE Model!Cancel
  <2>1. /\ cancelled' = TRUE
        /\ UNCHANGED <<dialect, said, link, parser, queued, thread, channel, state, turns, more,
                       text, calls, finish, told>>
    BY <1>4 DEF Model!Cancel, Model!run
  <2>2. ~Fine'
    BY <2>1 DEF Fine
  <2>3. ModelTypes' /\ SaidBooks' /\ RunBooks'
    BY <2>1 DEF ModelInv, ModelTypes, SaidBooks, RunBooks, Taken
  <2> QED
    BY <2>2, <2>3 DEF ModelInv
<1>5. Model!HearCancel \/ Model!Batch \/ Model!Cancel
  OBVIOUS
<1> QED
  BY ONLY <1>2, <1>3, <1>4, <1>5, Zenon

(* Every step of a turn keeps its books.                                   *)
LEMMA ModelKeeps == ModelInv /\ Model!Next => ModelInv'
BY ReadEventKeeps, ReadEndKeeps, RequestKeeps, PassKeeps, BeginKeeps, TakeKeeps,
   EndOfStreamKeeps, TurnKeeps DEF Model!Next, Model!ThreadStep, Model!RunStep

(* What the run checks of the turns of a model follows.                    *)
LEMMA ModelWithin == ModelInv => Model!TypeOK /\ Model!CallsAreWhole /\ Model!TextIsWhole
<1> SUFFICES ASSUME ModelInv PROVE Model!TypeOK /\ Model!CallsAreWhole /\ Model!TextIsWhole
  OBVIOUS
<1>1. Model!CallIndex = Index
  BY DEF Model!CallIndex, Index
<1>2. Model!TypeOK
  BY <1>1 DEF ModelInv, ModelTypes, SaidBooks, Response, Parser, Model!TypeOK, Model!Link,
    Model!Phase
<1>3. Model!CallsAreWhole
  BY SameCount DEF ModelInv, SaidBooks, RunBooks, Taken, Model!CallsAreWhole, Model!Finished
<1>4. Model!TextIsWhole
  BY DEF ModelInv, RunBooks, Model!TextIsWhole
<1> QED
  BY <1>2, <1>3, <1>4

-----------------------------------------------------------------------------
(* The parts together: each keeps its books, whichever of them moves.      *)

CallsInv == CallInv /\ HttpInv /\ ModelInv

(* A part nobody moves keeps its books.                                    *)
LEMMA CallsStand ==
  /\ CallInv /\ UNCHANGED callVars => CallInv'
  /\ HttpInv /\ UNCHANGED httpVars => HttpInv'
  /\ ModelInv /\ UNCHANGED modelVars => ModelInv'
<1>1. ASSUME CallInv, UNCHANGED callVars PROVE CallInv'
  BY <1>1 DEF callVars, CallInv, CallTypes, CallBooks, NewestKept, InputFits, OutputFits
<1>2. ASSUME HttpInv, UNCHANGED httpVars PROVE HttpInv'
  BY <1>2 DEF httpVars, HttpInv
<1>3. ASSUME ModelInv, UNCHANGED modelVars PROVE ModelInv'
  <2>1. UNCHANGED <<dialect, said, link, parser, queued, channel, thread, state, turns, more,
                    text, calls, finish, told, cancelled>>
    BY <1>3 DEF modelVars
  <2>2. ModelTypes' /\ SaidBooks'
    BY <1>3, <2>1 DEF ModelInv, ModelTypes, SaidBooks
  <2>3. RunBooks'
    BY <1>3, <2>1 DEF ModelInv, RunBooks, Taken
  <2>4. UNCHANGED Out /\ (Fine' <=> Fine) /\ (Comes("stop")' <=> Comes("stop"))
    BY <2>1 DEF Out, Taken, Fine, Comes, CallsIn, At
  <2>5. (OutBooks => OutBooks') /\ (ParserBooks => ParserBooks')
    <3>1. \A k : Number(k, channel') = Number(k, channel) /\ Number(k, queued') = Number(k, queued)
      BY <2>1
    <3>2. /\ Number("text", channel)' = Number("text", channel')
          /\ Number("text", queued)' = Number("text", queued')
          /\ Number("call", channel)' = Number("call", channel')
          /\ Number("call", queued)' = Number("call", queued')
      BY DEF Number, At
    <3> QED
      BY <2>1, <2>4, <3>1, <3>2 DEF OutBooks, ParserBooks
  <2> QED
    BY <1>3, <2>1, <2>2, <2>3, <2>4, <2>5 DEF ModelInv
<1> QED
  BY <1>1, <1>2, <1>3

(* A call of a server process returns its own answer or an error and leaves *)
(* nothing behind, a call over HTTP gets its own answer, and a run acts on *)
(* whole responses of its model only: JsonRpcProcess, the HTTP session of  *)
(* MCP, execute_model and the parsers of the providers.                    *)
THEOREM CallsSafe == AllSpec => []CallsHold
<1>1. AllInit => CallsInv
  BY CallsStart, HttpStart, ModelStart DEF AllInit, CallsInv
<1>2. CallsInv /\ [AllNext]_<<part, vars, callVars, httpVars, modelVars>> => CallsInv'
  BY CallsStand, CallsKeep, HttpKeeps, ModelKeeps DEF CallsInv, AllNext, Only
<1>3. CallsInv => CallsHold
  BY CallsWithin, HttpWithin, ModelWithin DEF CallsInv, CallsHold
<1> QED
  BY <1>1, <1>2, <1>3, PTL DEF AllSpec
=============================================================================
