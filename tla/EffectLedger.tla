---------------------------- MODULE EffectLedger ----------------------------
(***************************************************************************)
(* What the outbox promises about external effects: an effect that is owed *)
(* may be carried out any number of times, each time with some outcome,    *)
(* but exactly one outcome that really happened is entered as its verdict, *)
(* and a verdict is never changed.  Claims, leases, tokens and runners are *)
(* not visible here.  Module Outbox is shown to implement it.              *)
(***************************************************************************)
CONSTANTS Effect, Report, NoReport

VARIABLES
  owed,       \* the effects recorded as intents
  performed,  \* performed[e]: the outcomes of carrying out e so far
  verdict     \* verdict[e]: the outcome entered for e, or NoReport

ledgerVars == <<owed, performed, verdict>>

Init ==
  /\ owed = {}
  /\ performed = [e \in Effect |-> {}]
  /\ verdict = [e \in Effect |-> NoReport]

Owe(New) ==
  /\ New \cap owed = {}
  /\ owed' = owed \cup New
  /\ UNCHANGED <<performed, verdict>>

Perform(e, v) ==
  /\ e \in owed
  /\ performed' = [performed EXCEPT ![e] = @ \cup {v}]
  /\ UNCHANGED <<owed, verdict>>

Enter(e, v) ==
  /\ verdict[e] = NoReport
  /\ v \in performed[e]
  /\ verdict' = [verdict EXCEPT ![e] = v]
  /\ UNCHANGED <<owed, performed>>

Next ==
  \/ \E New \in SUBSET Effect : Owe(New)
  \/ \E e \in Effect, v \in Report : Perform(e, v) \/ Enter(e, v)

LedgerSpec == Init /\ [][Next]_ledgerVars
=============================================================================
