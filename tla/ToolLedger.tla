----------------------------- MODULE ToolLedger -----------------------------
(***************************************************************************)
(* What the tool runtime promises about the calls of tools: a call is      *)
(* decided, then refused or started; only a started call touches the       *)
(* world, at most once for each start; the entry it ends with says what    *)
(* happened as far as that can be known; a call that may not be repeated   *)
(* is started once.  Permissions, approvals, restarts and the journal's    *)
(* own steps are not visible here.  Module ToolApproval implements it.     *)
(***************************************************************************)
EXTENDS Naturals

CONSTANT Call

VARIABLES
  fragile,    \* the calls entered as not to be repeated
  stage,      \* stage[c]: what the books say of call c
  touched,    \* the calls whose present start has had its effect
  performed   \* performed[c]: how often c has had its effect

ledgerVars == <<fragile, stage, touched, performed>>

Stage == {"absent", "undecided", "started", "completed", "denied", "failed",
          "uncertain"}

Init ==
  /\ fragile = {}
  /\ stage = [c \in Call |-> "absent"]
  /\ touched = {}
  /\ performed = [c \in Call |-> 0]

Enter(c) ==
  /\ stage[c] = "absent"
  /\ fragile' \in {fragile, fragile \cup {c}}
  /\ stage' = [stage EXCEPT ![c] = "undecided"]
  /\ UNCHANGED <<touched, performed>>

Refuse(c) ==
  /\ stage[c] = "undecided"
  /\ stage' = [stage EXCEPT ![c] = "denied"]
  /\ UNCHANGED <<fragile, touched, performed>>

Start(c) ==
  /\ stage[c] = "undecided"
  /\ stage' = [stage EXCEPT ![c] = "started"]
  /\ touched' = touched \ {c}
  /\ UNCHANGED <<fragile, performed>>

Touch(c) ==
  /\ stage[c] = "started"
  /\ c \notin touched
  /\ touched' = touched \cup {c}
  /\ performed' = [performed EXCEPT ![c] = @ + 1]
  /\ UNCHANGED <<fragile, stage>>

(* Success is entered only for what has happened.  Without a success a     *)
(* call that may be repeated has failed; of another one nothing is known.  *)
Settle(c, s) ==
  /\ stage[c] = "started"
  /\ \/ s = "completed" /\ c \in touched
     \/ s = "failed" /\ c \notin fragile
     \/ s = "uncertain" /\ c \in fragile
  /\ stage' = [stage EXCEPT ![c] = s]
  /\ UNCHANGED <<fragile, touched, performed>>

Reopen(c) ==
  /\ stage[c] = "failed"
  /\ stage' = [stage EXCEPT ![c] = "undecided"]
  /\ UNCHANGED <<fragile, touched, performed>>

Next ==
  \/ \E c \in Call :
       \/ Enter(c) \/ Refuse(c) \/ Start(c) \/ Touch(c) \/ Reopen(c)
       \/ \E s \in Stage : Settle(c, s)

LedgerSpec == Init /\ [][Next]_ledgerVars
=============================================================================
