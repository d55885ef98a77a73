---------------------------- MODULE AgentBudget ----------------------------
(***************************************************************************)
(* The budget of agent runs (harness-agent, budget.rs): an escrow is       *)
(* reserved before a run is dispatched, charged with what the run has      *)
(* used, and closed when the run ends or its time is over.                 *)
(*                                                                         *)
(* One process owns the project, so every operation is one step and the    *)
(* version that each write compares, which is left out, never differs.  The *)
(* limits of a mission count its active escrows only: a closed one gives   *)
(* its reservation back, spent or not.                                     *)
(***************************************************************************)
EXTENDS Integers, FiniteSetsExt

CONSTANTS
  Run, Mission,
  MissionOf,       \* the mission of a run
  Tokens,          \* token reservations that are asked for
  ToolCalls,       \* tool calls reserved by every run
  Runtime,         \* time reserved by every run
  MaxAgents, MaxTotalTokens, MaxToolCalls, MaxRuntime, \* AgentBudgetPolicy
  MaxClock         \* bound on time

VARIABLES
  escrow,   \* escrow[r]: the row of r, or NoEscrow
  clock,
  sealed    \* history: the rows as they were closed

vars == <<escrow, clock, sealed>>

Closed == {"completed", "failed", "cancelled", "expired"}

NoEscrow == [status |-> "none"]

Escrow ==
  [status  : {"active"} \cup Closed,
   tokens  : Tokens,
   spent   : 0..MaxTotalTokens,
   used    : 0..MaxToolCalls,
   expires : 0..(MaxClock + Runtime)]

Init ==
  /\ escrow = [r \in Run |-> NoEscrow]
  /\ clock = 0
  /\ sealed = [r \in Run |-> NoEscrow]

Active(rows, m) == {r \in Run : MissionOf[r] = m /\ rows[r].status = "active"}

TokensOf(rows, m) == MapThenSumSet(LAMBDA r : rows[r].tokens, Active(rows, m))

(* What stays of the rows when history is kept of those that close.         *)
Write(rows) ==
  /\ escrow' = rows
  /\ sealed' = [r \in Run |->
                  IF rows[r].status \in Closed /\ sealed[r] = NoEscrow
                    THEN rows[r] ELSE sealed[r]]

Close(row, status) == [row EXCEPT !.status = status]

(* The UPDATE at the head of reserve.                                       *)
Expired ==
  [r \in Run |->
     IF escrow[r].status = "active" /\ escrow[r].expires <= clock
       THEN Close(escrow[r], "expired") ELSE escrow[r]]

(* Faulty: only the tokens of the request are compared with the limit. *)
FitsAlone(rows, r, tokens) ==
  /\ Cardinality(Active(rows, MissionOf[r])) < MaxAgents
  /\ tokens <= MaxTotalTokens

(* The limits of the mission, active escrows and the request together.      *)
Fits(rows, r, tokens) ==
  LET m == MissionOf[r]
      active == Cardinality(Active(rows, m))
  IN  /\ active < MaxAgents
      /\ TokensOf(rows, m) + tokens <= MaxTotalTokens
      /\ (active + 1) * ToolCalls <= MaxToolCalls
      /\ (active + 1) * Runtime <= MaxRuntime

(* reserve: an escrow the run has is returned, in whatever state it is; a   *)
(* request over the limits is an error, and its transaction rolled back.    *)
Reserve(r) ==
  \E tokens \in Tokens :
    /\ IF escrow[r] # NoEscrow THEN
         Write(Expired)
       ELSE
         /\ Fits(Expired, r, tokens)
         /\ Write([Expired EXCEPT ![r] =
                     [status |-> "active", tokens |-> tokens, spent |-> 0,
                      used |-> 0, expires |-> clock + Runtime]])
    /\ UNCHANGED clock

(* charge: nothing is charged to a closed escrow, over its time, or beyond  *)
(* what it has reserved.                                                    *)
Charge(r) ==
  \E tokens \in 0..MaxTotalTokens, tools \in 0..MaxToolCalls :
    /\ escrow[r].status = "active"
    /\ IF clock >= escrow[r].expires
         THEN Write([escrow EXCEPT ![r] = Close(@, "expired")])
         ELSE /\ escrow[r].spent + tokens <= escrow[r].tokens
              /\ escrow[r].used + tools <= ToolCalls
              /\ Write([escrow EXCEPT ![r].spent = @ + tokens,
                                      ![r].used = @ + tools])
    /\ UNCHANGED clock

(* release, which leaves a closed escrow alone                              *)
Release(r) ==
  \E status \in Closed \ {"expired"} :
    /\ escrow[r].status = "active"
    /\ Write([escrow EXCEPT ![r] = Close(@, status)])
    /\ UNCHANGED clock

Tick ==
  /\ clock < MaxClock
  /\ clock' = clock + 1
  /\ UNCHANGED <<escrow, sealed>>

Next == Tick \/ \E r \in Run : Reserve(r) \/ Charge(r) \/ Release(r)

Spec == Init /\ [][Next]_vars

-----------------------------------------------------------------------------
TypeOK ==
  /\ escrow \in [Run -> Escrow \cup {NoEscrow}]
  /\ sealed \in [Run -> Escrow \cup {NoEscrow}]
  /\ clock \in 0..MaxClock

(* What the active runs of a mission have set aside stays within its        *)
(* limits, whichever expire, close or come back between; no run is charged  *)
(* more than it reserved; and a closed escrow is never opened or charged    *)
(* again, though a run that is resumed reserves a second time.              *)
EscrowHolds ==
  /\ \A m \in Mission :
       /\ Cardinality(Active(escrow, m)) <= MaxAgents
       /\ TokensOf(escrow, m) <= MaxTotalTokens
       /\ Cardinality(Active(escrow, m)) * ToolCalls <= MaxToolCalls
       /\ Cardinality(Active(escrow, m)) * Runtime <= MaxRuntime
  /\ \A r \in Run : escrow[r] # NoEscrow =>
       escrow[r].spent <= escrow[r].tokens /\ escrow[r].used <= ToolCalls
  /\ \A r \in Run : sealed[r] # NoEscrow => escrow[r] = sealed[r]
=============================================================================
