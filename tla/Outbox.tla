------------------------------- MODULE Outbox -------------------------------
(***************************************************************************)
(* The outbox of harness-storage (list_claimable_effects, try_claim_effect *)
(* and complete_effect of the SQLite store) together with the runners that *)
(* use it in the order the drive loop of harness-application does: list,   *)
(* claim the first entry, carry the effect out, report.  Each call is one  *)
(* transaction of the store; runners interleave between calls, may be slow *)
(* enough to outlive their lease, and may crash and lose their claim.      *)
(*                                                                         *)
(* Time is abstracted: `lapsed' says that a lease has expired.  A claim    *)
(* token is fresh for every claim, so the number of the attempt stands for *)
(* it.  The epoch and the run fence of a row never change, so comparing    *)
(* them always succeeds.  An outcome with its result and error is one      *)
(* opaque report.                                                          *)
(***************************************************************************)
EXTENDS Naturals

CONSTANTS
  Effect,     \* the identifiers of effects: numbers, in the order listed
  Report,     \* what a runner can report
  Runner,     \* the processes that drive effects
  NoEffect, NoReport,
  MaxUpset    \* bound on crashes and on leases that lapse under a live runner

ASSUME OutboxAssumption ==
  /\ Effect \subseteq Nat
  /\ NoEffect \notin Effect
  /\ NoReport \notin Report
  /\ MaxUpset \in Nat

VARIABLES
  row,        \* row[e]: the status of the outbox row; "settled" if final
  attempt,    \* attempt[e]: claims so far; the last one names the token
  lapsed,     \* lapsed[e]: has the lease of the row expired?
  result,     \* result[e]: the row of effect_results
  performed,  \* performed[e]: the outcomes e had in the outside world
  phase,      \* phase[r]: where runner r is in the loop
  job,        \* job[r]: the effect it deals with
  ticket,     \* ticket[r]: the token of its claim
  report,     \* report[r]: the outcome it has to report
  upsets      \* crashes and early expiries so far

store == <<row, attempt, lapsed, result>>
runners == <<phase, job, ticket, report>>
vars == <<store, performed, runners, upsets>>

Phase == {"idle", "listed", "working", "reporting", "acked"}

Upset ==
  /\ upsets < MaxUpset
  /\ upsets' = upsets + 1

Init ==
  /\ row = [e \in Effect |-> "absent"]
  /\ attempt = [e \in Effect |-> 0]
  /\ lapsed = [e \in Effect |-> FALSE]
  /\ result = [e \in Effect |-> NoReport]
  /\ performed = [e \in Effect |-> {}]
  /\ phase = [r \in Runner |-> "idle"]
  /\ job = [r \in Runner |-> NoEffect]
  /\ ticket = [r \in Runner |-> 0]
  /\ report = [r \in Runner |-> NoReport]
  /\ upsets = 0

(* A commit of the aggregate inserts its effects with its events.          *)
CommitEffects(New) ==
  /\ New # {}
  /\ \A e \in New : row[e] = "absent"
  /\ row' = [e \in Effect |-> IF e \in New THEN "pending" ELSE row[e]]
  /\ UNCHANGED <<attempt, lapsed, result, performed, runners, upsets>>

(* Faulty: an expired lease is not given back. *)
ClaimablePending(e) == row[e] = "pending"

Claimable(e) == row[e] = "pending" \/ (row[e] = "claimed" /\ lapsed[e])

(* Is some runner still at work under the claim of e in force?             *)
Holds(r, e) ==
  phase[r] \in {"working", "reporting"} /\ job[r] = e /\ ticket[r] = attempt[e]

(* A lease expires whether or not its holder still lives.                  *)
LapseOrphan(e) ==
  /\ row[e] = "claimed"
  /\ ~lapsed[e]
  /\ \A r \in Runner : ~Holds(r, e)
  /\ lapsed' = [lapsed EXCEPT ![e] = TRUE]
  /\ UNCHANGED <<row, attempt, result, performed, runners, upsets>>

LapseEarly(e) ==
  /\ row[e] = "claimed"
  /\ ~lapsed[e]
  /\ \E r \in Runner : Holds(r, e)
  /\ Upset
  /\ lapsed' = [lapsed EXCEPT ![e] = TRUE]
  /\ UNCHANGED <<row, attempt, result, performed, runners>>

(* The loop asks for one claimable effect, the oldest.                     *)
List(r, e) ==
  /\ phase[r] \in {"idle", "acked"}
  /\ Claimable(e)
  /\ \A d \in Effect : Claimable(d) => e <= d
  /\ phase' = [phase EXCEPT ![r] = "listed"]
  /\ job' = [job EXCEPT ![r] = e]
  /\ UNCHANGED <<store, performed, ticket, report, upsets>>

(* Faulty: a claim that takes over from an expired one keeps its token. *)
ClaimSameToken(r, e) ==
  /\ phase[r] = "listed"
  /\ job[r] = e
  /\ Claimable(e)
  /\ row' = [row EXCEPT ![e] = "claimed"]
  /\ attempt' = [attempt EXCEPT ![e] = 1]
  /\ lapsed' = [lapsed EXCEPT ![e] = FALSE]
  /\ phase' = [phase EXCEPT ![r] = "working"]
  /\ ticket' = [ticket EXCEPT ![r] = 1]
  /\ UNCHANGED <<result, performed, job, report, upsets>>

Claim(r, e) ==
  /\ phase[r] = "listed"
  /\ job[r] = e
  /\ Claimable(e)
  /\ row' = [row EXCEPT ![e] = "claimed"]
  /\ attempt' = [attempt EXCEPT ![e] = @ + 1]
  /\ lapsed' = [lapsed EXCEPT ![e] = FALSE]
  /\ phase' = [phase EXCEPT ![r] = "working"]
  /\ ticket' = [ticket EXCEPT ![r] = attempt[e] + 1]
  /\ UNCHANGED <<result, performed, job, report, upsets>>

(* Another runner was faster: effect-claim-lost.                           *)
MissClaim(r, e) ==
  /\ phase[r] = "listed"
  /\ job[r] = e
  /\ ~Claimable(e)
  /\ phase' = [phase EXCEPT ![r] = "idle"]
  /\ UNCHANGED <<store, performed, job, ticket, report, upsets>>

(* The effect is carried out in the outside world.                         *)
Perform(r, e, v) ==
  /\ phase[r] = "working"
  /\ job[r] = e
  /\ performed' = [performed EXCEPT ![e] = @ \cup {v}]
  /\ report' = [report EXCEPT ![r] = v]
  /\ phase' = [phase EXCEPT ![r] = "reporting"]
  /\ UNCHANGED <<store, job, ticket, upsets>>

(* Faulty: a settled row is settled once more. *)
FenceUnsettled(r, e) == row[e] # "absent"

(* The row is claimed, and by this runner's claim.                         *)
Fence(r, e) == row[e] = "claimed" /\ ticket[r] = attempt[e]

(* Faulty: a settled effect accepts any repeated report. *)
ReplayedAny(r, e) == row[e] = "settled"

(* The row is settled, and with exactly what this runner reports.          *)
Replayed(r, e) == row[e] = "settled" /\ result[e] = report[r]

(* Faulty: the token is recorded in the place of the report. *)
CompleteSwapped(r, e) ==
  /\ phase[r] = "reporting"
  /\ job[r] = e
  /\ Fence(r, e)
  /\ row' = [row EXCEPT ![e] = "settled"]
  /\ result' = [result EXCEPT ![e] = ticket[r]]
  /\ phase' = [phase EXCEPT ![r] = "acked"]
  /\ UNCHANGED <<attempt, lapsed, performed, job, ticket, report, upsets>>

(* complete_effect records the report and settles the row.  The expiry of  *)
(* the lease is not looked at.                                             *)
Complete(r, e) ==
  /\ phase[r] = "reporting"
  /\ job[r] = e
  /\ Fence(r, e)
  /\ row' = [row EXCEPT ![e] = "settled"]
  /\ result' = [result EXCEPT ![e] = report[r]]
  /\ phase' = [phase EXCEPT ![r] = "acked"]
  /\ UNCHANGED <<attempt, lapsed, performed, job, ticket, report, upsets>>

(* The answer to the call is lost; the runner will repeat it.              *)
CompleteUnheard(r, e) ==
  /\ phase[r] = "reporting"
  /\ job[r] = e
  /\ Fence(r, e)
  /\ Upset
  /\ row' = [row EXCEPT ![e] = "settled"]
  /\ result' = [result EXCEPT ![e] = report[r]]
  /\ UNCHANGED <<attempt, lapsed, performed, runners>>

(* A report already recorded is confirmed once more.                       *)
CompleteAgain(r, e) ==
  /\ phase[r] = "reporting"
  /\ job[r] = e
  /\ Replayed(r, e)
  /\ phase' = [phase EXCEPT ![r] = "acked"]
  /\ UNCHANGED <<store, performed, job, ticket, report, upsets>>

(* stale-effect-completion or effect-not-claimed.                          *)
CompleteRefused(r, e) ==
  /\ phase[r] = "reporting"
  /\ job[r] = e
  /\ ~Fence(r, e)
  /\ ~Replayed(r, e)
  /\ phase' = [phase EXCEPT ![r] = "idle"]
  /\ UNCHANGED <<store, performed, job, ticket, report, upsets>>

(* The process of a runner dies; whatever it knew is gone.                 *)
Crash(r) ==
  /\ phase[r] # "idle"
  /\ Upset
  /\ phase' = [phase EXCEPT ![r] = "idle"]
  /\ job' = [job EXCEPT ![r] = NoEffect]
  /\ ticket' = [ticket EXCEPT ![r] = 0]
  /\ report' = [report EXCEPT ![r] = NoReport]
  /\ UNCHANGED <<store, performed>>

Step(r) ==
  \E e \in Effect :
    \/ List(r, e)
    \/ Claim(r, e)
    \/ MissClaim(r, e)
    \/ \E v \in Report : Perform(r, e, v)
    \/ Complete(r, e)
    \/ CompleteAgain(r, e)
    \/ CompleteRefused(r, e)

Next ==
  \/ \E New \in SUBSET Effect : CommitEffects(New)
  \/ \E e \in Effect : LapseOrphan(e) \/ LapseEarly(e)
  \/ \E r \in Runner : Step(r) \/ Crash(r)
  \/ \E r \in Runner, e \in Effect : CompleteUnheard(r, e)

Spec == Init /\ [][Next]_vars

(* A runner that is not killed keeps going, and time passes.               *)
FairSpec ==
  /\ Spec
  /\ \A r \in Runner : WF_vars(Step(r))
  /\ \A e \in Effect : WF_vars(LapseOrphan(e))

-----------------------------------------------------------------------------
(* Rows and runners stay within their types.                               *)
TypeOK ==
  /\ row \in [Effect -> {"absent", "pending", "claimed", "settled"}]
  /\ attempt \in [Effect -> Nat]
  /\ lapsed \in [Effect -> BOOLEAN]
  /\ result \in [Effect -> Report \cup {NoReport}]
  /\ performed \in [Effect -> SUBSET Report]
  /\ phase \in [Runner -> Phase]
  /\ job \in [Runner -> Effect \cup {NoEffect}]
  /\ ticket \in [Runner -> Nat]
  /\ report \in [Runner -> Report \cup {NoReport}]
  /\ upsets \in 0..MaxUpset

(* However often leases lapse and claims are taken over, at most one       *)
(* runner can have its report of an effect accepted.                       *)
OneHolder ==
  \A r, q \in Runner, e \in Effect : Holds(r, e) /\ Holds(q, e) => r = q

(* A runner that was told "recorded", be it by its own completion or by    *)
(* the idempotent replay, knows what the ledger says of its effect.        *)
AckMeansRecorded ==
  \A r \in Runner : phase[r] = "acked" => result[job[r]] = report[r]

(* Every effect committed is settled in the end: runners may crash and     *)
(* lose their claims, the oldest effect is always served first, and still  *)
(* none is forgotten.                                                      *)
EverythingSettles ==
  \A e \in Effect : row[e] = "pending" ~> row[e] = "settled"

-----------------------------------------------------------------------------
Ledger == INSTANCE EffectLedger WITH
  owed <- {e \in Effect : row[e] # "absent"},
  verdict <- result

(* To the outside the outbox is an EffectLedger: one verdict per effect,   *)
(* one that happened, for good.                                            *)
ImplementsLedger == Ledger!LedgerSpec
=============================================================================
