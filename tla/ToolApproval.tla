---------------------------- MODULE ToolApproval ----------------------------
(***************************************************************************)
(* The tool runtime (harness-tool) with the permission engine it asks      *)
(* (harness-permission) and the application that calls it: a call is       *)
(* journalled, decided, executed and journalled again; what needs consent  *)
(* waits for the user's answer; the process may die between any two steps  *)
(* and forgets requests, grants and continuations, but not the journal.    *)
(*                                                                         *)
(* The application makes one call at a time, so `op' is the operation      *)
(* under way: the call, the step it is at and whether the tool succeeded.  *)
(* A step ends with the journal transaction it makes; what it changes in   *)
(* memory before is lost with the process and needs no step of its own.    *)
(* The compare-and-set of a transaction always finds the status the        *)
(* operation read.  An action key stands for the action with its           *)
(* arguments; calls of one key are calls of one tool.  A request is named  *)
(* by the call and the number of the time it asks; a grant by the request  *)
(* it answers.  All envelopes the application writes are trusted, so the   *)
(* mode "untrusted" asks for nothing.                                      *)
(***************************************************************************)
EXTENDS Naturals, FiniteSets

CONSTANTS
  Call,        \* invocations, each with an idempotency key of its own
  Key,         \* action keys
  Run,         \* agent runs
  NoCall, NoKey,
  RunOf,       \* RunOf[c]: the run it is made for
  UserCall,    \* the calls made by the user; the others are made by an agent
  Repeatable,  \* keys of tools that are read-only or idempotent
  KindOf,      \* KindOf[k]: "patch", "command" or "plain"
  Risky,       \* keys of high or critical risk
  Sandboxed,   \* keys the profile of the sandbox allows
  Pathlike,    \* keys of actions on paths, which a profile may deny outright
  Pluggable,   \* keys of tools of servers and plugins, which come and go
  Modes,       \* the approval policies the user switches between
  MaxRound,    \* how often one call may ask for approval
  MaxRetry,    \* how often one call may be tried again
  MaxEdit,     \* bound on edits of rules, mode and tools
  MaxCrash

Mode == {"untrusted", "on-request", "commands", "always", "never", "bypass"}
RuleEffect == {"none", "allow", "ask", "deny"}
Scope == {"once", "run", "project"}
Request == Call \X (1..MaxRound)

ASSUME ToolAssumption ==
  /\ NoCall \notin Call
  /\ NoKey \notin Key
  /\ RunOf \in [Call -> Run]
  /\ UserCall \subseteq Call
  /\ Repeatable \subseteq Key
  /\ KindOf \in [Key -> {"patch", "command", "plain"}]
  /\ Risky \subseteq Key
  /\ Sandboxed \subseteq Key
  /\ Pathlike \subseteq Key
  /\ Pluggable \subseteq Key
  /\ Modes \subseteq Mode
  /\ MaxRound \in Nat
  /\ MaxRetry \in Nat
  /\ MaxEdit \in Nat
  /\ MaxCrash \in Nat

VARIABLES
  key,        \* key[c]: the action of call c, once it is in the journal
  status,     \* status[c]: the status in the journal, "absent" before it
  round,      \* round[c]: how often c has asked; the last request it made
  retries,    \* retries[c]: how often c has been tried again
  request,    \* request[r]: the engine's view of a request
  grants,     \* the grants that can still be used
  kept,       \* calls for which the application keeps a continuation
  op,         \* the operation under way
  phase,      \* "rehydrate" and "recover" after a restart, then "up"
  rule,       \* rule[k]: effect of the best rule for k
  mode,       \* the approval policy
  barred,     \* keys the profile denies outright
  tools,      \* keys whose tool is registered
  edits, crashes,
  touched,    \* history: calls whose present start has had its effect
  performed,  \* history: how often a call has had its effect
  answers,    \* history: answers[k] "once" answers given for k
  spent,      \* history: spent[k] starts that a "once" answer has allowed
  stranded    \* history: calls this process allowed while their tool was gone

memory == <<request, grants, kept>>
settings == <<rule, mode, barred, tools, edits>>
history == <<touched, performed, answers, spent, stranded>>
vars == <<key, status, round, retries, memory, op, phase, settings, crashes, history>>

Idle == [call |-> NoCall, step |-> "none", ok |-> FALSE]
At(c, s) == [call |-> c, step |-> s, ok |-> FALSE]

(* The application can take a command.                                     *)
Ready == phase = "up" /\ op = Idle

Init ==
  /\ key = [c \in Call |-> NoKey]
  /\ status = [c \in Call |-> "absent"]
  /\ round = [c \in Call |-> 0]
  /\ retries = [c \in Call |-> 0]
  /\ request = [r \in Request |-> "none"]
  /\ grants = {}
  /\ kept = {}
  /\ op = Idle
  /\ phase = "up"
  /\ rule = [k \in Key |-> "none"]
  /\ mode \in Modes
  /\ barred = {}
  /\ tools = Key
  /\ edits = 0
  /\ crashes = 0
  /\ touched = {}
  /\ performed = [c \in Call |-> 0]
  /\ answers = [k \in Key |-> 0]
  /\ spent = [k \in Key |-> 0]
  /\ stranded = {}

-----------------------------------------------------------------------------
(* PermissionEngine::evaluate                                              *)

Forbidden(k) == k \in barred \/ rule[k] = "deny"

(* find_grant takes the first in the order of the identifiers, which says  *)
(* nothing about the scope: any of these.                                  *)
Covering(c) ==
  {g \in grants : /\ key[g.call] = key[c]
                  /\ g.scope = "run" => RunOf[g.call] = RunOf[c]}

MustAsk(c) ==
  LET k == key[c] IN
  \/ KindOf[k] = "patch" /\ mode # "bypass"
  \/ rule[k] = "ask"
  \/ mode = "always"
  \/ mode = "commands" /\ KindOf[k] = "command"
  \/ mode = "on-request" /\ (k \notin Sandboxed \/ (c \notin UserCall /\ k \in Risky))

(* The sandbox and the policy allow the call without asking anybody.       *)
Permitted(c) ==
  /\ key[c] \in Sandboxed
  /\ rule[key[c]] = "allow" \/ ~MustAsk(c)

-----------------------------------------------------------------------------
(* One call of the runtime                                                 *)

(* invoke: the call is entered as requested.                               *)
Invoke(c, k) ==
  /\ Ready
  /\ status[c] = "absent"
  /\ k \in tools
  /\ key' = [key EXCEPT ![c] = k]
  /\ status' = [status EXCEPT ![c] = "requested"]
  /\ op' = At(c, "authorize")
  /\ UNCHANGED <<round, retries, memory, phase, settings, crashes, history>>

(* invoke with a key that is in the journal answers with the entry; if it  *)
(* is waiting the model's state is put aside for it once more.             *)
InvokeAgain(c) ==
  /\ Ready
  /\ status[c] = "waiting"
  /\ c \notin UserCall
  /\ kept' = kept \cup {c}
  /\ UNCHANGED <<key, status, round, retries, request, grants, op, phase, settings, crashes,
                 history>>

(* retry: only what failed and may be repeated.  A tool that is gone is    *)
(* noticed after the entry has been changed.                               *)
Retry(c) ==
  /\ Ready
  /\ status[c] = "failed"
  /\ key[c] \in Repeatable
  /\ retries[c] < MaxRetry
  /\ retries' = [retries EXCEPT ![c] = @ + 1]
  /\ status' = [status EXCEPT ![c] = "requested"]
  /\ op' = IF key[c] \in tools THEN At(c, "authorize") ELSE Idle
  /\ UNCHANGED <<key, round, memory, phase, settings, crashes, history>>

(* authorize_and_maybe_execute                                             *)
Refuse(c) ==
  /\ op = At(c, "authorize")
  /\ Forbidden(key[c])
  /\ status' = [status EXCEPT ![c] = "denied"]
  /\ op' = Idle
  /\ UNCHANGED <<key, round, retries, memory, phase, settings, crashes, history>>

Start(c) ==
  /\ status' = [status EXCEPT ![c] = "running"]
  /\ op' = At(c, "execute")
  /\ touched' = touched \ {c}
  /\ UNCHANGED <<key, round, retries, request, kept, phase, settings, crashes, performed,
                 answers, stranded>>

(* Faulty: a grant for one use is not used up. *)
StartGrantedFree(c, g) ==
  /\ op = At(c, "authorize")
  /\ ~Forbidden(key[c])
  /\ g \in Covering(c)
  /\ spent' = [spent EXCEPT ![key[c]] = @ + (IF g.scope = "once" THEN 1 ELSE 0)]
  /\ Start(c)
  /\ UNCHANGED grants

StartGranted(c, g) ==
  /\ op = At(c, "authorize")
  /\ ~Forbidden(key[c])
  /\ g \in Covering(c)
  /\ grants' = IF g.scope = "once" THEN grants \ {g} ELSE grants
  /\ spent' = [spent EXCEPT ![key[c]] = @ + (IF g.scope = "once" THEN 1 ELSE 0)]
  /\ Start(c)

StartPermitted(c) ==
  /\ op = At(c, "authorize")
  /\ ~Forbidden(key[c])
  /\ Covering(c) = {}
  /\ Permitted(c)
  /\ Start(c)
  /\ UNCHANGED <<grants, spent>>

(* Nobody has allowed it yet: a request is opened and the call waits.      *)
Ask(c) ==
  /\ op = At(c, "authorize")
  /\ ~Forbidden(key[c])
  /\ Covering(c) = {}
  /\ ~Permitted(c)
  /\ round[c] < MaxRound
  /\ round' = [round EXCEPT ![c] = @ + 1]
  /\ request' = [request EXCEPT ![<<c, round[c] + 1>>] = "pending"]
  /\ status' = [status EXCEPT ![c] = "waiting"]
  /\ kept' = IF c \in UserCall THEN kept ELSE kept \cup {c}
  /\ op' = Idle
  /\ UNCHANGED <<key, retries, grants, phase, settings, crashes, history>>

(* The sandbox runs the tool.  A tool that fails, or is cancelled, may     *)
(* have had its effect all the same.                                       *)
Execute(c, effect, ok) ==
  /\ op = At(c, "execute")
  /\ ok => effect
  /\ touched' = IF effect THEN touched \cup {c} ELSE touched
  /\ performed' = [performed EXCEPT ![c] = @ + (IF effect THEN 1 ELSE 0)]
  /\ op' = [At(c, "record") EXCEPT !.ok = ok]
  /\ UNCHANGED <<key, status, round, retries, memory, phase, settings, crashes, answers,
                 spent, stranded>>

(* Faulty: everything that did not succeed has failed. *)
UnfinishedFailed(c) == "failed"

(* How a start without a result is entered: what may be repeated has       *)
(* failed, of anything else it is not known.                               *)
Unfinished(c) == IF key[c] \in Repeatable THEN "failed" ELSE "uncertain"

Record(c) ==
  /\ op.call = c
  /\ op.step = "record"
  /\ status' = [status EXCEPT ![c] = IF op.ok THEN "completed" ELSE Unfinished(c)]
  /\ op' = Idle
  /\ UNCHANGED <<key, round, retries, memory, phase, settings, crashes, history>>

-----------------------------------------------------------------------------
(* The user answers                                                        *)

Waiting(c) == status[c] = "waiting"
LastRequest(c) == <<c, round[c]>>

(* Faulty: the grant names the round for the call. *)
ApproveSwapped(c, s) ==
  /\ Ready
  /\ Waiting(c)
  /\ c \in UserCall \cup kept
  /\ request[LastRequest(c)] = "pending"
  /\ request' = [request EXCEPT ![LastRequest(c)] = "allowed"]
  /\ grants' = grants \cup {[call |-> round[c], round |-> c, scope |-> s]}
  /\ UNCHANGED <<key, status, round, retries, kept, op, phase, settings, crashes,
                 history>>

(* approve_tool and resume_after_approval.  An agent's call is refused     *)
(* when its continuation is lost.  The request is answered before the tool *)
(* is looked up: if it is gone the answer and the grant stay behind.       *)
Approve(c, s) ==
  /\ Ready
  /\ Waiting(c)
  /\ c \in UserCall \cup kept
  /\ request[LastRequest(c)] = "pending"
  /\ request' = [request EXCEPT ![LastRequest(c)] = "allowed"]
  /\ grants' = grants \cup {[call |-> c, round |-> round[c], scope |-> s]}
  /\ answers' = [answers EXCEPT ![key[c]] = @ + (IF s = "once" THEN 1 ELSE 0)]
  /\ op' = IF key[c] \in tools THEN At(c, "authorize") ELSE Idle
  /\ stranded' = IF key[c] \in tools THEN stranded ELSE stranded \cup {c}
  /\ UNCHANGED <<key, status, round, retries, kept, phase, settings, crashes, touched,
                 performed, spent>>

(* Faulty: the engine hears of the refusal, the journal does not. *)
DenyEngineOnly(c) ==
  /\ Ready
  /\ Waiting(c)
  /\ request[LastRequest(c)] = "pending"
  /\ request' = [request EXCEPT ![LastRequest(c)] = "denied"]
  /\ kept' = kept \ {c}
  /\ UNCHANGED <<key, status, round, retries, grants, op, phase, settings, crashes,
                 history>>

(* deny_tool and deny_approval need no continuation.                       *)
Deny(c) ==
  /\ Ready
  /\ Waiting(c)
  /\ request[LastRequest(c)] = "pending"
  /\ request' = [request EXCEPT ![LastRequest(c)] = "denied"]
  /\ status' = [status EXCEPT ![c] = "denied"]
  /\ kept' = kept \ {c}
  /\ UNCHANGED <<key, round, retries, grants, op, phase, settings, crashes, history>>

-----------------------------------------------------------------------------
(* The surroundings                                                        *)

Edit ==
  /\ Ready
  /\ edits < MaxEdit
  /\ edits' = edits + 1
  /\ UNCHANGED <<key, status, round, retries, memory, op, phase, barred, crashes, history>>

EditRule(k, e) ==
  /\ rule[k] # e
  /\ Edit
  /\ rule' = [rule EXCEPT ![k] = e]
  /\ UNCHANGED <<mode, tools>>

SetMode(m) ==
  /\ mode # m
  /\ Edit
  /\ mode' = m
  /\ UNCHANGED <<rule, tools>>

(* A server or a plugin is started, stopped or removed.                    *)
Toggle(k) ==
  /\ Edit
  /\ tools' = IF k \in tools THEN tools \ {k} ELSE tools \cup {k}
  /\ UNCHANGED <<rule, mode>>

(* The process dies and is started again, perhaps with a stricter profile. *)
Crash(B) ==
  /\ crashes < MaxCrash
  /\ crashes' = crashes + 1
  /\ request' = [r \in Request |-> "none"]
  /\ grants' = {}
  /\ kept' = {}
  /\ op' = Idle
  /\ barred' = B
  /\ tools' = Key
  /\ phase' = "rehydrate"
  /\ stranded' = {}
  /\ UNCHANGED <<key, status, round, retries, rule, mode, edits, touched, performed, answers,
                 spent>>

(* rehydrate_pending_approvals, one entry of the journal at a time.        *)
Rehydrate(c) ==
  /\ phase = "rehydrate"
  /\ Waiting(c)
  /\ request[LastRequest(c)] = "none"
  /\ IF key[c] \in barred
     THEN /\ status' = [status EXCEPT ![c] = "denied"]
          /\ UNCHANGED request
     ELSE /\ request' = [request EXCEPT ![LastRequest(c)] = "pending"]
          /\ UNCHANGED status
  /\ UNCHANGED <<key, round, retries, grants, kept, op, phase, settings, crashes, history>>

Rehydrated ==
  /\ phase = "rehydrate"
  /\ \A c \in Call : Waiting(c) => request[LastRequest(c)] # "none"
  /\ phase' = "recover"
  /\ UNCHANGED <<key, status, round, retries, memory, op, settings, crashes, history>>

(* Faulty: a start without an end is put to the user again. *)
RecoverAskAgain(c) ==
  /\ phase = "recover"
  /\ status[c] = "running"
  /\ status' = [status EXCEPT ![c] = "waiting"]
  /\ UNCHANGED <<key, round, retries, memory, op, phase, settings, crashes, history>>

(* recover_interrupted                                                     *)
Recover(c) ==
  /\ phase = "recover"
  /\ status[c] = "running"
  /\ status' = [status EXCEPT ![c] = Unfinished(c)]
  /\ UNCHANGED <<key, round, retries, memory, op, phase, settings, crashes, history>>

Recovered ==
  /\ phase = "recover"
  /\ \A c \in Call : status[c] # "running"
  /\ phase' = "up"
  /\ UNCHANGED <<key, status, round, retries, memory, op, settings, crashes, history>>

Next ==
  \/ \E c \in Call :
       \/ \E k \in Key : Invoke(c, k)
       \/ InvokeAgain(c) \/ Retry(c)
       \/ Refuse(c) \/ StartPermitted(c) \/ Ask(c) \/ Record(c)
       \/ Deny(c) \/ Rehydrate(c) \/ Recover(c)
       \/ \E g \in grants : StartGranted(c, g)
       \/ \E effect, ok \in BOOLEAN : Execute(c, effect, ok)
       \/ \E s \in Scope : Approve(c, s)
  \/ \E k \in Pluggable : Toggle(k)
  \/ \E k \in Key, e \in RuleEffect : EditRule(k, e)
  \/ \E m \in Modes : SetMode(m)
  \/ \E B \in SUBSET Pathlike : Crash(B)
  \/ Rehydrated \/ Recovered

Spec == Init /\ [][Next]_vars

-----------------------------------------------------------------------------
Status == {"absent", "requested", "waiting", "running", "completed", "denied",
           "failed", "uncertain"}

(* Journal, engine and application stay within their types.                *)
TypeOK ==
  /\ key \in [Call -> Key \cup {NoKey}]
  /\ status \in [Call -> Status]
  /\ round \in [Call -> 0..MaxRound]
  /\ retries \in [Call -> 0..MaxRetry]
  /\ request \in [Request -> {"none", "pending", "allowed", "denied"}]
  /\ grants \subseteq [call : Call, round : 1..MaxRound, scope : Scope]
  /\ kept \subseteq Call
  /\ op \in [call : Call \cup {NoCall}, step : {"none", "authorize", "execute",
             "record"}, ok : BOOLEAN]
  /\ phase \in {"rehydrate", "recover", "up"}
  /\ rule \in [Key -> RuleEffect]
  /\ mode \in Mode
  /\ barred \subseteq Key
  /\ tools \subseteq Key
  /\ edits \in 0..MaxEdit
  /\ crashes \in 0..MaxCrash
  /\ touched \subseteq Call
  /\ performed \in [Call -> Nat]
  /\ answers \in [Key -> Nat]
  /\ spent \in [Key -> Nat]
  /\ stranded \subseteq Call

(* The journal can be believed after any number of restarts, retries and   *)
(* repeated calls: what it calls completed has happened, and a tool whose  *)
(* effect may not be repeated has had it at most once, and never for a     *)
(* call that is undecided, waiting for the user or denied.                 *)
JournalTellsTruth ==
  \A c \in Call :
    /\ status[c] = "completed" => performed[c] > 0
    /\ key[c] \notin Repeatable =>
         /\ performed[c] <= 1
         /\ status[c] \in {"absent", "requested", "waiting", "denied"} =>
              performed[c] = 0

(* Whenever the application can take a command the journal and the engine  *)
(* agree on what the user is asked: a call that waits has an open request, *)
(* unless its tool was gone when the user allowed it, and every open       *)
(* request is the last one of a call that waits.                           *)
AskedOfUser ==
  Ready =>
    /\ \A c \in Call :
         Waiting(c) => request[LastRequest(c)] = "pending" \/ c \in stranded
    /\ \A r \in Request :
         request[r] = "pending" => Waiting(r[1]) /\ r = LastRequest(r[1])

(* Consent for one use is worth one use: the starts it has allowed and the *)
(* grants still unused never exceed the answers given, whichever call uses *)
(* a grant up, and a restart adds none.                                    *)
ConsentIsConserved ==
  \A k \in Key :
    spent[k] + Cardinality({g \in grants : g.scope = "once" /\ key[g.call] = k})
      <= answers[k]

(* Nothing that needs the user's consent runs without it, and a consent      *)
(* serves what it was given for, no more.                                    *)
ConsentHolds == AskedOfUser /\ ConsentIsConserved

-----------------------------------------------------------------------------
Ledger == INSTANCE ToolLedger WITH
  fragile <- {c \in Call : key[c] \in Key \ Repeatable},
  stage <- [c \in Call |->
              CASE status[c] \in {"requested", "waiting"} -> "undecided"
                [] status[c] = "running" -> "started"
                [] OTHER -> status[c]]

(* To the caller the runtime is a ToolLedger: one decision, at most one    *)
(* effect for a start, one start for what may not be repeated, and an      *)
(* entry that is final once it is completed, denied or uncertain.          *)
ImplementsToolLedger == Ledger!LedgerSpec
=============================================================================
