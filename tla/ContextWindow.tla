--------------------------- MODULE ContextWindow ---------------------------
(***************************************************************************)
(* What of a session the model is shown: the items of the active series,   *)
(* their compilation into a window of tokens (harness-context, context.rs), *)
(* and their compaction, in which older talk gives way to a summary that a *)
(* model writes or, when it cannot, the program extracts (compaction.rs;   *)
(* HybridSummaryProvider).  The transactions of it are in ContextSeries.   *)
(*                                                                         *)
(* The items are those that production makes: the goal and the task, which *)
(* are replaced, pins, and talk.  The former are hard-required, no item    *)
(* expires, no lane has a cap.  An identifier is also the time of an item. *)
(* Facts of a summary are counted, not named, and each costs one token.    *)
(***************************************************************************)
EXTENDS Integers, FiniteSets, FiniteSetsExt

CONSTANTS
  Slot,         \* items that are replaced: the goal, the task
  Text,         \* what may be said: the words and who says them
  Role,         \* roles of agents
  TalkRole,     \* those of them that are shown the conversation
  TextCost,     \* tokens of each text
  SlotCost,     \* tokens a goal, task or pin may have
  MaxCost,      \* bound on the tokens of an item
  MaxItem,      \* bound on items ever made
  Window,       \* max_input_tokens
  Recent,       \* how many items each mode of compaction leaves alone
  Ceiling,      \* tokens of a summary, by mode
  SummaryFloor, \* tokens a summary may have in any case
  NeedsFloor, RefsFloor,  \* facts and references that are not cut
  MaxFacts      \* bound on the facts a model writes

VARIABLES
  items,   \* items of the active series
  made,    \* how many items were made
  wanted,  \* history: the present goal and task and the pins
  said,    \* history: all messages
  op,      \* the compaction that is under way, see Work
  outcome  \* how the last one ended

vars == <<items, made, wanted, said, op, outcome>>

Mode == {"safe", "aggressive"}
Kind == Slot \cup {"pin", "talk", "summary"}

(* `covers' are the messages a summary was made from, directly or not.      *)
Item == [id: 1..MaxItem, kind: Kind, cost: 1..MaxCost, order: -1..MaxItem,
         text: Text \cup {"unique"}, covers: SUBSET (1..MaxItem)]

(* The facts of the summary: requirements first `asked' and now `needs',    *)
(* the digest of the history, references.                                   *)
Work ==
  [mode: Mode, auto: BOOLEAN, kept: SUBSET Item, stage: {"idle", "summarize", "fit", "commit"},
   asked: Nat, needs: Nat, history: Nat, refs: Nat, cost: Nat]

Started(mode, auto, kept) ==
  [mode |-> mode, auto |-> auto, kept |-> kept, stage |-> "summarize",
   asked |-> 0, needs |-> 0, history |-> 0, refs |-> 0, cost |-> 0]

Idle == [Started("safe", FALSE, {}) EXCEPT !.stage = "idle"]

Code == {"none", "done", "required-context-exceeds-budget", "no-safe-items-to-compact",
         "summary-budget-exceeded", "compaction-not-beneficial"}

TypeOK ==
  /\ items \subseteq Item /\ made \in 0..MaxItem
  /\ wanted \subseteq 1..made /\ said \subseteq 1..made
  /\ op \in Work
  /\ outcome \in [code: Code, error: BOOLEAN, auto: BOOLEAN]

Init ==
  /\ items = {} /\ made = 0 /\ wanted = {} /\ said = {} /\ op = Idle
  /\ outcome = [code |-> "none", error |-> FALSE, auto |-> FALSE]

-----------------------------------------------------------------------------
(* compile_context.                                                         *)

CostOf(s) == MapThenSumSet(LAMBDA i : i.cost, s)
Hard(s) == {i \in s : i.kind \notin {"talk", "summary"}}
Talk(s) == {i \in s : i.kind = "talk"}

(* role_allows: every role is shown what is hard-required, some the talk.   *)
Allowed(role, s) == IF role \in TalkRole THEN s ELSE Hard(s)

(* deduplicate: of two messages with the same text (source identity and     *)
(* content) the later one is kept.                                          *)
Deduplicated(s) ==
  {i \in s : i.kind = "talk" => ~\E j \in Talk(s) : j.text = i.text /\ j.id > i.id}

(* Faulty: what is newer goes first.                                        *)
NewerFirst(i, j) == i.id > j.id

(* removal_order of what may be removed: talk before summaries, which are   *)
(* more important, and the older before the newer.                          *)
RemovedBefore(i, j) ==
  IF i.kind = j.kind THEN i.id < j.id ELSE i.kind = "talk"

(* What has to go for the rest to fit: an item goes as long as it is too    *)
(* much without those that go before it.                                    *)
Excess(s) ==
  {i \in s \ Hard(s) :
    CostOf(s) - CostOf({j \in s \ Hard(s) : j # i /\ RemovedBefore(j, i)}) > Window}

Fits(s) == CostOf(Hard(s)) <= Window

(* What the model is shown, if what is required fits.                       *)
Compiled(role, s) ==
  LET d == Deduplicated(Allowed(role, s)) IN d \ Excess(d)

(* agent_working_context, and the view of the user.                         *)
WorkingContext(role) == Compiled(role, items)
ContextView == Compiled("supervisor", items)

(* presentation_order within the dynamic tail.                              *)
ShownBefore(i, j) == i.order < j.order

-----------------------------------------------------------------------------
(* The items.                                                               *)

(* Faulty: the number of items is the order of the next.                    *)
CountedOrder(s) == Cardinality(s)

(* next_context_order                                                       *)
NextOrder(s) == IF s = {} THEN 0 ELSE Max({i.order : i \in s}) + 1

NewItem(s, kind, cost, text) ==
  [id |-> made + 1, kind |-> kind, cost |-> cost, order |-> NextOrder(s),
   text |-> text, covers |-> {}]

CanAdd == op = Idle /\ made < MaxItem /\ made' = made + 1

(* append_context_item, by the user and by the assistant.                   *)
Say(text) ==
  /\ CanAdd /\ items' = items \cup {NewItem(items, "talk", TextCost[text], text)}
  /\ said' = said \cup {made + 1}
  /\ UNCHANGED <<wanted, op, outcome>>

(* pin                                                                      *)
Pin(cost) ==
  /\ CanAdd /\ items' = items \cup {NewItem(items, "pin", cost, "unique")}
  /\ wanted' = wanted \cup {made + 1}
  /\ UNCHANGED <<said, op, outcome>>

Others(slot) == {i \in items : i.kind # slot}
In(slot) == {i.id : i \in items \ Others(slot)}

(* replace_context_source                                                   *)
Replace(slot, cost) ==
  /\ CanAdd
  /\ items' = Others(slot) \cup {NewItem(Others(slot), slot, cost, "unique")}
  /\ wanted' = (wanted \ In(slot)) \cup {made + 1}
  /\ UNCHANGED <<said, op, outcome>>

(* clear_goal, focus without a value                                        *)
Clear(slot) ==
  /\ op = Idle /\ In(slot) # {}
  /\ items' = Others(slot) /\ wanted' = wanted \ In(slot)
  /\ UNCHANGED <<made, said, op, outcome>>

-----------------------------------------------------------------------------
(* Compaction.                                                              *)

(* Faulty: a summary that cannot be made short enough fails the task.       *)
IgnoredButBudget(code) == code \in {"no-safe-items-to-compact", "compaction-not-beneficial"}

(* auto_compact_if_needed: errors that leave things as they are.            *)
Ignored(code) ==
  code \in {"no-safe-items-to-compact", "compaction-not-beneficial",
            "summary-budget-exceeded"}

Ends(code, auto) ==
  outcome' = [code |-> code, auto |-> auto,
              error |-> code # "done" /\ ~(auto /\ Ignored(code))]

Latest(n, s) == {i \in s : Cardinality({j \in s : j.id > i.id}) < n}

(* How many items compact leaves alone: at least one, at most all but two.  *)
RecentCount(mode) ==
  LET n == Cardinality(items) - 2
  IN IF n < 1 THEN 1 ELSE IF n < Recent[mode] THEN n ELSE Recent[mode]

(* compaction_semantic_anchors: old talk that is close to the task stays as *)
(* it is, one item for at least three that might go.                        *)
AnchorChoice(mode) ==
  LET old == (items \ Hard(items)) \ Latest(Recent[mode], items)
  IN {a \in SUBSET old : 3 * Cardinality(a) <= Cardinality(old)}

(* Faulty: what is required is only kept while it is recent.                *)
KeptRecent(mode, anchors) == Latest(RecentCount(mode), items) \cup anchors

(* retain_exact and the choice of what stays.                               *)
Kept(mode, anchors) ==
  Latest(RecentCount(mode), items) \cup Hard(items) \cup anchors

Begin(mode, auto) ==
  /\ op = Idle /\ made < MaxItem
  /\ \E anchors \in AnchorChoice(mode) :
       IF Kept(mode, anchors) = items
       THEN Ends("no-safe-items-to-compact", auto) /\ UNCHANGED op
       ELSE op' = Started(mode, auto, Kept(mode, anchors)) /\ UNCHANGED outcome
  /\ UNCHANGED <<items, made, wanted, said>>

(* /compact                                                                 *)
Compact(mode) == items # {} /\ Begin(mode, FALSE)

(* auto_compact_if_needed: at four fifths of the window.                    *)
Auto ==
  /\ op = Idle
  /\ IF ~Fits(items)
     THEN /\ Ends("required-context-exceeds-budget", TRUE)
          /\ UNCHANGED <<items, made, wanted, said, op>>
     ELSE /\ (100 * CostOf(ContextView)) \div Window >= 80
          /\ Begin("safe", TRUE)

MostTokens ==
  LET quarter == CostOf(items) \div 4
      most == IF quarter < SummaryFloor THEN SummaryFloor ELSE quarter
  IN IF most < Ceiling[op.mode] THEN most ELSE Ceiling[op.mode]

Facts(n, h, r) ==
  op' = [op EXCEPT !.stage = "fit", !.asked = n, !.needs = n, !.history = h, !.refs = r]

Sources == Cardinality(items \ op.kept)

(* model_summary: an answer that is complete, is JSON, states something and *)
(* cites what it was given.                                                 *)
ModelSummary ==
  /\ op.stage = "summarize"
  /\ \E n, h \in 0..MaxFacts, r \in 1..MaxFacts : n + h > 0 /\ Facts(n, h, r)
  /\ UNCHANGED <<items, made, wanted, said, outcome>>

(* extractive_summary: any error of the model, a cut stream, an answer that *)
(* is incomplete or cites nothing: a fact and a reference for each item.    *)
ExtractiveSummary ==
  /\ op.stage = "summarize" /\ Facts(0, Sources, Sources)
  /\ UNCHANGED <<items, made, wanted, said, outcome>>

SummaryCost == 1 + op.needs + op.history + op.refs

(* Faulty: requirements are cut first.                                      *)
CutNeedsFirst ==
  IF op.needs > NeedsFloor THEN [op EXCEPT !.needs = @ - 1]
  ELSE IF op.history > 0 THEN [op EXCEPT !.history = @ - 1]
  ELSE IF op.refs > RefsFloor THEN [op EXCEPT !.refs = @ - 1]
  ELSE op

(* finish_summary: one fact less, of what is worth least.                   *)
Cut ==
  IF op.history > 0 THEN [op EXCEPT !.history = @ - 1]
  ELSE IF op.needs > NeedsFloor THEN [op EXCEPT !.needs = @ - 1]
  ELSE IF op.refs > RefsFloor THEN [op EXCEPT !.refs = @ - 1]
  ELSE op

(* When nothing more may be cut the facts are shortened, which may do.      *)
Fit ==
  /\ op.stage = "fit"
  /\ \/ /\ SummaryCost <= MostTokens
        /\ op' = [op EXCEPT !.stage = "commit", !.cost = SummaryCost]
        /\ UNCHANGED outcome
     \/ SummaryCost > MostTokens /\ Cut # op /\ op' = Cut /\ UNCHANGED outcome
     \/ /\ SummaryCost > MostTokens /\ Cut = op
        /\ op' = [op EXCEPT !.stage = "commit", !.cost = MostTokens]
        /\ UNCHANGED outcome
     \/ /\ SummaryCost > MostTokens /\ Cut = op
        /\ op' = Idle /\ Ends("summary-budget-exceeded", op.auto)
  /\ UNCHANGED <<items, made, wanted, said>>

(* Faulty: only messages are covered, not what former summaries cover.      *)
DirectlyCovered(s) == {i.id : i \in Talk(s)}

Covered(s) == {i.id : i \in Talk(s)} \cup UNION {i.covers : i \in s}

(* The summary takes the place of what it was made from, before all talk,   *)
(* if that saves tokens.                                                    *)
Commit ==
  /\ op.stage = "commit"
  /\ LET summary == [id |-> made + 1, kind |-> "summary", cost |-> op.cost, order |-> -1,
                     text |-> "unique", covers |-> Covered(items \ op.kept)]
     IN IF CostOf(op.kept) + op.cost < CostOf(items)
        THEN /\ items' = op.kept \cup {summary} /\ made' = made + 1
             /\ Ends("done", op.auto)
        ELSE Ends("compaction-not-beneficial", op.auto) /\ UNCHANGED <<items, made>>
  /\ op' = Idle
  /\ UNCHANGED <<wanted, said>>

Next ==
  \/ \E t \in Text : Say(t)
  \/ \E c \in SlotCost : Pin(c)
  \/ \E slot \in Slot, c \in SlotCost : Replace(slot, c)
  \/ \E slot \in Slot : Clear(slot)
  \/ \E mode \in Mode : Compact(mode)
  \/ Auto \/ ModelSummary \/ ExtractiveSummary \/ Fit \/ Commit

Spec == Init /\ [][Next]_vars

-----------------------------------------------------------------------------
(* Properties.                                                              *)

(* The present goal and task and every pin are shown to every role, after   *)
(* whatever compactions, unless they alone are more than the window.        *)
RequiredIsShown ==
  \A role \in Role :
    Fits(items) => wanted \subseteq {i.id : i \in WorkingContext(role)}

(* No message is lost between what a compaction keeps and what it           *)
(* summarizes: it is an item, or a summary that is an item was made from    *)
(* it, or from a summary of it.                                             *)
NothingFallsOut ==
  \A m \in said : \E i \in items : i.id = m \/ m \in i.covers

(* The window holds the newest of the talk, in the order in which it was    *)
(* said and after all summaries: a message is left out only with all that   *)
(* are older, or for a later one with its text; and as long as talk is      *)
(* shown, every summary is.                                                 *)
ShownIsRecent ==
  Fits(items) =>
    LET shown == ContextView IN
    /\ CostOf(shown) <= Window
    /\ \A i \in Talk(shown) :
         /\ \A j \in Talk(items) :
              j.id > i.id => /\ \E k \in Talk(shown) : k.text = j.text /\ k.id >= j.id
                             /\ ShownBefore(i, j)
         /\ \A j \in items : j.kind = "summary" => j \in shown /\ ShownBefore(j, i)

(* lib.rs:4419: compaction that the program begins by itself fails the task *)
(* only when what is required is more than the window.                      *)
AutoIsHarmless ==
  outcome.auto /\ outcome.error => outcome.code = "required-context-exceeds-budget"

(* Of a summary the digest is cut first: a requirement goes only when no    *)
(* digest is left, and never all of them.                                   *)
RequirementsOutlastHistory ==
  op.needs < op.asked => op.history = 0 /\ op.needs >= NeedsFloor
=============================================================================
