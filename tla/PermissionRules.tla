--------------------------- MODULE PermissionRules ---------------------------
(***************************************************************************)
(* The user's permission rules: the list the engine decides by             *)
(* (harness-permission), the table of the console that is written to the   *)
(* file (AppBackend::permission_rules), and the file itself, which is      *)
(* replaced by two renames.  A rule allows, asks or denies what its pattern *)
(* covers; here the pattern is the set of paths it matches, see module      *)
(* PatternMatch, and what is asked is to write some paths.                  *)
(*                                                                         *)
(* What the engine does with the verdict is in module ToolApproval.        *)
(***************************************************************************)
EXTENDS Integers, Sequences, FiniteSets, SequencesExt

CONSTANTS
  Path,      \* paths tools may ask to write
  MaxRule,   \* bound on identifiers of rules
  Given,     \* the rules the user may add
  NoRule,
  MaxFault,  \* bound on failures of the file system
  MaxKill    \* bound on the kills of the process

VARIABLES
  engine,  \* PermissionEngine::rules
  table,   \* AppBackend::permission_rules
  file,    \* the rules in the file, or that there is none
  op,      \* the change that is being made, see Change
  told,    \* the rules the user was told of and has not removed
  astray,  \* the process was killed while there was no file
  faults, kills

vars == <<engine, table, file, op, told, astray, faults, kills>>

Effect == {"allow", "ask", "deny"}

Rule == [id: 1..MaxRule, effect: Effect, covers: (SUBSET Path) \ {{}}, length: 1..2]

Change == [kind: {"add", "remove"}, rule: Rule, saved: {"no", "done", "failed"}]

TypeOK ==
  /\ engine \in Seq(Rule) /\ table \subseteq Rule
  /\ file \in (SUBSET Rule) \cup {NoRule}
  /\ op \in Change \cup {NoRule}
  /\ told \subseteq Rule /\ astray \in BOOLEAN
  /\ faults \in 0..MaxFault /\ kills \in 0..MaxKill

-----------------------------------------------------------------------------
(* The verdict.                                                             *)

(* Faulty: a rule that allows one of the paths of a patch allows it.        *)
CoversAny(r, paths) == r.covers \cap paths # {}

(* A rule that allows has to cover every path that would be written, the    *)
(* others one of them.                                                      *)
Covers(r, paths) ==
  IF r.effect = "allow" THEN paths # {} /\ paths \subseteq r.covers
  ELSE r.covers \cap paths # {}

Weight(r) == CASE r.effect = "allow" -> 1 [] r.effect = "ask" -> 2 [] r.effect = "deny" -> 3

(* Faulty: the first rule that matches decides.                             *)
FirstMatch(rules, hits) == rules[CHOOSE i \in hits : \A j \in hits : i <= j]

(* best_matching_rule: of those that match, the strictest, of them the one   *)
(* with the longest pattern, of them the one with the least identifier.     *)
BestMatch(rules, hits) ==
  rules[CHOOSE i \in hits : \A j \in hits :
    LET r == rules[i]  s == rules[j] IN
    \/ Weight(r) > Weight(s)
    \/ Weight(r) = Weight(s) /\ r.length > s.length
    \/ Weight(r) = Weight(s) /\ r.length = s.length /\ r.id <= s.id]

Decisive(rules, paths) ==
  LET hits == {i \in DOMAIN rules : Covers(rules[i], paths)}
  IN IF hits = {} THEN NoRule ELSE BestMatch(rules, hits)

Verdict(rules, paths) ==
  LET r == Decisive(rules, paths) IN IF r = NoRule THEN "none" ELSE r.effect

-----------------------------------------------------------------------------
(* The rules.                                                               *)

(* The order of the file and of the table.                                  *)
ById(rules) ==
  CHOOSE s \in [1..Cardinality(rules) -> rules] :
    \A i, j \in DOMAIN s : i < j => s[i].id < s[j].id

InFile == IF file = NoRule THEN {} ELSE file

Without(rules, r) ==
  LET kept[n \in 0..Len(rules)] ==
        IF n = 0 THEN <<>>
        ELSE IF rules[n].id = r.id THEN kept[n - 1] ELSE Append(kept[n - 1], rules[n])
  IN kept[Len(rules)]

Init ==
  /\ engine = <<>> /\ table = {} /\ file = NoRule /\ op = NoRule
  /\ told = {} /\ astray = FALSE /\ faults = 0 /\ kills = 0

(* The rule is in force before it is written.                               *)
AddRule(r) ==
  /\ op = NoRule /\ \A s \in table : s.id # r.id
  /\ engine' = Append(engine, r)
  /\ op' = [kind |-> "add", rule |-> r, saved |-> "no"]
  /\ UNCHANGED <<table, file, told, astray, faults, kills>>

(* The rule is in force until it has been written without it.               *)
RemoveRule(r) ==
  /\ op = NoRule /\ r \in table
  /\ op' = [kind |-> "remove", rule |-> r, saved |-> "no"]
  /\ told' = told \ {r}
  /\ UNCHANGED <<engine, table, file, astray, faults, kills>>

Candidate == IF op.kind = "add" THEN table \cup {op.rule} ELSE table \ {op.rule}

(* save_permission_rules_atomic: the new file is written beside the old     *)
(* one, which is renamed away, and is renamed in its place; when this fails *)
(* the old one is renamed back, which may fail too.                         *)
Save ==
  /\ op # NoRule /\ op.saved = "no"
  /\ \/ /\ op' = [op EXCEPT !.saved = "done"] /\ file' = Candidate
        /\ UNCHANGED faults
     \/ /\ faults < MaxFault /\ faults' = faults + 1
        /\ op' = [op EXCEPT !.saved = "failed"] /\ UNCHANGED file
     \/ /\ faults + 1 < MaxFault /\ faults' = faults + 2
        /\ file # NoRule /\ file' = NoRule
        /\ op' = [op EXCEPT !.saved = "failed"]
  /\ UNCHANGED <<engine, table, told, astray, kills>>

(* Faulty: the rule that could not be written stays in force.               *)
KeepUnsaved(r) == engine

(* The rule that could not be written is taken back.                        *)
TakenBack(r) == Without(engine, r)

FinishAdd ==
  /\ op # NoRule /\ op.kind = "add" /\ op.saved # "no"
  /\ IF op.saved = "done"
     THEN table' = Candidate /\ told' = told \cup {op.rule} /\ UNCHANGED engine
     ELSE engine' = TakenBack(op.rule) /\ UNCHANGED <<table, told>>
  /\ op' = NoRule
  /\ UNCHANGED <<file, astray, faults, kills>>

(* A rule that could not be written away stays.                             *)
FinishRemove ==
  /\ op # NoRule /\ op.kind = "remove" /\ op.saved # "no"
  /\ IF op.saved = "done"
     THEN engine' = Without(engine, op.rule) /\ table' = Candidate /\ UNCHANGED told
     ELSE told' = told \cup {op.rule} /\ UNCHANGED <<engine, table>>
  /\ op' = NoRule
  /\ UNCHANGED <<file, astray, faults, kills>>

(* The process is killed, perhaps in the middle of writing, and started     *)
(* again: the rules are those of the file, none when there is no file.      *)
Restart ==
  /\ kills < MaxKill /\ kills' = kills + 1
  /\ LET writing == op # NoRule /\ op.saved = "no"
     IN \/ UNCHANGED <<file, astray>>
        \/ writing /\ file' = Candidate /\ UNCHANGED astray
        \/ writing /\ file # NoRule /\ file' = NoRule /\ astray' = TRUE
  /\ table' = IF file' = NoRule THEN {} ELSE file'
  /\ engine' = ById(table')
  /\ op' = NoRule
  /\ UNCHANGED <<told, faults>>

Next ==
  \/ \E r \in Given : AddRule(r)
  \/ \E r \in table : RemoveRule(r)
  \/ Save \/ FinishAdd \/ FinishRemove \/ Restart

Spec == Init /\ [][Next]_vars

-----------------------------------------------------------------------------
(* Properties.                                                              *)

(* main.rs:2987: the rules that are in force, those the console lists and   *)
(* those in the file are the same ones whenever no change is being made,    *)
(* whatever failed, unless the old file could not be put back either; and a *)
(* rule the user was told of stays until its removal is asked for, unless   *)
(* the process was killed in the moment in which there is no file.          *)
RulesAreOne ==
  /\ op = NoRule => ToSet(engine) = table
  /\ op = NoRule /\ faults < 2 => InFile = table
  /\ ~astray /\ faults < 2 => told \subseteq table

(* lib.rs:781, 803: the verdict on a patch is never laxer than that on a    *)
(* path of it, and the same rule decides when the rules are read back from  *)
(* the file, in another order.                                              *)
VerdictHolds ==
  \A paths \in (SUBSET Path) \ {{}} :
    /\ Verdict(engine, paths) = "allow" => \A p \in paths : Verdict(engine, {p}) = "allow"
    /\ (\E p \in paths : Verdict(engine, {p}) = "deny") => Verdict(engine, paths) = "deny"
    /\ op = NoRule => Decisive(engine, paths) = Decisive(ById(table), paths)
=============================================================================
