------------------------------ MODULE MCTools -------------------------------
(* Tools and the user's choices, on small instances: the consent an          *)
(* invocation needs, the files it changes, the rules and patterns that       *)
(* decide, where tools come from, the settings of the sessions and the       *)
(* set-up of providers and their keys.                                       *)
(* ToolApproval: an agent and the user make a call each, of a server's tool  *)
(* whose effect may not be repeated, or of a file write; the user starts by  *)
(* being asked on request.  PatchSet: two previews that share a file.        *)
(* ToolServers: a server, which a plugin brings too, with a skill, and a     *)
(* plugin the first depends on.  PermissionRules: two rules for two paths.   *)
(* PatternMatch: short patterns and names.  ProviderSetup: providers of text *)
(* and of embeddings apart, which share only the credential store.  The      *)
(* parts do not share state; a behaviour moves the one that `part' names, so *)
(* that their state spaces add up.                                           *)
EXTENDS ToolApproval, Sequences, TLC

CONSTANTS c1, c2, call, write, r1, r2,
          f, g, h, File, wide, narrow, Preview, FilesOf, Invocation, NoInvocation,
          MaxUserEdit, MaxKill, MaxTear,
          server1, plugin1, plugin2, skill1, Server, Plugin, Skill,
          ServersOf, SkillsOf, NeedsOf, NoOne, MaxTool, MaxFault, MaxChange,
          path1, path2, Path, Given, MaxRule, NoRule, MaxSaveFault, MaxRuleKill,
          Letter, MaxPattern, MaxValue,
          Session, Home, Model, Fallback, Placeholder, NoModel, Unset, MaxMissed,
          Known, Custom, VectorModel, First, Secret, Nobody, MaxFailure

VARIABLES part,
          content, record, patches, preview, work, alive, gone, userEdits, kills, tears,
          file, configs, server, allowed, catalog, plugin, disk, extension, skill,
          loaded, command, faults, changes, deaths,
          engine, table, ruleFile, change, told, astray, saveFaults, ruleKills,
          of, loop, pattern, value, vi, pi, star, checkpoint, matches, verdict,
          boot, saved, current, own, runtime, policy, registry, route, selected, copies,
          refused, adrift, missed,
          running, credential, offered, default, vector, active, recorded, provider, ready,
          setup, pending, proven, loose, failures

Runs == (c1 :> r1) @@ (c2 :> r2)
Kinds == (call :> "command") @@ (write :> "plain")

(* The first plugin brings the server and the skill, and needs the other.    *)
ServersBrought == (plugin1 :> <<server1>>) @@ (plugin2 :> <<>>)
SkillsBrought == (plugin1 :> <<skill1>>) @@ (plugin2 :> <<>>)
Needs == (plugin1 :> {plugin2}) @@ (plugin2 :> {})

(* The two previews have a file in common.                                   *)
Edited == (wide :> <<f, g, h>>) @@ (narrow :> <<g>>)

Invocations == Permutations(Invocation)

Patch ==
  INSTANCE PatchSet WITH
    log <- patches, op <- work, lost <- gone, edits <- userEdits, MaxEdit <- MaxUserEdit

Servers ==
  INSTANCE ToolServers WITH
    op <- command, kills <- deaths

(* Longer patterns match less.                                               *)
UserRule(n, e, paths) ==
  [id |-> n, effect |-> e, covers |-> paths, length |-> 3 - Cardinality(paths)]

UserRules ==
  {UserRule(1, "allow", {path1}), UserRule(1, "allow", {path1, path2}),
   UserRule(1, "deny", {path2}), UserRule(2, "allow", {path2}),
   UserRule(2, "ask", {path1}), UserRule(2, "deny", {path1})}

Rules ==
  INSTANCE PermissionRules WITH
    MaxFault <- MaxSaveFault, MaxKill <- MaxRuleKill,
    file <- ruleFile, op <- change, faults <- saveFaults, kills <- ruleKills

Matching == INSTANCE PatternMatch

Settings == INSTANCE SessionSettings WITH
  Target <- {Fallback}, phase <- boot, todo <- copies, astray <- adrift, faults <- missed,
  MaxFault <- MaxMissed,
  SessionInput <- {<<"enabled", "on">>, <<"targets", Fallback>>, <<"permission", "full">>},
  RuntimeInput <- {<<"enabled", "on">>}

(* Providers of text, built in and added, and providers of embeddings.        *)
Setup(known, custom, knownVector, customVector) == INSTANCE ProviderSetup WITH
  Known <- known, Custom <- custom, KnownVector <- knownVector,
  CustomVector <- customVector,
  session <- recorded, selected <- provider,
  key <- credential, catalog <- offered, astray <- loose, faults <- failures,
  MaxFault <- MaxFailure

ASSUME InstanceAssumption ==
  /\ Fallback \in Model /\ Placeholder \notin Model
  /\ NoModel \notin Model \cup {Placeholder}
  /\ Home \in Session /\ MaxMissed \in Nat
  /\ Unset \notin {Fallback, NoModel, "on", "off", "manual", "full"}
  /\ First \in VectorModel /\ NoKey \notin Secret
  /\ FilesOf \in [Preview -> Seq(File) \ {<<>>}]
  /\ \A p \in Preview : \A x, y \in DOMAIN FilesOf[p] : FilesOf[p][x] = FilesOf[p][y] => x = y
  /\ {"base", "user", "gone"} \cap Preview = {} /\ NoInvocation \notin Invocation
  /\ ServersOf \in [Plugin -> Seq(Server)] /\ SkillsOf \in [Plugin -> Seq(Skill)]
  /\ Server \cap Plugin = {} /\ Server \cap Skill = {}
  /\ {"none", "user"} \cap Plugin = {}
  /\ {MaxTool, MaxFault, MaxChange, MaxKill, MaxSaveFault, MaxRuleKill} \subseteq Nat
  /\ Given \subseteq Rules!Rule /\ \A rules \in SUBSET Given : rules # NoRule
  /\ NoRule \notin Rules!Rule /\ NoRule \notin Rules!Change /\ MaxRule \in Nat
  /\ "*" \notin Letter
  /\ Known \cap Custom = {} /\ {Nobody, Placeholder, "ready"} \cap (Known \cup Custom) = {}

patchVars == <<content, record, patches, preview, work, alive, gone, userEdits, kills,
               tears>>

serverVars == <<file, configs, server, allowed, catalog, plugin, disk, extension,
                skill, loaded, command, faults, changes, deaths>>

ruleVars == <<engine, table, ruleFile, change, told, astray, saveFaults, ruleKills,
              of, loop, pattern, value, vi, pi, star, checkpoint, matches, verdict>>

setupVars == <<boot, saved, current, own, runtime, policy, registry, route, selected,
               copies, refused, adrift, missed,
               running, credential, offered, default, vector, active, recorded, provider,
               ready, setup, pending, proven, loose, failures>>

settingsFixed == UNCHANGED <<boot, saved, current, own, runtime, policy, registry, route,
                             selected, copies, refused, adrift, missed>>
providersFixed == UNCHANGED <<running, credential, offered, default, vector, active,
                              recorded, provider, ready, setup, pending, proven, loose,
                              failures>>

AllInit ==
  /\ part \in {"consent", "patch", "servers", "rules", "match", "settings", "providers",
              "vectors"}
  /\ Init /\ Patch!Init /\ Servers!Init /\ Settings!Init
  /\ IF part = "vectors" THEN Setup({}, {}, Known, Custom)!Init
     ELSE Setup(Known, Custom, {}, {})!Init
  /\ Rules!Init /\ Matching!Init
  /\ mode = "on-request"
  /\ part # "servers" => skill = [k \in Skill |-> "none"]
  /\ part # "match" => of = "rule" /\ pattern = <<>> /\ value = <<>>

Only(p) == part = p /\ UNCHANGED part

AllNext ==
  \/ /\ Only("consent") /\ Next
     /\ UNCHANGED <<patchVars, serverVars, ruleVars, setupVars>>
  \/ /\ Only("patch") /\ Patch!Next
     /\ UNCHANGED <<vars, serverVars, ruleVars, setupVars>>
  \/ /\ Only("servers") /\ Servers!Next
     /\ UNCHANGED <<vars, patchVars, ruleVars, setupVars>>
  \/ /\ Only("rules") /\ Rules!Next
     /\ UNCHANGED <<vars, patchVars, serverVars, of, loop, pattern, value,
                    vi, pi, star, checkpoint, matches, verdict, setupVars>>
  \/ /\ Only("match") /\ Matching!Next
     /\ UNCHANGED <<vars, patchVars, serverVars, engine, table, ruleFile,
                    change, told, astray, saveFaults, ruleKills, setupVars>>
  \/ /\ Only("settings") /\ Settings!Next /\ providersFixed
     /\ UNCHANGED <<vars, patchVars, serverVars, ruleVars>>
  \/ /\ Only("providers") /\ Setup(Known, Custom, {}, {})!Next /\ settingsFixed
     /\ UNCHANGED <<vars, patchVars, serverVars, ruleVars>>
  \/ /\ Only("vectors") /\ Setup({}, {}, Known, Custom)!Next /\ settingsFixed
     /\ UNCHANGED <<vars, patchVars, serverVars, ruleVars>>

AllSpec ==
  AllInit /\ [][AllNext]_<<part, vars, patchVars, serverVars, ruleVars, setupVars>>

(* The parts stay within their types.                                        *)
AllTypeOK ==
  /\ part = "consent" => TypeOK
  /\ part = "patch" => Patch!TypeOK
  /\ part = "servers" => Servers!TypeOK
  /\ part = "rules" => Rules!TypeOK
  /\ part = "match" => Matching!TypeOK
  /\ part = "settings" => Settings!TypeOK
  /\ part = "providers" => Setup(Known, Custom, {}, {})!TypeOK
  /\ part = "vectors" => Setup({}, {}, Known, Custom)!TypeOK

(* What the user decides is what counts: the rules in force are the ones     *)
(* saved, and decide as they are meant; an edit of several files is taken    *)
(* back as a whole.  See the modules PermissionRules, PatternMatch and       *)
(* PatchSet.                                                                 *)
UserDecides ==
  /\ part = "patch" => Patch!PatchIsWhole
  /\ part = "rules" => Rules!RulesAreOne /\ Rules!VerdictHolds
  /\ part = "match" => Matching!MatchIsRight

(* The catalogue, the plugins, the file of servers and the allow list agree  *)
(* between commands, whichever step of one failed: see module ToolServers.   *)
ServersHold ==
  part = "servers" =>
    Servers!CatalogIsOwned /\ Servers!PluginIsWhole /\ Servers!FileIsInForce

(* A refused change of the settings, the failover, the models or the model   *)
(* has changed nothing: see module SessionSettings.                          *)
RefusedChangeIsUndone == Settings!RefusedChangeIsUndone

(* The credential store holds the keys that were accepted: see module        *)
(* ProviderSetup.                                                            *)
KeysAreProven ==
  /\ part = "vectors" => Setup({}, {}, Known, Custom)!KeysAreProven
  /\ part = "providers" => Setup(Known, Custom, {}, {})!KeysAreProven

(* What is in force is what the current session says, keys are proven, and   *)
(* tasks are taken only for a provider that can be used: see the modules     *)
(* SessionSettings and ProviderSetup.                                        *)
ConfigurationHolds ==
  /\ part = "settings" => Settings!InForce
  /\ KeysAreProven
  /\ part = "providers" => Setup(Known, Custom, {}, {})!ReadyIsUsable
=============================================================================
