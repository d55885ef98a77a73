---------------------------- MODULE ToolServers -----------------------------
(***************************************************************************)
(* The tools that come and go: servers of the model context protocol       *)
(* (harness-mcp, McpManager), plugins (harness-plugin, PluginManager) and  *)
(* skills (harness-skill, SkillRegistry), the catalogue they register      *)
(* their tools in (harness-tool, ToolRegistry), the allow list of the      *)
(* permission engine, and the commands of the application and of the       *)
(* program that keep the file of servers, the running servers and the      *)
(* allow list in step.                                                     *)
(*                                                                         *)
(* Commands run one at a time.  Connecting a server and enabling a plugin  *)
(* are taken step by step, since each step may fail and what was done must *)
(* be taken back; the other commands are one action per outcome.  A plugin *)
(* and its files are compared by the version of the files: the hash of a   *)
(* review stands for it.  Tools are numbered in the order they are offered;*)
(* names of tools carry the owner's, and no identifier has a dot, so only  *)
(* one server's own list can name a tool twice.  A server that failed can  *)
(* be connected by force at once, so its waiting time is left out.         *)
(***************************************************************************)
EXTENDS Naturals, Sequences, FiniteSets

CONSTANTS
  Server, Plugin, Skill,
  MaxTool,       \* tools an owner offers at most
  ServersOf,     \* ServersOf[p]: sequence of the servers a plugin brings
  SkillsOf,      \* SkillsOf[p]: sequence of the skills a plugin brings
  NeedsOf,       \* NeedsOf[p]: the plugins a plugin depends on
  NoOne,
  MaxFault,      \* bound on failing steps
  MaxChange,     \* bound on changes of a plugin's files
  MaxKill

Owner == Server \cup Plugin
Tool == Owner \X (1..MaxTool)
Entry == {"none", "on", "off"}

VARIABLES
  file,      \* file[s]: the entry of a server in the file of servers
  configs,   \* the program's copy of it
  server,    \* server[s]: what the manager knows of it
  allowed,   \* servers on the allow list of the permission engine
  catalog,   \* the tools registered
  plugin,    \* plugin[p]: what the manager knows of it
  disk,      \* disk[p]: the version of its files, and which of them are gone
  extension, \* extension[p]: the application's note that skills and servers are in
  skill,     \* skill[k]: who installed it: "none", "user" or a plugin
  loaded,    \* skills whose text is kept in memory
  op,        \* the command under way
  faults, changes, kills

vars == <<file, configs, server, allowed, catalog, plugin, disk, extension, skill,
          loaded, op, faults, changes, kills>>
bounds == <<faults, changes, kills>>
listing == <<file, configs, allowed>>
plugins == <<plugin, disk, extension>>

Status == {"absent", "disconnected", "connecting", "ready", "degraded", "failed"}
Lifecycle == {"disabled", "activating", "active", "draining", "failed"}

Absent == [status |-> "absent", enabled |-> FALSE, tools |-> {}]
Added(e) == [status |-> "disconnected", enabled |-> e, tools |-> {}]

Idle == [do |-> "none", on |-> NoOne, left |-> <<>>, done |-> {}]

TypeOK ==
  /\ file \in [Server -> Entry]
  /\ configs \in [Server -> Entry]
  /\ server \in [Server -> [status : Status, enabled : BOOLEAN, tools : SUBSET Tool]]
  /\ allowed \subseteq Server
  /\ catalog \subseteq Tool
  /\ plugin \in [Plugin -> [status : Lifecycle, review : 0..(MaxChange + 1),
                            tools : SUBSET Tool]]
  /\ disk \in [Plugin -> [version : 1..(MaxChange + 1), gone : SUBSET {"entry", "parts"}]]
  /\ extension \in [Plugin -> BOOLEAN]
  /\ skill \in [Skill -> {"none", "user"} \cup Plugin]
  /\ loaded \subseteq Skill
  /\ op.do \in {"none", "connect", "activate", "register", "extend"}

-----------------------------------------------------------------------------
(* The start of the program: the servers of the file are added, not        *)
(* connected; the enabled ones are allowed; plugins are found, disabled.   *)

Boot(f) ==
  /\ file' = f
  /\ configs' = f
  /\ server' = [s \in Server |-> IF f[s] = "none" THEN Absent ELSE Added(f[s] = "on")]
  /\ allowed' = {s \in Server : f[s] = "on"}
  /\ catalog' = {}
  /\ plugin' = [p \in Plugin |-> [status |-> "disabled", review |-> 0, tools |-> {}]]
  /\ extension' = [p \in Plugin |-> FALSE]
  /\ skill' \in [Skill -> {"none", "user"}]
  /\ loaded' = {}
  /\ op' = Idle

Init ==
  /\ file = [s \in Server |-> "none"]
  /\ configs = file
  /\ server = [s \in Server |-> Absent]
  /\ allowed = {}
  /\ catalog = {}
  /\ plugin = [p \in Plugin |-> [status |-> "disabled", review |-> 0, tools |-> {}]]
  /\ disk = [p \in Plugin |-> [version |-> 1, gone |-> {}]]
  /\ extension = [p \in Plugin |-> FALSE]
  /\ skill \in [Skill -> {"none", "user"}]
  /\ loaded = {}
  /\ op = Idle
  /\ faults = 0
  /\ changes = 0
  /\ kills = 0

(* The program is killed and started again.  The file is replaced by moving *)
(* the old one away and the new one in: a kill between the two leaves no    *)
(* file, which reads as no servers.                                         *)
Restart ==
  /\ kills < MaxKill
  /\ kills' = kills + 1
  /\ \/ Boot(file)
     \/ op = Idle /\ \E s \in Server, e \in Entry : Boot([configs EXCEPT ![s] = e])
     \/ op = Idle /\ Boot([s \in Server |-> "none"])
  /\ UNCHANGED <<disk, faults, changes>>

Fault == faults < MaxFault /\ faults' = faults + 1 /\ UNCHANGED <<changes, kills>>
Ready == op = Idle

-----------------------------------------------------------------------------
(* Servers                                                                 *)

Disconnected(s) == [server[s] EXCEPT !.status = "disconnected", !.tools = {}]

(* Faulty: a server that could not be written down stays.                  *)
AddAnyway(s) ==
  /\ Ready
  /\ configs[s] = "none"
  /\ server[s].status = "absent"
  /\ Fault
  /\ server' = [server EXCEPT ![s] = Added(TRUE)]
  /\ allowed' = allowed \cup {s}
  /\ UNCHANGED <<file, configs, catalog, plugins, skill, loaded, op>>

(* /mcp add.  The server is added and allowed first and taken out again    *)
(* when it cannot be written down.                                         *)
AddServer(s) ==
  /\ Ready
  /\ configs[s] = "none"
  /\ server[s].status = "absent"
  /\ server' = [server EXCEPT ![s] = Added(TRUE)]
  /\ allowed' = allowed \cup {s}
  /\ configs' = [configs EXCEPT ![s] = "on"]
  /\ file' = [configs EXCEPT ![s] = "on"]
  /\ UNCHANGED <<catalog, plugins, skill, loaded, op, bounds>>

AddUnwritten(s) ==
  /\ Ready
  /\ configs[s] = "none"
  /\ server[s].status = "absent"
  /\ Fault
  /\ allowed' = allowed \ {s}
  /\ UNCHANGED <<file, configs, server, catalog, plugins, skill, loaded, op>>

(* /mcp remove: written down first, and written back when the server's     *)
(* connection cannot be closed; it is disconnected even so.                *)
RemoveServer(s) ==
  /\ Ready
  /\ configs[s] # "none"
  /\ catalog' = catalog \ server[s].tools
  /\ \/ /\ server' = [server EXCEPT ![s] = Absent]
        /\ allowed' = allowed \ {s}
        /\ configs' = [configs EXCEPT ![s] = "none"]
        /\ file' = configs'
        /\ UNCHANGED bounds
     \/ /\ server[s].status \in {"ready", "degraded"}
        /\ Fault
        /\ server' = [server EXCEPT ![s] = Disconnected(s)]
        /\ file' = configs
        /\ UNCHANGED <<configs, allowed>>
  /\ UNCHANGED <<plugins, skill, loaded, op>>

(* /mcp enable and /mcp disable.                                           *)
EnableServer(s) ==
  /\ Ready
  /\ configs[s] # "none"
  /\ server' = [server EXCEPT ![s].enabled = TRUE]
  /\ allowed' = allowed \cup {s}
  /\ configs' = [configs EXCEPT ![s] = "on"]
  /\ file' = configs'
  /\ UNCHANGED <<catalog, plugins, skill, loaded, op, bounds>>

DisableServer(s) ==
  /\ Ready
  /\ configs[s] # "none"
  /\ catalog' = catalog \ server[s].tools
  /\ \/ /\ server' = [server EXCEPT ![s] = [Disconnected(s) EXCEPT !.enabled = FALSE]]
        /\ allowed' = allowed \ {s}
        /\ configs' = [configs EXCEPT ![s] = "off"]
        /\ file' = configs'
        /\ UNCHANGED bounds
     \/ /\ server[s].status \in {"ready", "degraded"}
        /\ Fault
        /\ server' = [server EXCEPT ![s] = Disconnected(s)]
        /\ file' = configs
        /\ UNCHANGED <<configs, allowed>>
  /\ UNCHANGED <<plugins, skill, loaded, op>>

(* /mcp disconnect, also of a plugin's server.                             *)
Disconnect(s) ==
  /\ Ready
  /\ server[s].status # "absent"
  /\ catalog' = catalog \ server[s].tools
  /\ server' = [server EXCEPT ![s] = Disconnected(s)]
  /\ UNCHANGED <<listing, plugins, skill, loaded, op, bounds>>

(* /mcp connect.  A server that is ready stays as it is.                   *)
Connect(s) ==
  /\ Ready
  /\ server[s].status \in {"disconnected", "failed"}
  /\ server[s].enabled
  /\ server' = [server EXCEPT ![s].status = "connecting"]
  /\ \E n \in 0..MaxTool :
       op' = [do |-> "connect", on |-> s, left |-> [i \in 1..n |-> i], done |-> {}]
  /\ UNCHANGED <<listing, catalog, plugins, skill, loaded, bounds>>

(* The next tool it offers: registered, or left out since it can only be   *)
(* called as a task, which leaves the server degraded.                     *)
OfferTool ==
  /\ op.do = "connect"
  /\ op.left # <<>>
  /\ \/ /\ catalog' = catalog \cup {<<op.on, Head(op.left)>>}
        /\ op' = [op EXCEPT !.left = Tail(@), !.done = @ \cup {<<op.on, Head(op.left)>>}]
     \/ /\ op' = [op EXCEPT !.left = Tail(@)]
        /\ UNCHANGED catalog
  /\ UNCHANGED <<listing, server, plugins, skill, loaded, bounds>>

Connected ==
  /\ op.do = "connect"
  /\ op.left = <<>>
  /\ \E st \in {"ready", "degraded"} :
       server' = [server EXCEPT ![op.on].status = st, ![op.on].tools = op.done]
  /\ op' = Idle
  /\ UNCHANGED <<listing, catalog, plugins, skill, loaded, bounds>>

(* Faulty: the tools registered before the failure stay.                   *)
ConnectFailsHalfway ==
  /\ op.do = "connect"
  /\ Fault
  /\ server' = [server EXCEPT ![op.on].status = "failed"]
  /\ op' = Idle
  /\ UNCHANGED <<listing, catalog, plugins, skill, loaded>>

(* The server does not start, does not answer, or names a tool twice: what *)
(* it has registered so far goes.                                          *)
ConnectFails ==
  /\ op.do = "connect"
  /\ Fault
  /\ server' = [server EXCEPT ![op.on].status = "failed"]
  /\ catalog' = catalog \ op.done
  /\ op' = Idle
  /\ UNCHANGED <<listing, plugins, skill, loaded>>

-----------------------------------------------------------------------------
(* Plugins                                                                 *)

(* /plugins review                                                         *)
Review(p) ==
  /\ Ready
  /\ disk[p].gone = {}
  /\ plugin' = [plugin EXCEPT ![p].review = disk[p].version]
  /\ UNCHANGED <<listing, server, catalog, disk, extension, skill, loaded, op, bounds>>

(* The user, or an update, changes the files of a plugin.                  *)
ChangeFiles(p) ==
  /\ changes < MaxChange
  /\ changes' = changes + 1
  /\ \/ disk' = [disk EXCEPT ![p].version = @ + 1]
     \/ \E g \in SUBSET {"entry", "parts"} : disk' = [disk EXCEPT ![p].gone = g]
  /\ UNCHANGED <<listing, server, catalog, plugin, extension, skill, loaded, op,
                 faults, kills>>

(* /plugins enable, with the hash of the review the user has seen.  With   *)
(* no review in this process, or the same, the hash decides.               *)
Enable(p) ==
  /\ Ready
  /\ plugin[p].status \in {"disabled", "failed"}
  /\ disk[p].gone = {}
  /\ plugin[p].review \in {0, disk[p].version}
  /\ \A q \in NeedsOf[p] : plugin[q].status = "active"
  /\ plugin' = [plugin EXCEPT ![p].status = "activating", ![p].review = disk[p].version]
  /\ op' = [do |-> "activate", on |-> p, left |-> [i \in 1..MaxTool |-> i], done |-> {}]
  /\ UNCHANGED <<listing, server, catalog, disk, extension, skill, loaded, bounds>>

Activated ==
  /\ op.do = "activate"
  /\ "entry" \notin disk[op.on].gone
  /\ op' = [op EXCEPT !.do = "register"]
  /\ UNCHANGED <<listing, server, catalog, plugins, skill, loaded, bounds>>

RegisterTool ==
  /\ op.do = "register"
  /\ op.left # <<>>
  /\ "parts" \notin disk[op.on].gone
  /\ LET t == <<op.on, Head(op.left)>> IN
     /\ t \notin catalog
     /\ catalog' = catalog \cup {t}
     /\ op' = [op EXCEPT !.left = Tail(@), !.done = @ \cup {t}]
  /\ UNCHANGED <<listing, server, plugins, skill, loaded, bounds>>

(* The process of the plugin fails to activate, or a tool cannot be read   *)
(* or registered.                                                          *)
ActivationFails ==
  /\ op.do \in {"activate", "register"}
  /\ \/ Fault
     \/ disk[op.on].gone # {} /\ UNCHANGED bounds
  /\ plugin' = [plugin EXCEPT ![op.on].status = "failed"]
  /\ catalog' = catalog \ op.done
  /\ op' = Idle
  /\ UNCHANGED <<listing, server, disk, extension, skill, loaded>>

(* All tools are in: the plugin is active, and the application goes on     *)
(* with its skills and servers.                                            *)
Active ==
  /\ op.do = "register"
  /\ op.left = <<>>
  /\ plugin' = [plugin EXCEPT ![op.on].status = "active", ![op.on].tools = op.done]
  /\ op' = [op EXCEPT !.do = "extend", !.left = SkillsOf[op.on] \o ServersOf[op.on],
                      !.done = {}]
  /\ UNCHANGED <<listing, server, catalog, disk, extension, skill, loaded, bounds>>

(* An active plugin is enabled once more: what it brings is tried again if *)
(* it is not in.                                                           *)
EnableActive(p) ==
  /\ Ready
  /\ plugin[p].status = "active"
  /\ ~extension[p]
  /\ op' = [do |-> "extend", on |-> p, left |-> SkillsOf[p] \o ServersOf[p], done |-> {}]
  /\ UNCHANGED <<listing, server, catalog, plugins, skill, loaded, bounds>>

ExtendBy(x) ==
  \/ /\ x \in Skill
     /\ skill[x] = "none"
     /\ skill' = [skill EXCEPT ![x] = op.on]
     /\ UNCHANGED server
  \/ /\ x \in Server
     /\ server[x].status = "absent"
     /\ server' = [server EXCEPT ![x] = Added(TRUE)]
     /\ UNCHANGED skill

Extend ==
  /\ op.do = "extend"
  /\ op.left # <<>>
  /\ "parts" \notin disk[op.on].gone
  /\ ExtendBy(Head(op.left))
  /\ op' = [op EXCEPT !.left = Tail(@), !.done = @ \cup {Head(op.left)}]
  /\ UNCHANGED <<listing, catalog, plugins, loaded, bounds>>

Extended ==
  /\ op.do = "extend"
  /\ op.left = <<>>
  /\ extension' = [extension EXCEPT ![op.on] = TRUE]
  /\ op' = Idle
  /\ UNCHANGED <<listing, server, catalog, plugin, disk, skill, loaded, bounds>>

(* The paths it names cannot be resolved: the command ends here, and the   *)
(* plugin stays active without what it was to bring.                       *)
PathsMissing ==
  /\ op.do = "extend"
  /\ op.done = {}
  /\ "parts" \in disk[op.on].gone
  /\ op' = Idle
  /\ UNCHANGED <<listing, server, catalog, plugins, skill, loaded, bounds>>

(* Faulty: the servers it added are only disconnected.                     *)
RetractSkills(p, brought) ==
  /\ skill' = [k \in Skill |-> IF k \in brought /\ skill[k] = p THEN "none" ELSE skill[k]]
  /\ loaded' = {k \in loaded : skill'[k] # "none"}
  /\ server' = [s \in Server |->
                  IF s \in brought THEN Disconnected(s) ELSE server[s]]

(* rollback_plugin_extensions: the skills it installed and the servers it  *)
(* added go, with the tools of servers connected since.                    *)
RetractExtensions(p, brought) ==
  /\ skill' = [k \in Skill |-> IF k \in brought /\ skill[k] = p THEN "none" ELSE skill[k]]
  /\ loaded' = {k \in loaded : skill'[k] # "none"}
  /\ server' = [s \in Server |-> IF s \in brought THEN Absent ELSE server[s]]

ToolsOf(brought) == UNION {server[s].tools : s \in brought \cap Server}

(* PluginManager::disable.  Without its entry the plugin is left draining, *)
(* its tools registered, until the entry is back; otherwise they go, and   *)
(* its process may fail to deactivate.                                     *)
Deactivate(p, gone) ==
  \/ /\ "entry" \in disk[p].gone
     /\ plugin' = [plugin EXCEPT ![p].status = "draining"]
     /\ catalog' = catalog \ gone
     /\ UNCHANGED bounds
  \/ /\ "entry" \notin disk[p].gone
     /\ catalog' = catalog \ (gone \cup plugin[p].tools)
     /\ \/ /\ plugin' = [plugin EXCEPT ![p].status = "disabled", ![p].tools = {}]
           /\ UNCHANGED bounds
        \/ /\ plugin' = [plugin EXCEPT ![p].status = "failed", ![p].tools = {}]
           /\ Fault

(* Something the plugin brings is there already, or cannot be read: what   *)
(* is in goes, and the plugin is disabled.                                 *)
ExtendFails ==
  /\ op.do = "extend"
  /\ op.left # <<>>
  /\ LET x == Head(op.left) IN
     \/ x \in Skill /\ skill[x] # "none"
     \/ x \in Server /\ server[x].status # "absent"
     \/ "parts" \in disk[op.on].gone
  /\ RetractExtensions(op.on, op.done)
  /\ Deactivate(op.on, ToolsOf(op.done))
  /\ op' = Idle
  /\ UNCHANGED <<listing, disk, extension>>

(* /plugins disable                                                        *)
Brought(p) ==
  IF extension[p]
    THEN {SkillsOf[p][i] : i \in DOMAIN SkillsOf[p]} \cup
         {ServersOf[p][i] : i \in DOMAIN ServersOf[p]}
    ELSE {}

DisablePlugin(p) ==
  /\ Ready
  /\ plugin[p].status # "disabled"
  /\ RetractExtensions(p, Brought(p))
  /\ Deactivate(p, ToolsOf(Brought(p)))
  /\ extension' = [extension EXCEPT ![p] = FALSE]
  /\ UNCHANGED <<listing, disk, op>>

-----------------------------------------------------------------------------
(* /skills load and unload.  A skill is loaded when the tools it requires, *)
(* here those of the plugin it comes with, are in the catalogue, and is    *)
(* kept until it is unloaded or uninstalled.                               *)
Load(k) ==
  /\ Ready
  /\ skill[k] # "none"
  /\ k \notin loaded
  /\ skill[k] \in Plugin => \E t \in catalog : t[1] = skill[k]
  /\ loaded' = loaded \cup {k}
  /\ UNCHANGED <<listing, server, catalog, plugins, skill, op, bounds>>

Unload(k) ==
  /\ Ready
  /\ k \in loaded
  /\ loaded' = loaded \ {k}
  /\ UNCHANGED <<listing, server, catalog, plugins, skill, op, bounds>>

Next ==
  \/ Restart
  \/ \E s \in Server :
       \/ AddServer(s) \/ AddUnwritten(s) \/ RemoveServer(s)
       \/ EnableServer(s) \/ DisableServer(s) \/ Connect(s) \/ Disconnect(s)
  \/ OfferTool \/ Connected \/ ConnectFails
  \/ \E p \in Plugin :
       Review(p) \/ ChangeFiles(p) \/ Enable(p) \/ EnableActive(p) \/ DisablePlugin(p)
  \/ Activated \/ RegisterTool \/ ActivationFails \/ Active
  \/ Extend \/ Extended \/ PathsMissing \/ ExtendFails
  \/ \E k \in Skill : Load(k) \/ Unload(k)

Spec == Init /\ [][Next]_vars

-----------------------------------------------------------------------------
(* Between commands the catalogue holds just the tools of servers that are *)
(* connected and of plugins that are active: a failed or half undone       *)
(* connection or activation leaves none behind, and none is lost.  (A      *)
(* plugin whose entry has gone is draining and keeps its own.)             *)
CatalogIsOwned ==
  op = Idle =>
    /\ \A s \in Server :
         /\ {t \in catalog : t[1] = s} = server[s].tools
         /\ server[s].tools # {} => server[s].status \in {"ready", "degraded"}
    /\ \A p \in Plugin :
         /\ {t \in catalog : t[1] = p} = plugin[p].tools
         /\ plugin[p].tools # {} => plugin[p].status \in {"active", "draining"}
         /\ plugin[p].status = "active" => Cardinality(plugin[p].tools) = MaxTool

(* A plugin comes and goes as a whole: what it brings is there only while  *)
(* it is active, and all of it once its extension is noted.                *)
PluginIsWhole ==
  op = Idle =>
    /\ \A p \in Plugin : extension[p] =>
         /\ plugin[p].status = "active"
         /\ \A k \in Skill : k \in Brought(p) => skill[k] = p
         /\ \A s \in Server : s \in Brought(p) => server[s].status # "absent"
    /\ \A k \in Skill : skill[k] \in Plugin => extension[skill[k]]
    /\ \A s \in Server : server[s].status # "absent" =>
         configs[s] # "none" \/ \E p \in Plugin : s \in Brought(p)

(* Between commands the file says what is in force: the program's copy of  *)
(* it, the servers that are there, the enabled ones, and those the         *)
(* permission engine lets tools be called of.                              *)
FileIsInForce ==
  op = Idle =>
    /\ configs = file
    /\ allowed = {s \in Server : file[s] = "on"}
    /\ \A s \in Server : file[s] # "none" =>
         /\ server[s].status # "absent"
         /\ server[s].enabled = (file[s] = "on")
         /\ ~server[s].enabled => server[s].status = "disconnected"
=============================================================================
