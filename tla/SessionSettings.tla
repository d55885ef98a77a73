--------------------------- MODULE SessionSettings ---------------------------
(* The settings a session keeps and what they put in force: crates          *)
(* harness-config (ConfigManager), harness-model (ModelRuntime, registry)   *)
(* and the commands of harness-application that change them.                *)
(*                                                                          *)
(* Four copies of one decision have to agree: the settings and the model in *)
(* the session's events (saved), the session layer of the configuration     *)
(* (own), the approval policy of the tool runtime (policy) and the route    *)
(* and selection of the model runtime (route, selected).  A command updates *)
(* them one after the other, may be refused at each of them, and then has   *)
(* to put back what it has changed.                                         *)
(*                                                                          *)
(* Simplifications: three keys stand for all, one of each kind: a key that  *)
(* is validated together with another one ("enabled", which stands for      *)
(* failover.enabled with its cost confirmation, needs "targets"), one that  *)
(* the model runtime checks ("targets", a single target) and one that sets  *)
(* the approval policy ("permission").  The global and project files are    *)
(* fixed.  One provider is connected, whose catalogue changes.  The choice  *)
(* of a reasoning level, which goes the way of the choice of a model, the   *)
(* options of the command line and the migration of the legacy test model   *)
(* are left out.                                                            *)
EXTENDS Integers, Sequences, SequencesExt

CONSTANTS
  Session, Model,
  Target,        \* the models that are named as targets of the failover
  Home,          \* the session the program starts in when none is named
  Placeholder,   \* the unconfigured model, always registered
  NoModel,       \* no model chosen
  Unset,         \* a key a layer says nothing about
  SessionInput,  \* the settings that are set in a session: key and value
  RuntimeInput,  \* the settings that are set for one process
  MaxFault       \* bound: writes that fail

VARIABLES
  phase,      \* "down", "ready", or copying settings into a new session
  saved,      \* session -> what its events say
  current,    \* the session the application works in
  own,        \* the session layer of the configuration
  runtime,    \* its runtime layer
  policy,     \* the approval policy of the tool runtime
  registry,   \* the models that can be called
  route,      \* the failover policy of the model runtime
  selected,   \* the model of the model runtime
  todo,       \* settings still to be copied
  refused,    \* whether the last command was refused
  astray,     \* what a switch that ended with an error has left out of line
  faults      \* writes that have failed

memory == <<current, own, runtime, policy, registry, route, selected, todo>>
settingsVars == <<phase, saved, memory, refused, astray, faults>>

(* The keys in the order of the map they are kept in.                       *)
KeyOrder == <<"enabled", "targets", "permission">>
SettingKey == ToSet(KeyOrder)
Values(key) ==
  CASE key = "enabled" -> {"on", "off"}
    [] key = "targets" -> Target \cup {NoModel}
    [] key = "permission" -> {"manual", "full"}

NoLayer == [key \in SettingKey |-> Unset]
Layers == {layer \in [SettingKey -> (UNION {Values(key) : key \in SettingKey}) \cup {Unset}] :
             \A key \in SettingKey : layer[key] \in Values(key) \cup {Unset}}
Default == [enabled |-> "off", targets |-> NoModel, permission |-> "manual"]

(* Runtime over session over what the files and the program say.            *)
Effective(session, process) ==
  [key \in SettingKey |->
     IF process[key] # Unset THEN process[key]
     ELSE IF session[key] # Unset THEN session[key] ELSE Default[key]]

Valid(settings) == settings.enabled = "on" => settings.targets # NoModel

(* What the settings ask of the two runtimes.                               *)
PolicyOf(settings) ==
  IF settings.permission = "full" THEN "NeverWithinSandbox" ELSE "Always"
RouteOf(settings) ==
  [enabled |-> settings.enabled = "on",
   allowlist |-> {settings.targets} \ {NoModel}]

(* set_failover_policy: every target must resolve, enabled or not.          *)
Accepts(models, wanted) == wanted.allowlist \subseteq models

(* A command refused, with nothing done.                                    *)
Refused == refused' = TRUE /\ UNCHANGED <<phase, saved, memory, astray, faults>>

(* A session's event is written, or the write fails and counts as a fault.  *)
Written == saved[current].made /\ UNCHANGED faults
NotWritten ==
  \/ ~saved[current].made /\ UNCHANGED faults
  \/ saved[current].made /\ faults < MaxFault /\ faults' = faults + 1

(* Faulty: the policy is not put back. *)
UndoneForgetsPolicy(settings) ==
  /\ NotWritten
  /\ route' = IF Accepts(registry, route) THEN route ELSE RouteOf(settings)
  /\ policy' = PolicyOf(settings)
  /\ refused' = TRUE
  /\ UNCHANGED <<phase, saved, current, own, runtime, registry, selected,
                 todo, astray>>

(* What set_setting and clear_setting share: both runtimes are set, then    *)
(* the event is written if the session's settings change, then the          *)
(* configuration is.  What fails puts back what went before; putting the    *)
(* route back is an attempt whose result is ignored.                        *)
Undone(settings) ==
  /\ NotWritten
  /\ route' = IF Accepts(registry, route) THEN route ELSE RouteOf(settings)
  /\ refused' = TRUE
  /\ UNCHANGED <<phase, saved, current, own, runtime, policy, registry,
                 selected, todo, astray>>

InForceNow(settings) ==
  policy' = PolicyOf(settings) /\ route' = RouteOf(settings)

Impossible(settings) ==
  \/ ~Valid(settings)
  \/ RouteOf(settings) # route /\ ~Accepts(registry, RouteOf(settings))

Put(session, process, kept) ==
  LET settings == Effective(session, process)
      writes == kept # saved[current].settings
  IN IF Impossible(settings) THEN Refused
     ELSE \/ writes /\ Undone(settings)
          \/ /\ IF writes THEN Written ELSE UNCHANGED faults
             /\ saved' = [saved EXCEPT ![current].settings = kept]
             /\ own' = session /\ runtime' = process
             /\ InForceNow(settings)
             /\ refused' = FALSE /\ astray' = astray \ {"policy"}
             /\ UNCHANGED <<phase, current, registry, selected, todo>>

(* A setting of the session or of this process is set, or cleared.          *)
SetSession(key, value) ==
  Put([own EXCEPT ![key] = value], runtime,
      [saved[current].settings EXCEPT ![key] = value])
SetRuntime(key, value) ==
  Put(own, [runtime EXCEPT ![key] = value], saved[current].settings)

SetSetting ==
  /\ phase = "ready"
  /\ \/ \E input \in SessionInput : \E value \in {input[2], Unset} :
            SetSession(input[1], value)
     \/ \E input \in RuntimeInput : \E value \in {input[2], Unset} :
            SetRuntime(input[1], value)

(* /failover on <target> and /failover off set the runtime layer; no event. *)
ConfigureFailover ==
  /\ phase = "ready"
  /\ \E target \in Target \cup {NoModel} :
       LET process == [runtime EXCEPT !.targets = target,
                                      !.enabled = IF target = NoModel THEN "off"
                                                  ELSE "on"]
           wanted == RouteOf(Effective(own, process))
       IN IF ~Accepts(registry, wanted) THEN Refused
          ELSE /\ runtime' = process /\ route' = wanted /\ refused' = FALSE
               /\ UNCHANGED <<phase, saved, current, own, policy, registry,
                              selected, todo, astray, faults>>

(* The provider's catalogue is read again; it must keep the model in use.   *)
(* The targets of the route are not looked at.                              *)
RefreshProvider(offer) ==
  /\ registry \cap Model # {} /\ offer # {}
  /\ IF selected \notin offer \cup {Placeholder} THEN Refused
     ELSE /\ registry' = offer \cup {Placeholder} /\ refused' = FALSE
          /\ UNCHANGED <<phase, saved, current, own, runtime, policy, route,
                         selected, todo, astray, faults>>

RefreshModels == phase = "ready" /\ \E offer \in SUBSET Model : RefreshProvider(offer)

(* A model is chosen.  Nothing is done to the model runtime if the session  *)
(* has that model already; a provider that is not loaded is registered      *)
(* first, and dropped again if the choice fails; the global file is written *)
(* last, and the previous model chosen again if that fails.                 *)
Choose(models, model) ==
  IF saved[current].model = model
  THEN /\ registry' = models /\ refused' = FALSE
       /\ UNCHANGED <<saved, selected, astray, faults>>
  ELSE \/ /\ NotWritten /\ refused' = TRUE
          /\ UNCHANGED <<saved, registry, selected, astray>>
       \/ /\ Written
          /\ saved' = [saved EXCEPT ![current].model = model]
          /\ selected' = model /\ registry' = models
          /\ refused' = FALSE /\ astray' = astray \ {"model"}

(* The global file cannot be written after the choice was: the model that   *)
(* was in use is chosen again, which may fail too.                          *)
Unchoose(models, model) ==
  /\ saved[current].made
  /\ \/ /\ faults < MaxFault /\ faults' = faults + 1
        /\ saved' = [saved EXCEPT ![current].model = selected]
        /\ UNCHANGED selected
     \/ /\ faults + 1 < MaxFault /\ faults' = faults + 2
        /\ saved' = [saved EXCEPT ![current].model = model]
        /\ selected' = model
  /\ astray' = astray \ {"model"}
  /\ registry' = models /\ refused' = TRUE

SelectModel ==
  /\ phase = "ready"
  /\ \E model \in Model, offer \in SUBSET Model :
       LET models == registry \cup offer
       IN /\ IF model \in registry THEN offer = {}
             ELSE registry = {Placeholder} /\ model \in offer
          /\ Accepts(models, route)
          /\ Choose(models, model) \/ Unchoose(models, model)
  /\ UNCHANGED <<phase, current, own, runtime, policy, route, todo>>

(* The model of the session that has become the current one is put in use;  *)
(* a session without one takes the one in use.  If that fails the command   *)
(* ends with an error, in the new session.                                  *)
Reconcile(session) ==
  LET model == saved[session].model
  IN \/ /\ model \in registry
        /\ selected' = model /\ refused' = FALSE /\ astray' = {}
        /\ UNCHANGED <<saved, faults>>
     \/ /\ model = NoModel
        /\ saved' = [saved EXCEPT ![session].model = selected]
        /\ refused' = FALSE /\ astray' = {} /\ UNCHANGED <<selected, faults>>
     \/ /\ \/ model \notin registry \cup {NoModel} /\ UNCHANGED faults
           \/ model = NoModel /\ faults < MaxFault /\ faults' = faults + 1
        /\ refused' = TRUE /\ astray' = {"model"}
        /\ UNCHANGED <<saved, selected>>

(* A switch is refused with the policy of the session it was to switch to   *)
(* already set; nothing puts it back.                                       *)
HalfSwitched(settings) ==
  /\ ~Accepts(registry, RouteOf(settings))
  /\ policy' = PolicyOf(settings)
  /\ astray' = astray \cup {"policy"} /\ refused' = TRUE
  /\ UNCHANGED <<phase, saved, current, own, runtime, registry, route, selected,
                 todo, faults>>

(* Faulty: the session layer of the configuration stays. *)
SwitchKeepsLayer(session) ==
  LET settings == Effective(saved[session].settings, runtime)
  IN /\ phase = "ready" /\ saved[session].made
     /\ IF ~Valid(settings) THEN Refused
        ELSE \/ HalfSwitched(settings)
             \/ /\ Accepts(registry, RouteOf(settings))
                /\ current' = session /\ InForceNow(settings)
                /\ Reconcile(session)
                /\ UNCHANGED <<phase, own, runtime, registry, todo>>

(* The application moves to another session: its settings are judged as a  *)
(* whole, the policy and the route are set, then everything else.           *)
SwitchSession(session) ==
  LET settings == Effective(saved[session].settings, runtime)
  IN /\ phase = "ready" /\ saved[session].made
     /\ IF ~Valid(settings) THEN Refused
        ELSE \/ HalfSwitched(settings)
             \/ /\ Accepts(registry, RouteOf(settings))
                /\ current' = session /\ InForceNow(settings)
                /\ own' = saved[session].settings
                /\ Reconcile(session)
                /\ UNCHANGED <<phase, runtime, registry, todo>>

(* What a new session inherits: all but a permission that asks for less.    *)
Inherited(settings) ==
  [settings EXCEPT !.permission = IF @ = "full" THEN Unset ELSE @]
Copy(layer, key) == IF layer[key] = Unset THEN <<>> ELSE << <<key, layer[key]>> >>
Pairs(layer) ==
  Copy(layer, "enabled") \o Copy(layer, "targets") \o Copy(layer, "permission")

(* A new session: created, made the current one, given the model in use,    *)
(* and then the settings of the old one, a command each.  A write that      *)
(* fails leaves the application in what there is of the new session.        *)
NewSession(session) ==
  LET settings == Effective(NoLayer, runtime)
      created == [saved EXCEPT ![session].made = TRUE]
      chosen == [created EXCEPT ![session].model = selected]
      copies == Pairs(Inherited(saved[current].settings))
  IN /\ phase = "ready" /\ ~saved[session].made
     /\ IF ~Valid(settings) THEN Refused
        ELSE \/ HalfSwitched(settings)
             \/ /\ Accepts(registry, RouteOf(settings))
                /\ current' = session /\ own' = NoLayer /\ InForceNow(settings)
                /\ \/ /\ saved' = chosen /\ astray' = {} /\ todo' = copies
                      /\ phase' = IF copies = <<>> THEN "ready" ELSE "copying"
                      /\ refused' = FALSE /\ UNCHANGED faults
                   \/ /\ faults < MaxFault /\ faults' = faults + 1
                      /\ saved' \in {saved, created}
                      /\ astray' = {"model"} /\ refused' = TRUE
                      /\ UNCHANGED <<phase, todo>>
                /\ UNCHANGED <<runtime, registry, selected>>

(* The process is gone, and with it all that was not written.               *)
Forget ==
  /\ phase' = "down" /\ current' = Home /\ own' = NoLayer /\ runtime' = NoLayer
  /\ policy' = "Always" /\ registry' = {Placeholder}
  /\ route' = RouteOf(Default) /\ selected' = Placeholder /\ todo' = <<>>
  /\ refused' = FALSE /\ astray' = {}

(* The next inherited setting.  One that is refused ends the copying: the   *)
(* command ends with an error, a start ends the program.                    *)
CopySetting ==
  /\ phase \in {"copying", "seeding"}
  /\ LET key == Head(todo)[1]
         session == [own EXCEPT ![key] = Head(todo)[2]]
         settings == Effective(session, runtime)
         kept == [saved[current].settings EXCEPT ![key] = Head(todo)[2]]
     IN \/ /\ ~Impossible(settings)
           /\ saved' = [saved EXCEPT ![current].settings = kept]
           /\ own' = session /\ InForceNow(settings)
           /\ todo' = Tail(todo) /\ refused' = FALSE
           /\ phase' = IF Tail(todo) = <<>> THEN "ready" ELSE phase
           /\ UNCHANGED <<current, runtime, registry, selected, astray,
                          faults>>
        \/ /\ \/ Impossible(settings) /\ UNCHANGED faults
              \/ /\ ~Impossible(settings)
                 /\ faults < MaxFault /\ faults' = faults + 1
           /\ IF phase = "seeding" THEN Forget
              ELSE /\ phase' = "ready" /\ todo' = <<>> /\ refused' = TRUE
                   /\ UNCHANGED <<current, own, runtime, policy, registry, route,
                                  selected, astray>>
           /\ UNCHANGED saved

(* The program starts in a session.  ConfigManager::new sets the session's  *)
(* settings one by one and validates after each.  A new session takes the   *)
(* settings of another one, and the model of a file outside the project, of *)
(* the other session, or none: any that can be called.                      *)
Prefix(layer, n) == [key \in SettingKey |-> IF \E i \in 1..n : KeyOrder[i] = key
                                     THEN layer[key] ELSE Unset]
Loads(layer) ==
  \A n \in 1..Len(KeyOrder) : Valid(Effective(Prefix(layer, n), NoLayer))

Start(session, other, offer, first) ==
  LET record == saved[session]
      layer == IF record.made THEN record.settings ELSE Inherited(saved[other].settings)
      settings == Effective(layer, NoLayer)
      models == offer \cup {Placeholder}
      copies == IF record.made THEN <<>> ELSE Pairs(layer)
      created == [saved EXCEPT ![session].made = TRUE]
      others == {x \in Session \ {session} : saved[x].made}
  IN /\ phase = "down"
     /\ ~record.made /\ others # {} => other \in others
     /\ Loads(layer) /\ Accepts(models, RouteOf(settings))
     /\ record.model \in models \cup {NoModel} /\ first \in models
     /\ \/ /\ saved' = [created EXCEPT ![session].model =
                          IF @ = NoModel THEN first ELSE @]
           /\ current' = session /\ own' = layer /\ runtime' = NoLayer
           /\ InForceNow(settings)
           /\ registry' = models
           /\ selected' = IF record.model = NoModel THEN first ELSE record.model
           /\ todo' = copies
           /\ phase' = IF copies = <<>> THEN "ready" ELSE "seeding"
           /\ refused' = FALSE /\ astray' = {} /\ UNCHANGED faults
        \/ /\ faults < MaxFault /\ faults' = faults + 1
           /\ record.model = NoModel
           /\ saved' \in {saved, created}
           /\ UNCHANGED <<phase, memory, refused, astray>>

StartSession ==
  \E session, other \in Session, offer \in SUBSET Model :
    \E first \in Model \cup {Placeholder} : Start(session, other, offer, first)

(* The program ends, or is killed, between two commands or while it copies. *)
Stop == phase # "down" /\ Forget /\ UNCHANGED <<saved, faults>>

Unmade == [made |-> FALSE, settings |-> NoLayer, model |-> NoModel]

Init ==
  /\ phase = "down" /\ saved = [session \in Session |-> Unmade]
  /\ current = Home
  /\ own = NoLayer /\ runtime = NoLayer /\ policy = "Always"
  /\ registry = {Placeholder} /\ route = RouteOf(Default) /\ selected = Placeholder
  /\ todo = <<>> /\ refused = FALSE /\ astray = {} /\ faults = 0

(* The commands that change something within the current session.           *)
Change == SetSetting \/ ConfigureFailover \/ RefreshModels \/ SelectModel

Next ==
  \/ Change
  \/ \E session \in Session : SwitchSession(session) \/ NewSession(session)
  \/ CopySetting \/ StartSession \/ Stop

Spec == Init /\ [][Next]_settingsVars

(***************************************************************************)
(* Properties                                                              *)
(***************************************************************************)
TypeOK ==
  /\ phase \in {"down", "ready", "copying", "seeding"}
  /\ saved \in [Session -> [made : BOOLEAN, settings : Layers,
                            model : Model \cup {Placeholder, NoModel}]]
  /\ current \in Session
  /\ own \in Layers /\ runtime \in Layers
  /\ policy \in {"Always", "NeverWithinSandbox"}
  /\ registry \subseteq Model \cup {Placeholder}
  /\ route \in [enabled : BOOLEAN, allowlist : SUBSET Model]
  /\ selected \in Model \cup {Placeholder}
  /\ refused \in BOOLEAN
  /\ astray \subseteq {"policy", "model"} /\ faults \in 0..MaxFault

(* What is in force is what the current session says.  Between two commands *)
(* the session layer is the session's settings, the policy and the route    *)
(* are those of the whole configuration, and the model in use can be called *)
(* and is the session's.  The exceptions are a switch that ended with an    *)
(* error, which leaves the policy or the model of another session in use,   *)
(* and a route that could not be put back after a failed write.             *)
InForce ==
  phase = "ready" =>
    /\ own = saved[current].settings
    /\ "policy" \notin astray => policy = PolicyOf(Effective(own, runtime))
    /\ faults = 0 => route = RouteOf(Effective(own, runtime))
    /\ selected \in registry
    /\ "model" \notin astray => selected = saved[current].model

(* A change within a session (a setting set or cleared, the failover, the   *)
(* models read again, a model chosen) that is refused, at whatever step,    *)
(* has changed nothing that lasts or is in force: with the targets of the   *)
(* route still registered, the model in step with the session, and one      *)
(* write failing.  A refused switch or new session is not undone: the       *)
(* policy of the other session stays, or the application has moved          *)
(* (HalfSwitched, Reconcile); a copy that is refused keeps those before it. *)
RefusedChangeIsUndone ==
  [][ refused' /\ Accepts(registry, route) /\ "model" \notin astray
      /\ faults' <= faults + 1 /\ Change
        => UNCHANGED <<saved, current, own, runtime, policy, route, selected>> ]_settingsVars
==============================================================================
