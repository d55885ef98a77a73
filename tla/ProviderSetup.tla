---------------------------- MODULE ProviderSetup ----------------------------
(* The set-up of providers and of their keys: the wizards and commands of   *)
(* bins/harness (AppBackend) over the credential store of the operating     *)
(* system and the global files for providers, default model and vectors.    *)
(*                                                                          *)
(* A wizard asks one question after the other.  The key goes into the store *)
(* before anything is known to work, so that every way out of the wizard    *)
(* has to put back what was there.                                          *)
(*                                                                          *)
(* Simplifications: a text provider stands for its default model; a         *)
(* provider that is probed may give any answer; at most MaxFault writes and *)
(* deletions fail.  Reading does not fail, and other programs that share    *)
(* the files are left out.                                                  *)
EXTENDS Integers, FiniteSets

CONSTANTS
  Known, Custom,               \* text providers: built in, and added by the user
  KnownVector, CustomVector,   \* providers of embeddings, likewise
  VectorModel,                 \* the models a provider of embeddings may have
  First,                       \* the one a built-in provider lists first
  Secret, NoKey,
  Placeholder,                 \* the unconfigured provider
  Nobody,                      \* no provider recorded, or asked about
  MaxFault                     \* bound: writes and deletions that fail

VARIABLES
  running,   \* whether the program runs
  key,       \* the credential store: provider -> key
  catalog,   \* the file of text providers added by the user
  default,   \* the file with the provider of the default model
  vector,    \* the file of vector providers: provider -> verified models
  active,    \* ... and the active provider and model, if any
  session,   \* the provider the session's events name
  selected,  \* the provider of the model runtime
  ready,     \* model_ready: whether tasks are taken
  setup,     \* pending_setup: the question that is open
  pending,   \* pending_credential: the provider whose key is asked for
  proven,    \* the key each provider was last set up with
  astray,    \* what a failure nobody was told of has left out of line
  faults

store == <<key, proven, astray, faults>>
files == <<catalog, default, vector, active>>
choice == <<session, selected, ready>>
setupVars == <<running, store, files, choice, setup, pending>>

Text == Known \cup Custom
VectorProvider == KnownVector \cup CustomVector
Listed == Known \cup catalog
VectorListed == {p \in VectorProvider : vector[p] # {}}

NoSetup == [at |-> "none", provider |-> Nobody, adding |-> FALSE, old |-> NoKey,
            asked |-> {}, found |-> {}]
Asking(step, p) == [NoSetup EXCEPT !.at = step, !.provider = p]
Idle == running /\ setup = NoSetup /\ pending = Nobody

(* n writes fail.                                                           *)
Failing(n) == faults + n <= MaxFault /\ faults' = faults + n

(* A question is asked, and nothing else happens.                           *)
Ask(question) ==
  setup' = question /\ UNCHANGED <<running, store, files, choice, pending>>

(***************************************************************************)
(* The credential store                                                    *)
(***************************************************************************)

(* The key of p is put back to what it was, an attempt whose failure is not *)
(* reported: restore_vector_credential, delete_provider_credential.         *)
PutBack(p, old, spent) ==
  /\ \/ Failing(spent) /\ key' = [key EXCEPT ![p] = old] /\ UNCHANGED astray
     \/ Failing(spent + 1) /\ UNCHANGED key /\ astray' = astray \cup {p}
  /\ UNCHANGED proven

(* The wizard ends with an error, or is left.                               *)
GiveUp(spent) ==
  /\ setup' = NoSetup
  /\ IF setup.adding THEN PutBack(setup.provider, setup.old, spent)
     ELSE Failing(spent) /\ UNCHANGED <<key, proven, astray>>
  /\ UNCHANGED <<running, files, choice, pending>>

(* Faulty: the key that was stored stays. *)
CancelKeepsKey ==
  /\ setup.at # "none" /\ setup' = NoSetup
  /\ UNCHANGED <<running, store, files, choice, pending>>

(* An empty answer, /cancel or /back.  A question that names a provider     *)
(* without a key ends in the same way.                                      *)
CancelSetup == setup.at # "none" /\ GiveUp(0)

(* The key of a provider that is added is stored, and the provider asked    *)
(* whether it takes it; a custom provider of embeddings is asked later.     *)
AfterKey(p) ==
  CASE p \in Custom -> "default"
    [] p \in CustomVector -> "vectorModels"
    [] p \in KnownVector -> "select"

SubmitKey(secret) ==
  LET p == setup.provider
      old == IF p \in Custom THEN NoKey ELSE key[p]
  IN /\ setup.at = "key"
     /\ \/ /\ Failing(1) /\ setup' = NoSetup /\ UNCHANGED <<key, proven, astray>>
        \/ p \notin CustomVector /\ setup' = NoSetup /\ PutBack(p, old, 0)
        \/ /\ key' = [key EXCEPT ![p] = secret]
           /\ setup' = [Asking(AfterKey(p), p) EXCEPT
                          !.adding = TRUE, !.old = old,
                          !.found = IF p \in KnownVector THEN {First} ELSE {}]
           /\ Failing(0) /\ UNCHANGED <<proven, astray>>
     /\ UNCHANGED <<running, files, choice, pending>>

(***************************************************************************)
(* The questions that change nothing                                       *)
(***************************************************************************)
NextQuestion == [name |-> "protocol", protocol |-> "url", url |-> "key",
                 vectorName |-> "vectorUrl", vectorUrl |-> "key"]

(* An answer that does not parse, or a name that is taken, is asked again.  *)
Answer ==
  /\ setup.at \in DOMAIN NextQuestion
  /\ \E p \in CASE setup.at = "name" -> Custom \ catalog
                [] setup.at = "vectorName" -> CustomVector \ VectorListed
                [] OTHER -> {setup.provider} :
       Ask(Asking(NextQuestion[setup.at], p))

AddProvider == Idle /\ Ask(Asking("name", Nobody))
SetUpVectors == Idle /\ Ask(Asking("vectorKind", Nobody))
ChooseKind ==
  /\ setup.at = "vectorKind"
  /\ \/ Ask(Asking("vectorName", Nobody))
     \/ \E p \in KnownVector : Ask(Asking("key", p))

(***************************************************************************)
(* The choice of a text provider                                           *)
(***************************************************************************)

(* p becomes the provider of the session and of new sessions.               *)
Selected(p) ==
  session' = p /\ selected' = p /\ ready' = TRUE /\ default' = p

(* What went before is selected again once the default could not be         *)
(* written, which may fail as well.                                         *)
Reselect(p, spent) ==
  \/ Failing(spent) /\ session' = selected /\ UNCHANGED <<selected, ready, astray>>
  \/ /\ Failing(spent + 1) /\ session' = p /\ selected' = p /\ UNCHANGED ready
     /\ astray' = astray \cup {"ready"}

(* The catalogue as it was is written back, then the key deleted.           *)
RollBack(p, spent, astrayNow) ==
  \E lost \in SUBSET {"catalog", "key"} :
    /\ Failing(spent + Cardinality(lost))
    /\ catalog' = IF "catalog" \in lost THEN catalog \cup {p} ELSE catalog
    /\ key' = IF "key" \in lost THEN key ELSE [key EXCEPT ![p] = NoKey]
    /\ astray' = IF lost = {} THEN astrayNow ELSE astrayNow \cup {p}

(* The default model of a new provider is chosen.  The catalogue is         *)
(* written; the provider built, registered and selected, any of which may   *)
(* be refused; then the default is written.                                 *)
ChooseDefault ==
  LET p == setup.provider
  IN /\ setup.at = "default" /\ setup' = NoSetup
     /\ \/ /\ catalog' = catalog \cup {p} /\ Selected(p)
           /\ proven' = [proven EXCEPT ![p] = key[p]]
           /\ astray' = astray \ {p, "ready"} /\ Failing(0) /\ UNCHANGED key
        \/ /\ RollBack(p, 0, astray) /\ UNCHANGED <<choice, default, proven>>
        \/ /\ \/ /\ session' = selected /\ UNCHANGED selected
                 /\ RollBack(p, 1, astray)
              \/ /\ session' = p /\ selected' = p
                 /\ RollBack(p, 2, astray \cup {"ready"})
           /\ UNCHANGED <<ready, default, proven>>
     /\ UNCHANGED <<running, vector, active, pending>>

(* /model, /provider switch: a provider that has a key.                     *)
SwitchProvider(p) ==
  /\ p \in Listed /\ key[p] # NoKey
  /\ setup' = NoSetup
  /\ \/ Selected(p) /\ astray' = astray \ {"ready"} /\ Failing(0)
     \/ Failing(1) /\ UNCHANGED <<choice, default, astray>>
     \/ Reselect(p, 1) /\ UNCHANGED default
  /\ UNCHANGED <<running, key, proven, catalog, vector, active, pending>>

ChooseProvider ==
  \/ Idle /\ Ask(Asking("switch", Nobody))
  \/ (Idle \/ setup.at = "switch") /\ \E p \in Text : SwitchProvider(p)

(* A provider added by the user is removed: from the catalogue, from the    *)
(* default if it is that, its key from the store, and then from use.        *)
RemoveProvider(p) ==
  /\ Idle /\ p \in catalog
  /\ catalog' = catalog \ {p}
  /\ \/ Failing(1) /\ default = p /\ astray' = astray \cup {p}
        /\ UNCHANGED <<key, default, choice, proven>>
     \/ \E lost \in SUBSET {"key", "selection"} :
          /\ "selection" \in lost => selected = p
          /\ Failing(Cardinality(lost))
          /\ default' = IF default = p THEN Nobody ELSE default
          /\ key' = IF "key" \in lost THEN key ELSE [key EXCEPT ![p] = NoKey]
          /\ proven' = [proven EXCEPT ![p] = NoKey]
          /\ IF selected # p \/ "selection" \in lost THEN UNCHANGED choice
             ELSE session' = Placeholder /\ selected' = Placeholder /\ ready' = FALSE
          /\ astray' = astray \cup (IF "key" \in lost THEN {p} ELSE {})
                         \cup (IF "selection" \in lost THEN {"ready"} ELSE {})
  /\ UNCHANGED <<running, vector, active, setup, pending>>

(***************************************************************************)
(* The key of a provider is changed                                        *)
(***************************************************************************)
Connect(p) ==
  /\ \/ Idle /\ p \in Listed
     \/ setup.at = "keySelect" /\ p \in Listed /\ key[p] # NoKey
  /\ setup' = NoSetup /\ pending' = p
  /\ UNCHANGED <<running, store, files, choice>>

UpdateKey == Idle /\ Ask(Asking("keySelect", Nobody))

(* Faulty: tasks are taken once a key is good, whichever provider it is for. *)
SubmitCredentialReadies(secret) ==
  /\ pending # Nobody /\ pending' = Nobody
  /\ \/ /\ key' = [key EXCEPT ![pending] = secret]
        /\ proven' = [proven EXCEPT ![pending] = secret]
        /\ ready' = TRUE
        /\ astray' = astray \ {pending} /\ Failing(0)
     \/ PutBack(pending, key[pending], 0) /\ UNCHANGED ready
     \/ Failing(1) /\ UNCHANGED <<key, proven, ready, astray>>
  /\ UNCHANGED <<running, files, session, selected, setup>>

(* The new key takes the place of the old one, the provider is asked, and   *)
(* the old one put back if it refuses: replace_credential_transactionally.  *)
SubmitCredential(secret) ==
  /\ pending # Nobody /\ pending' = Nobody
  /\ \/ /\ key' = [key EXCEPT ![pending] = secret]
        /\ proven' = [proven EXCEPT ![pending] = secret]
        /\ ready' = (ready \/ selected = pending)
        /\ astray' = astray \ {pending} /\ Failing(0)
     \/ PutBack(pending, key[pending], 0) /\ UNCHANGED ready
     \/ Failing(1) /\ UNCHANGED <<key, proven, ready, astray>>
  /\ UNCHANGED <<running, files, session, selected, setup>>

CancelCredential ==
  /\ pending # Nobody /\ pending' = Nobody
  /\ UNCHANGED <<running, store, files, choice, setup>>

(***************************************************************************)
(* Providers of embeddings                                                 *)
(***************************************************************************)

(* The models a provider that is chosen from has, and those of them that    *)
(* are known to give embeddings.                                            *)
Verified == IF setup.adding THEN setup.found ELSE vector[setup.provider]
Offered == IF setup.provider \in KnownVector THEN VectorModel ELSE Verified

(* Every model the user has named is probed in turn.  One of them may need  *)
(* its dimensions from the user; one that fails ends the wizard.            *)
ProbeFrom(asked, found) ==
  \/ Ask([setup EXCEPT !.at = "select", !.asked = asked, !.found = asked])
  \/ \E more \in SUBSET asked :
       /\ found \subseteq more /\ more # asked
       /\ Ask([setup EXCEPT !.at = "vectorDimensions", !.asked = asked, !.found = more])
  \/ GiveUp(0)

NameModels ==
  /\ setup.at = "vectorModels"
  /\ \E asked \in (SUBSET VectorModel) \ {{}} : ProbeFrom(asked, {})

(* The dimensions of one model, until the provider agrees with them.        *)
GiveDimensions ==
  /\ setup.at = "vectorDimensions"
  /\ \E model \in setup.asked \ setup.found :
       ProbeFrom(setup.asked, setup.found \cup {model})

(* A verified model is made the active one.                                 *)
Commit(model) ==
  LET p == setup.provider
  IN \/ /\ setup' = NoSetup
        /\ vector' = [vector EXCEPT ![p] = Verified \cup {model}]
        /\ active' = {<<p, model>>}
        /\ proven' = IF setup.adding THEN [proven EXCEPT ![p] = key[p]] ELSE proven
        /\ astray' = IF setup.adding THEN astray \ {p} ELSE astray
        /\ Failing(0)
        /\ UNCHANGED <<running, key, catalog, default, choice, pending>>
     \/ GiveUp(1)

(* A model is chosen.  One that is not offered ends the wizard and leaves   *)
(* the key it has stored; one that is not verified is probed first.         *)
SelectVectorModel ==
  \/ /\ setup.at = "select"
     /\ \/ /\ setup' = NoSetup
           /\ astray' = IF setup.adding THEN astray \cup {setup.provider} ELSE astray
           /\ UNCHANGED <<running, key, proven, faults, files, choice, pending>>
        \/ \E model \in Offered : Commit(model)
        \/ \E model \in Offered \ Verified :
             GiveUp(0) \/ Ask([setup EXCEPT !.at = "dimensions", !.asked = {model}])
  \/ setup.at = "dimensions" /\ \E model \in setup.asked : Commit(model)

SwitchVectors ==
  \/ Idle /\ Ask(Asking("vectorSwitch", Nobody))
  \/ /\ \/ setup.at = "vectorSwitch"
        \/ Idle /\ active # {}
     /\ \E p \in VectorListed :
          /\ setup.at = "none" => \E entry \in active : p = entry[1]
          /\ Ask(Asking("select", p))

(* Everything about embeddings is cleared: the file, then the keys of its   *)
(* providers, each an attempt.                                              *)
ClearVectors ==
  \/ Idle /\ Ask(Asking("vectorClear", Nobody))
  \/ /\ setup.at = "vectorClear" /\ setup' = NoSetup
     /\ \/ Failing(1) /\ UNCHANGED <<key, proven, astray, vector, active>>
        \/ \E lost \in SUBSET VectorListed :
             /\ Failing(Cardinality(lost))
             /\ key' = [p \in DOMAIN key |->
                          IF p \in VectorListed \ lost THEN NoKey ELSE key[p]]
             /\ proven' = [p \in DOMAIN proven |->
                             IF p \in VectorListed THEN NoKey ELSE proven[p]]
             /\ astray' = astray \cup lost
             /\ vector' = [p \in VectorProvider |-> {}] /\ active' = {}
     /\ UNCHANGED <<running, catalog, default, choice, pending>>

(***************************************************************************)
(* The program starts, and is killed                                       *)
(***************************************************************************)

(* The session is resumed, or a new one.  The default of the file comes     *)
(* before the session's own provider, and model_ready is judged by it; the  *)
(* application then takes the session's.  A session whose provider is not   *)
(* in the catalogue cannot be resumed.                                      *)
Start ==
  /\ ~running /\ running' = TRUE
  /\ \E kept \in {session, Nobody} :
       LET wanted == IF default # Nobody THEN default ELSE kept
           first == IF wanted \in Listed THEN wanted ELSE Placeholder
           own == IF kept = Nobody THEN first ELSE kept
       IN /\ kept \in Listed \cup {Placeholder, Nobody}
          /\ session' = own /\ selected' = own
          /\ ready' = (first # Placeholder /\ key[first] # NoKey)
          /\ astray' = IF own = first THEN astray \ {"ready"} ELSE astray \cup {"ready"}
  /\ UNCHANGED <<key, proven, faults, files, setup, pending>>

(* The process is killed.                                                   *)
Down ==
  /\ running /\ running' = FALSE /\ selected' = Placeholder /\ ready' = FALSE
  /\ setup' = NoSetup /\ pending' = Nobody /\ UNCHANGED faults

Kill ==
  /\ Down
  /\ astray' = IF setup.adding THEN astray \cup {setup.provider} ELSE astray
  /\ UNCHANGED <<key, proven, files, session>>

(* ... between two writes of one step: while a default is chosen, a         *)
(* provider removed, the vectors cleared, or a new key tried.               *)
KillWithin ==
  /\ Down /\ UNCHANGED proven
  /\ \/ /\ setup.at = "default"
        /\ catalog' = catalog \cup {setup.provider}
        /\ session' \in {session, setup.provider}
        /\ astray' = astray \cup {setup.provider}
        /\ UNCHANGED <<key, default, vector, active>>
     \/ \E p \in catalog :
          /\ Idle /\ catalog' = catalog \ {p}
          /\ default' \in {default, IF default = p THEN Nobody ELSE default}
          /\ key' \in {key, [key EXCEPT ![p] = NoKey]}
          /\ key' # key => default' # p
          /\ astray' = astray \cup {p}
          /\ UNCHANGED <<vector, active, session>>
     \/ \E gone \in SUBSET VectorListed :
          /\ setup.at = "vectorClear"
          /\ vector' = [p \in VectorProvider |-> {}] /\ active' = {}
          /\ key' = [p \in DOMAIN key |-> IF p \in gone THEN NoKey ELSE key[p]]
          /\ astray' = astray \cup VectorListed
          /\ UNCHANGED <<catalog, default, session>>
     \/ \E secret \in Secret :
          /\ pending # Nobody /\ key' = [key EXCEPT ![pending] = secret]
          /\ astray' = astray \cup {pending}
          /\ UNCHANGED <<files, session>>

Init ==
  /\ running = FALSE
  /\ key = [p \in Text \cup VectorProvider |-> NoKey] /\ proven = key
  /\ catalog = {} /\ default = Nobody
  /\ vector = [p \in VectorProvider |-> {}] /\ active = {}
  /\ session = Nobody /\ selected = Placeholder /\ ready = FALSE
  /\ setup = NoSetup /\ pending = Nobody /\ astray = {} /\ faults = 0

Next ==
  \/ AddProvider \/ SetUpVectors \/ ChooseKind \/ Answer \/ CancelSetup
  \/ \E secret \in Secret : SubmitKey(secret) \/ SubmitCredential(secret)
  \/ ChooseDefault \/ ChooseProvider \/ UpdateKey \/ CancelCredential
  \/ \E p \in Text : RemoveProvider(p) \/ Connect(p)
  \/ NameModels \/ GiveDimensions \/ SelectVectorModel \/ SwitchVectors
  \/ ClearVectors \/ Start \/ Kill \/ KillWithin

Spec == Init /\ [][Next]_setupVars

(***************************************************************************)
(* Properties                                                              *)
(***************************************************************************)
TypeOK ==
  /\ running \in BOOLEAN /\ ready \in BOOLEAN /\ faults \in 0..MaxFault
  /\ key \in [Text \cup VectorProvider -> Secret \cup {NoKey}]
  /\ proven \in [Text \cup VectorProvider -> Secret \cup {NoKey}]
  /\ catalog \subseteq Custom /\ default \in Text \cup {Nobody}
  /\ vector \in [VectorProvider -> SUBSET VectorModel]
  /\ active \subseteq VectorProvider \X VectorModel
  /\ session \in Text \cup {Placeholder, Nobody}
  /\ selected \in Text \cup {Placeholder}
  /\ setup.provider \in Text \cup VectorProvider \cup {Nobody}
  /\ setup.old \in Secret \cup {NoKey}
  /\ setup.asked \subseteq VectorModel /\ setup.found \subseteq VectorModel
  /\ pending \in Text \cup {Nobody}
  /\ astray \subseteq Text \cup VectorProvider \cup {"ready"}

(* The store holds for every provider the key it was last set up with, and  *)
(* none for one that is not listed: however a wizard ended, a new key that  *)
(* was not accepted is gone and the old one back.  While a wizard has a new *)
(* key in the store it holds the old one.  The exceptions: a process killed *)
(* half-way, a key that could not be put back, and a wizard that ended at a *)
(* model that is not offered.                                               *)
KeysAreProven ==
  /\ \A p \in (DOMAIN key) \ astray :
       /\ proven[p] = IF setup.adding /\ setup.provider = p THEN setup.old ELSE key[p]
       /\ p \in Custom => (p \in catalog) = (proven[p] # NoKey)
       /\ p \in VectorProvider => (p \in VectorListed) = (proven[p] # NoKey)
  /\ \A entry \in active : entry[2] \in vector[entry[1]]

(* Tasks are taken only for a provider that is listed and has a key: the    *)
(* flag is kept in step with a choice that is taken back, a provider that   *)
(* is removed and a key that is replaced.  The exceptions: a session that   *)
(* was resumed with another provider than the default, and a failure that   *)
(* nobody was told of.                                                      *)
ReadyIsUsable ==
  ready /\ "ready" \notin astray /\ selected \notin astray
    => selected \in Listed /\ key[selected] # NoKey
==============================================================================
