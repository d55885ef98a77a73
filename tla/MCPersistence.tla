--------------------------- MODULE MCPersistence ----------------------------
(* What a project keeps on disk, on small instances: the event store with   *)
(* its callers, the handles on its file with their threads, the context of  *)
(* the sessions, what of it fits the window of a model, the memory of       *)
(* former work and its vectors, the restore of a backup, and the tokens for *)
(* remote servers (of two clients without a credential at one port, or of   *)
(* one client of each other kind).  The parts do not share state; a         *)
(* behaviour moves the one that `part' names, so that their state spaces    *)
(* add up.                                                                  *)
EXTENDS EventStore, TLC

CONSTANTS Session, Home, Note, Pinned, MaxSeries, MaxCheckpoint,
          File, Present, Backup, MaxRestore, MaxFault,
          Memo, Document, Query, Profile, Absent, Chunk, MaxGeneration, MaxEdit, MaxKill,
          short, long, MaxItem, Window,
          Server, first, second, MaxFlow, MaxGrant, MaxDeath,
          Store, Process, NoStore, Order, NoOrder, SchemaVersion, MaxUpset

VARIABLES
  part,
  made, lineage, goal, series, head, checkpoints, at, op, returned, kills,
  db, stage, aside, journal, draft, names, step, todo, before, restores, faults,
  stored, generations, embedded, semantic, configured, embedder, inForce, indexing,
  revision, compared, outages,
  items, minted, wanted, said, reduction, outcome,
  config, flows, pending, listening, answer, late, hand, creds, grants, asked, deaths,
  schema, writer, planned, thread, seen, handle, queue, working, result, via, slot,
  told, done, upsets

Context == INSTANCE ContextSeries WITH crashes <- kills
Restore == INSTANCE StateRestore
Memory == INSTANCE VectorMemory WITH
  vectors <- embedded, profile <- configured, runtime <- embedder, call <- indexing,
  version <- revision, kills <- outages
Shown == INSTANCE ContextWindow WITH
  made <- minted, op <- reduction,
  Slot <- {"task"}, Role <- {"coder", "reviewer", "supervisor"},
  TalkRole <- {"coder", "supervisor"},
  Text <- {short, long}, TextCost <- [t \in {short, long} |-> IF t = short THEN 1 ELSE 3], SlotCost <- {2},
  MaxCost <- 3, Recent <- [safe |-> 2, aggressive |-> 1],
  Ceiling <- [safe |-> 3, aggressive |-> 2], SummaryFloor <- 2,
  NeedsFloor <- 1, RefsFloor <- 1, MaxFacts <- 2

(* The entry of a server that asks for nothing special, and one that is      *)
(* refused at once.                                                         *)
Plain ==
  [id |-> TRUE, secret |-> FALSE, key |-> FALSE, signs |-> TRUE, document |-> FALSE,
   method |-> "auto", published |-> TRUE, expected |-> TRUE, legacy |-> FALSE,
   fixed |-> TRUE]
Inert == [Plain EXCEPT !.legacy = TRUE]
Reply ==
  [found |-> TRUE, resource |-> "own", listed |-> TRUE, issuer |-> "own", s256 |-> TRUE,
   methods |-> {"none", "basic", "key"}, signs |-> TRUE, documents |-> TRUE,
   registers |-> TRUE]

Of(one, other) == [s \in Server |-> IF s = first THEN one ELSE other]
Configurations ==
  {Of(Plain, Plain)} \cup
  {Of(c, Inert) :
     c \in {[Plain EXCEPT !.secret = TRUE, !.expected = FALSE],
            [Plain EXCEPT !.key = TRUE, !.fixed = FALSE, !.published = FALSE, !.legacy = TRUE],
            [Plain EXCEPT !.id = FALSE, !.document = TRUE],
            [Plain EXCEPT !.secret = TRUE, !.key = TRUE]}}
Offers ==
  {Reply, [Reply EXCEPT !.found = FALSE], [Reply EXCEPT !.issuer = "neighbour"],
   [Reply EXCEPT !.issuer = "other", !.listed = FALSE], [Reply EXCEPT !.resource = "other"],
   [Reply EXCEPT !.s256 = FALSE],
   [Reply EXCEPT !.documents = FALSE, !.methods = {"none", "basic", "post"}],
   [Reply EXCEPT !.documents = FALSE, !.methods = {"none"}]}

Login == INSTANCE OAuth WITH
  kills <- deaths, MaxKill <- MaxDeath, Configs <- Configurations, Replies <- Offers

Handles == INSTANCE StoreWorker WITH
  Call <- Order, NoCall <- NoOrder, Latest <- SchemaVersion,
  draft <- planned, stage <- thread, hand <- working

ASSUME InstanceAssumption ==
  /\ Handles!StoreAssumption
  /\ Home \in Session
  /\ Pinned \subseteq Note
  /\ Present \cup Backup \subseteq File
  /\ Memo \cap (Document \cup Query) = {} /\ Document \cap Query = {}
  /\ {MaxGeneration, MaxItem, Window, MaxFlow, MaxGrant} \subseteq Nat
  /\ Server = {first, second} /\ Absent \notin Memory!Call \cup Profile

contextVars == <<made, lineage, goal, series, head, checkpoints, at, op, returned,
                 kills>>
restoreVars == <<db, stage, aside, journal, draft, names, step, todo, before,
                 restores, faults>>
memoryVars == <<stored, generations, embedded, semantic, configured, embedder,
                inForce, indexing, revision, compared, outages>>
windowVars == <<items, minted, wanted, said, reduction, outcome>>
loginVars == <<config, flows, pending, listening, answer, late, hand, creds, grants, asked,
               deaths>>
handleVars == <<schema, writer, planned, thread, seen, handle, queue, working, result,
                via, slot, told, done, upsets>>

AllInit ==
  /\ part \in {"store", "context", "restore", "memory", "window", "login", "handles"}
  /\ Init /\ Context!Init /\ Restore!Init /\ Memory!Init /\ Shown!Init /\ Login!Init
  /\ Handles!Init
  /\ part # "login" => config = Of(Plain, Plain)
  /\ part # "handles" => schema = Handles!Whole(0)

Only(p) == part = p /\ UNCHANGED part

RestoreOwner ==
  /\ Only("restore") /\ Restore!Owner
  /\ UNCHANGED <<vars, contextVars, memoryVars, windowVars, loginVars, handleVars>>

RestoreAcquire ==
  /\ Only("restore") /\ Restore!Acquire
  /\ UNCHANGED <<vars, contextVars, memoryVars, windowVars, loginVars, handleVars>>

AllNext ==
  \/ /\ Only("store") /\ Next
     /\ UNCHANGED <<contextVars, restoreVars, memoryVars, windowVars, loginVars, handleVars>>
  \/ /\ Only("context") /\ Context!Next
     /\ UNCHANGED <<vars, restoreVars, memoryVars, windowVars, loginVars, handleVars>>
  \/ /\ Only("restore") /\ Restore!Next
     /\ UNCHANGED <<vars, contextVars, memoryVars, windowVars, loginVars, handleVars>>
  \/ /\ Only("memory") /\ Memory!Next
     /\ UNCHANGED <<vars, contextVars, restoreVars, windowVars, loginVars, handleVars>>
  \/ /\ Only("window") /\ Shown!Next
     /\ UNCHANGED <<vars, contextVars, restoreVars, memoryVars, loginVars, handleVars>>
  \/ /\ Only("login") /\ Login!Next
     /\ UNCHANGED <<vars, contextVars, restoreVars, memoryVars, windowVars, handleVars>>
  \/ /\ Only("handles") /\ Handles!Next
     /\ UNCHANGED <<vars, contextVars, restoreVars, memoryVars, windowVars, loginVars>>

AllSpec ==
  /\ AllInit
  /\ [][AllNext]_<<part, vars, contextVars, restoreVars,
                   memoryVars, windowVars, loginVars, handleVars>>
  /\ WF_restoreVars(RestoreOwner) /\ WF_restoreVars(RestoreAcquire)

(* The parts stay within their types.                                       *)
AllTypeOK ==
  /\ part = "store" => TypeOK
  /\ part = "context" => Context!TypeOK
  /\ part = "restore" => Restore!TypeOK
  /\ part = "memory" => Memory!TypeOK
  /\ part = "window" => Shown!TypeOK
  /\ part = "login" => Login!TypeOK
  /\ part = "handles" => Handles!TypeOK

(* The model is shown the goal of the session it works in, and a fork       *)
(* begins with the context of its checkpoint, also when a restart completes *)
(* it; of the session it is shown what is required and the newest of the    *)
(* rest, and compaction loses nothing of it; what it is told of former work *)
(* was compared within one space of vectors that reaches every record, and  *)
(* of no record that was forgotten.  See the modules ContextSeries,         *)
(* ContextWindow and VectorMemory.                                          *)
ContextIsRight ==
  /\ part = "context" => Context!GoalShown /\ Context!ForkIsExact
  /\ part = "window" =>
       /\ Shown!RequiredIsShown /\ Shown!NothingFallsOut /\ Shown!ShownIsRecent
       /\ Shown!AutoIsHarmless /\ Shown!RequirementsOutlastHistory
  /\ part = "memory" =>
       /\ Memory!AnswersCompare /\ Memory!SearchReachesAll
       /\ Memory!OneGeneration /\ Memory!ForgottenIsGone

(* As long as the process is killed, or a file operation fails, at most     *)
(* once: one side of a restore can be had whole at every moment, and who    *)
(* opens the project finds one side whole and no journal.  See module       *)
(* StateRestore; a second kill during the recovery is a run of its own.     *)
OneFaultSurvived ==
  part = "restore" /\ faults <= 1 => Restore!OldOrNewSurvives /\ Restore!OpenIsWhole

(* A remote server's tokens come from its own flow, with the client's own    *)
(* credential, and can be refreshed: see module OAuth.                       *)
LoginHolds ==
  part = "login" =>
    /\ Login!CodesStayHome /\ Login!LoginIsRenewable
    /\ Login!FlowIsReachable /\ Login!ClientIsWhole

(* The file has the schema of one version however it is migrated, and a     *)
(* caller of the database is told the truth, once: see module StoreWorker.   *)
HandlesHold ==
  part = "handles" =>
    /\ Handles!SchemaIsWhole /\ Handles!OpenIsCurrent
    /\ Handles!AnswersAreTrue /\ Handles!NobodyIsForgotten

(* What is kept comes back whole, to the model and to the user.              *)
KeptIsWhole == ContextIsRight /\ OneFaultSurvived /\ LoginHolds /\ HandlesHold

(* After one fault the project can be opened again: see module StateRestore. *)
ProjectOpens ==
  part = "restore" /\ step = "closed" /\ faults <= 1
    ~> step = "open" \/ faults > 1
=============================================================================
