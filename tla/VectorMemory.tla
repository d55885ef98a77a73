---------------------------- MODULE VectorMemory ----------------------------
(***************************************************************************)
(* The memory of a project and the vectors its semantic search works with  *)
(* (harness-memory, ProjectMemory).  Records are found by their words      *)
(* always; by meaning only when an embedding provider is configured, its   *)
(* factory attached, and a generation of vectors of all the records made   *)
(* by the first search that wants it.  A new model, provider or dimension  *)
(* needs a new generation; an interrupted or failed one is left where it   *)
(* is.  Calls come one at a time; the process may be killed between two    *)
(* transactions.  The provider is external and may fail every request.     *)
(*                                                                         *)
(* A profile is what the code compares: model, name of the provider and    *)
(* dimensions.  Words, scores and their fusion are left out, and so is a   *)
(* search that wants no vectors, which changes nothing.                    *)
(***************************************************************************)
EXTENDS Integers, Sequences, FiniteSets, SequencesExt

CONSTANTS
  Memo,          \* records of the memory
  Document,      \* files that the repository offers to be ranked
  Query,         \* questions asked
  Profile,       \* embedding profiles
  Absent,
  Chunk,         \* records per transaction of index_records, 32 in the code
  MaxGeneration, \* bound on the generations made
  MaxEdit,       \* bound on the changes of a document
  MaxKill        \* bound on the kills of the process

VARIABLES
  stored,      \* memory_records, and memory_fts with them
  generations, \* vector_generations, numbered from one
  vectors,     \* the three tables of vectors, see Vector
  semantic,    \* SemanticCapability, or "down"
  profile,     \* profile of the configuration the process was started with
  runtime,     \* embedding_provider: its profile
  inForce,     \* active_generation, 0 if none
  call,        \* the call that is indexing, see Call
  version,     \* content hash of each document
  compared,    \* history: the vectors the last answer compared
  kills

vars == <<stored, generations, vectors, semantic, profile, runtime, inForce,
          call, version, compared, kills>>

Item == Memo \cup Document \cup Query

(* `origin' is the profile that made the vector, which no table records.    *)
Vector == [generation: 1..MaxGeneration, item: Item, hash: 0..MaxEdit,
           origin: Profile]

Generation == [profile: Profile,
               status: {"building", "active", "dormant", "failed"}]

Semantic == {"down", "absent", "blocked", "ready", "active", "degraded"}

(* A call that indexes: into which generation, what is still to be done.    *)
Call == [kind: {"add", "search", "rerank"}, target: 1..MaxGeneration,
         todo: SUBSET Memo]

TypeOK ==
  /\ stored \subseteq Memo /\ vectors \subseteq Vector
  /\ generations \in Seq(Generation) /\ Len(generations) <= MaxGeneration
  /\ semantic \in Semantic
  /\ profile \in Profile \cup {Absent} /\ runtime \in Profile \cup {Absent}
  /\ inForce \in 0..MaxGeneration
  /\ call \in Call \cup {Absent}
  /\ version \in [Document -> 0..MaxEdit]
  /\ compared \subseteq Vector /\ kills \in 0..MaxKill

Init ==
  /\ stored = {} /\ generations = <<>> /\ vectors = {}
  /\ semantic = "down" /\ profile = Absent /\ runtime = Absent /\ inForce = 0
  /\ call = Absent /\ version = [d \in Document |-> 0] /\ compared = {}
  /\ kills = 0

Idle == semantic # "down" /\ call = Absent

-----------------------------------------------------------------------------
(* The process.                                                             *)

(* Start: without a configuration there are no vectors; with one they can   *)
(* be had, unless its health check or its factory fails.                    *)
Open ==
  /\ semantic = "down"
  /\ \E p \in Profile \cup {Absent} :
       /\ profile' = p
       /\ semantic' \in IF p = Absent THEN {"absent"} ELSE {"ready", "blocked"}
  /\ UNCHANGED <<stored, generations, vectors, runtime, inForce, call, version,
                 compared, kills>>

Kill ==
  /\ semantic # "down" /\ kills < MaxKill /\ kills' = kills + 1
  /\ semantic' = "down" /\ profile' = Absent /\ runtime' = Absent
  /\ inForce' = 0 /\ call' = Absent /\ compared' = {}
  /\ UNCHANGED <<stored, generations, vectors, version>>

(* A file changes.                                                          *)
Edit(d) ==
  /\ version[d] < MaxEdit
  /\ version' = [version EXCEPT ![d] = @ + 1]
  /\ compared' = {}
  /\ UNCHANGED <<stored, generations, vectors, semantic, profile, runtime,
                 inForce, call, kills>>

-----------------------------------------------------------------------------
(* The records.                                                             *)

(* The record is stored; its vector follows in a transaction of its own     *)
(* when a generation is in force.                                           *)
Add(r) ==
  /\ Idle /\ r \notin stored
  /\ stored' = stored \cup {r}
  /\ call' = IF runtime # Absent /\ inForce # 0
             THEN [kind |-> "add", target |-> inForce, todo |-> {r}]
             ELSE Absent
  /\ UNCHANGED <<generations, vectors, semantic, profile, runtime, inForce,
                 version, compared, kills>>

(* Faulty: the vectors of the record stay.                                  *)
LeftBehind(r) == vectors

(* The tables of vectors cascade with the records.                          *)
Without(r) == {v \in vectors : v.item # r}

Forget(r) ==
  /\ Idle /\ r \in stored
  /\ stored' = stored \ {r} /\ vectors' = Without(r)
  /\ compared' = {}
  /\ UNCHANGED <<generations, semantic, profile, runtime, inForce, call, version,
                 kills>>

-----------------------------------------------------------------------------
(* Generations.                                                             *)

Entry(g, i, h) == [generation |-> g, item |-> i, hash |-> h, origin |-> profile]

(* INSERT OR REPLACE.                                                       *)
Replaced(g, items, hash) ==
  {v \in vectors : v.generation # g \/ v.item \notin items}
    \cup {Entry(g, i, hash[i]) : i \in items}

Held(g, i) == {v \in vectors : v.generation = g /\ v.item = i}

(* Faulty: any active generation is taken, whoever made it.                 *)
AnyActive(p) == {g \in DOMAIN generations : generations[g].status = "active"}

(* The generations activate_semantic may go on with.                        *)
Reusable(p) ==
  {g \in DOMAIN generations :
     generations[g].status = "active" /\ generations[g].profile = p}

(* Faulty: a generation that was complete once is taken to be so still.     *)
MissingNone(g) == {}

(* The records without a vector in the generation.                          *)
Missing(g) == {r \in stored : Held(g, r) = {}}

(* The first call that wants vectors creates the runtime and goes on with   *)
(* the newest active generation of its profile, else begins a new one.      *)
Activate(kind) ==
  /\ Idle /\ semantic = "ready"
  /\ IF Reusable(profile) # {}
     THEN LET g == Max(Reusable(profile)) IN
          /\ call' = [kind |-> kind, target |-> g, todo |-> Missing(g)]
          /\ UNCHANGED generations
     ELSE /\ Len(generations) < MaxGeneration
          /\ generations' =
               Append(generations, [profile |-> profile, status |-> "building"])
          /\ call' = [kind |-> kind, target |-> Len(generations) + 1, todo |-> stored]
  /\ UNCHANGED <<stored, vectors, semantic, profile, runtime, inForce, version,
                 compared, kills>>

(* The runtime cannot be created: a search is degraded from now on, a       *)
(* ranking only fails.                                                      *)
ActivationFails(kind) ==
  /\ Idle /\ semantic = "ready"
  /\ semantic' = IF kind = "search" THEN "degraded" ELSE "ready"
  /\ UNCHANGED <<stored, generations, vectors, profile, runtime, inForce, call,
                 version, compared, kills>>

(* One chunk of index_records: one request, one transaction.                *)
Index ==
  /\ call # Absent /\ call.todo # {}
  /\ \E items \in SUBSET call.todo :
       /\ items # {} /\ Cardinality(items) <= Chunk
       /\ vectors' = Replaced(call.target, items, [i \in items |-> 0])
       /\ call' = [call EXCEPT !.todo = @ \ items]
  /\ UNCHANGED <<stored, generations, semantic, profile, runtime, inForce,
                 version, compared, kills>>

(* Faulty: the failed addition is not noticed.                              *)
Unnoticed(kind) == semantic

(* What is left of the capability when the vectors cannot be made.          *)
AfterFailure(kind) == IF kind = "rerank" THEN semantic ELSE "degraded"

(* The provider fails: a generation being built is marked, one that is      *)
(* continued keeps what it has.                                             *)
IndexFails ==
  /\ call # Absent /\ call.todo # {}
  /\ generations' = [g \in DOMAIN generations |->
       IF g = call.target /\ generations[g].status = "building"
       THEN [generations[g] EXCEPT !.status = "failed"] ELSE generations[g]]
  /\ semantic' = AfterFailure(call.kind)
  /\ call' = Absent
  /\ UNCHANGED <<stored, vectors, profile, runtime, inForce, version, compared,
                 kills>>

(* Faulty: the former generation stays active.                              *)
Raised(g) ==
  [h \in DOMAIN generations |->
     IF h = g THEN [generations[h] EXCEPT !.status = "active"] ELSE generations[h]]

(* The generation is the active one now, the former one dormant, in one     *)
(* transaction; one that was continued is active already.                   *)
Switched(g) ==
  [h \in DOMAIN generations |->
     IF h = g THEN [generations[h] EXCEPT !.status = "active"]
     ELSE IF generations[h].status = "active" /\ generations[g].status = "building"
          THEN [generations[h] EXCEPT !.status = "dormant"]
     ELSE generations[h]]

(* All vectors are there.  The call of a search or a ranking goes on with   *)
(* Search or Rerank.                                                        *)
Indexed ==
  /\ call # Absent /\ call.todo = {}
  /\ IF call.kind = "add" THEN UNCHANGED <<generations, semantic, runtime, inForce>>
     ELSE /\ generations' = Switched(call.target)
          /\ semantic' = "active" /\ runtime' = profile /\ inForce' = call.target
  /\ call' = Absent
  /\ UNCHANGED <<stored, vectors, profile, version, compared, kills>>

-----------------------------------------------------------------------------
(* Answers.                                                                 *)

Usable == runtime # Absent /\ inForce # 0

(* query_embedding: the vector of the question, kept per generation.        *)
WithQuery(q) ==
  IF Held(inForce, q) # {} THEN vectors ELSE vectors \cup {Entry(inForce, q, 0)}

(* semantic_search: the question against all records of the generation.     *)
Search(q) ==
  /\ Idle /\ semantic = "active" /\ Usable
  /\ vectors' = WithQuery(q)
  /\ compared' = {v \in vectors' : v.generation = inForce /\ v.item \in stored \cup {q}}
  /\ UNCHANGED <<stored, generations, semantic, profile, runtime, inForce, call,
                 version, kills>>

(* The question cannot be embedded, or the vectors were purged: the search  *)
(* answers by words, now and until the next start.                          *)
SearchFails(q) ==
  /\ Idle /\ semantic = "active"
  /\ Usable => Held(inForce, q) = {}
  /\ semantic' = "degraded"
  /\ UNCHANGED <<stored, generations, vectors, profile, runtime, inForce, call,
                 version, compared, kills>>

(* Faulty: the vector of a document is taken whatever its hash.             *)
AnyVersion(d) == Held(inForce, d) # {}

(* The vector of the document can be used: it is of the same content.       *)
Fresh(d) == \E v \in Held(inForce, d) : v.hash = version[d]

(* rerank_documents: the question against the files offered, of which those *)
(* without a vector of their present content are embedded in one batch.     *)
Rerank(q, docs) ==
  /\ Idle /\ semantic = "active" /\ Usable /\ docs # {}
  /\ LET asked == WithQuery(q)
         new == {d \in docs : ~Fresh(d)}
     IN vectors' = {v \in asked : v.generation # inForce \/ v.item \notin new}
                     \cup {Entry(inForce, d, version[d]) : d \in new}
  /\ compared' = {v \in vectors' : v.generation = inForce /\ v.item \in docs \cup {q}}
  /\ UNCHANGED <<stored, generations, semantic, profile, runtime, inForce, call,
                 version, kills>>

(* The batch fails after the question was embedded: the ranking by words    *)
(* stands, the capability is not touched.                                   *)
RerankFails(q) ==
  /\ Idle /\ semantic = "active" /\ Usable
  /\ vectors' = WithQuery(q)
  /\ UNCHANGED <<stored, generations, semantic, profile, runtime, inForce, call,
                 version, compared, kills>>

(* Faulty: the memory goes on with the generation that was dropped.         *)
StillInForce(g) == g

(* What is in force after a purge.                                          *)
AfterPurge(g) == 0

(* purge_vectors: all tables are dropped; the capability says what it said. *)
Purge ==
  /\ Idle
  /\ vectors' = {} /\ generations' = <<>>
  /\ runtime' = Absent /\ inForce' = AfterPurge(inForce) /\ compared' = {}
  /\ UNCHANGED <<stored, semantic, profile, call, version, kills>>

Next ==
  \/ Open \/ Kill \/ Index \/ IndexFails \/ Indexed \/ Purge
  \/ \E d \in Document : Edit(d)
  \/ \E r \in Memo : Add(r) \/ Forget(r)
  \/ \E k \in {"search", "rerank"} : Activate(k) \/ ActivationFails(k)
  \/ \E q \in Query :
       \/ Search(q) \/ SearchFails(q) \/ RerankFails(q)
       \/ \E docs \in SUBSET Document : Rerank(q, docs)

Spec == Init /\ [][Next]_vars

-----------------------------------------------------------------------------
(* Properties.                                                              *)

(* What an answer compares was made by one model in one space, and of the   *)
(* contents the documents have, across changes of the configuration, kills  *)
(* and purges.                                                              *)
AnswersCompare ==
  /\ \A v, w \in compared : v.origin = w.origin
  /\ \A v \in compared : v.item \in Document => v.hash = version[v.item]

(* As long as search by meaning is offered it reaches every record: a       *)
(* record stored while the provider failed, or when the process was killed  *)
(* before its vector was, is not lost to it.                                *)
SearchReachesAll ==
  semantic = "active" /\ call = Absent /\ inForce # 0 =>
    \A r \in stored : Held(inForce, r) # {}

(* At most one generation is active, and what is in force is it.            *)
OneGeneration ==
  /\ Cardinality({g \in DOMAIN generations : generations[g].status = "active"}) <= 1
  /\ inForce # 0 => /\ inForce \in DOMAIN generations
                    /\ generations[inForce].status = "active"

(* Of a record that was forgotten no vector is left in any generation.      *)
ForgottenIsGone == \A v \in vectors : v.item \in Memo => v.item \in stored
=============================================================================
