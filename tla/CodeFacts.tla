----------------------------- MODULE CodeFacts -----------------------------
(***************************************************************************)
(* What the program knows of the project's source files: the documents a   *)
(* language server was shown (harness-lsp, LspSession), the repository     *)
(* index and the facts of the server kept in it (harness-memory,           *)
(* RepositoryIndex), and the changes a server computes (rename, code       *)
(* action).                                                                *)
(*                                                                         *)
(* The calls come from one thread; the user's editor changes files at any  *)
(* moment, and the server publishes diagnostics when it is ready.  A text  *)
(* stands for its hash too.  The server is external: it works on the text  *)
(* it was last sent, handles messages in their order, and publishes the    *)
(* diagnostics of a version at most once.  Positions, their encodings and  *)
(* the ranking of results are left out.  A write always changes the size   *)
(* or the modification time of the file; `stamp' stands for both.          *)
(***************************************************************************)
EXTENDS Integers, Sequences, FiniteSets

CONSTANTS
  File,      \* source files of the project
  Body,      \* texts a file may have
  Gone,      \* no such file
  Unfit,     \* a file that is too large or not UTF-8
  Nothing,   \* no row, no fact, no call
  MaxWrite,  \* bound on the changes of files
  MaxKill    \* bound on the kills of the process

VARIABLES
  disk,      \* what each file has
  stamp,     \* how often it was changed
  documents, \* texts the session has sent the server of each file, in order
  published, \* version of the last diagnostics the server has published
  cached,    \* version of those the session keeps (LspSession::diagnostics)
  call,      \* the tool call that is under way, see Question
  facts,     \* facts of the index, by kind and file, see Fact
  edit,      \* the last computed workspace edit, see Edit
  rows,      \* rows of the index, see Row
  update,    \* the update of the index, see Update
  settled,   \* history: nothing was written since the last update began,
             \*          and it has ended
  searched,  \* history: nothing was written since the last search
  kills

sessionVars == <<documents, published, cached>>
indexVars == <<facts, rows>>
vars == <<disk, stamp, sessionVars, call, edit, indexVars, update, settled,
          searched, kills>>

Content == Body \cup {Gone, Unfit}

Kind == {"symbols", "diagnostics"}

(* `of' is the text the server spoke of, Nothing when it had said nothing   *)
(* in time; `hash' the text the facts are labelled with; `raced' that the   *)
(* file was changed during the call.                                        *)
Question == [kind: Kind \cup {"edit"}, file: File, other: File,
         phase: {"asked", "answered", "labelled"},
         of: Body \cup {Nothing}, hash: Body \cup {Nothing}, raced: BOOLEAN]

(* A row of repository_lsp_symbols or repository_lsp_diagnostics: the hash  *)
(* it is bound to and the text it is true of.                               *)
Fact == [bound: Body, of: Body]

Edit == [before: Body, of: Body, raced: BOOLEAN, source: BOOLEAN]

Row == [text: Body, stamp: 0..MaxWrite]

(* The files still to be looked at, those the listing saw, and the file     *)
(* being read, with the stamp it had and the text that was read.            *)
Update == [todo: SUBSET File, seen: SUBSET File, file: File \cup {Nothing},
           stamp: 0..MaxWrite, text: Body \cup {Unfit, Nothing}]

None == [f \in File |-> Nothing]
Newest(f) == documents[f][Len(documents[f])]

TypeOK ==
  /\ disk \in [File -> Content] /\ stamp \in [File -> 0..MaxWrite]
  /\ \A f \in File :
       /\ documents[f] \in Seq(Body)
       /\ cached[f] \in 0..published[f] /\ published[f] \in 0..Len(documents[f])
  /\ call \in Question \cup {Nothing}
  /\ facts \in [Kind \X File -> Fact \cup {Nothing}]
  /\ edit \in Edit \cup {Nothing}
  /\ rows \in [File -> Row \cup {Nothing}]
  /\ update \in Update \cup {Nothing}
  /\ settled \in BOOLEAN /\ searched \in BOOLEAN /\ kills \in 0..MaxKill

Init ==
  /\ disk \in [File -> Body] /\ stamp = [f \in File |-> 0]
  /\ documents = [f \in File |-> <<>>]
  /\ published = [f \in File |-> 0] /\ cached = [f \in File |-> 0]
  /\ call = Nothing /\ edit = Nothing
  /\ facts = [k \in Kind \X File |-> Nothing]
  /\ rows = None /\ update = Nothing
  /\ settled = FALSE /\ searched = FALSE /\ kills = 0

-----------------------------------------------------------------------------
(* The surroundings.                                                        *)

(* The user, or a tool, writes or removes a file.                           *)
Write(f, c) ==
  /\ stamp[f] < MaxWrite /\ c # disk[f]
  /\ disk' = [disk EXCEPT ![f] = c]
  /\ stamp' = [stamp EXCEPT ![f] = @ + 1]
  /\ settled' = FALSE /\ searched' = FALSE
  /\ call' = IF call # Nothing THEN [call EXCEPT !.raced = TRUE] ELSE Nothing
  /\ UNCHANGED <<sessionVars, edit, indexVars, update, kills>>

(* The server publishes the diagnostics of a version it has got.            *)
Publish(f, v) ==
  /\ v \in published[f] + 1 .. Len(documents[f])
  /\ published' = [published EXCEPT ![f] = v]
  /\ UNCHANGED <<disk, stamp, documents, cached, call, edit, indexVars, update,
                 settled, searched, kills>>

Kill ==
  /\ kills < MaxKill /\ kills' = kills + 1
  /\ documents' = [f \in File |-> <<>>]
  /\ published' = [f \in File |-> 0] /\ cached' = [f \in File |-> 0]
  /\ call' = Nothing /\ edit' = Nothing /\ update' = Nothing
  /\ settled' = (settled /\ update = Nothing)
  /\ UNCHANGED <<disk, stamp, indexVars, searched>>

-----------------------------------------------------------------------------
(* The language server's session.                                           *)

(* Faulty: a file that is open is not sent again.                           *)
SyncedOnce(f) ==
  IF documents[f] = <<>> THEN <<disk[f]>> ELSE documents[f]

(* What the server has been sent of the file after sync_document: didOpen   *)
(* with the whole text, nothing when the hash is the same, or didChange     *)
(* with the whole text and the next version.                                *)
Synced(f) ==
  IF documents[f] # <<>> /\ Newest(f) = disk[f] THEN documents[f]
  ELSE Append(documents[f], disk[f])

(* A call begins by showing the server the file; one that cannot be read    *)
(* fails the call.  `g' is another file the answer may be about.            *)
Ask(k, f, g) ==
  /\ call = Nothing /\ update = Nothing
  /\ disk[f] \in Body
  /\ documents' = [documents EXCEPT ![f] = Synced(f)]
  /\ call' = [kind |-> k, file |-> f, other |-> g, phase |-> "asked",
              of |-> Nothing, hash |-> Nothing, raced |-> FALSE]
  /\ UNCHANGED <<disk, stamp, published, cached, edit, indexVars, update,
                 settled, searched, kills>>

(* document_symbols: the server has answered, and the notifications that    *)
(* have come are drained.                                                   *)
Symbols ==
  /\ call # Nothing /\ call.kind = "symbols" /\ call.phase = "asked"
  /\ call' = [call EXCEPT !.phase = "answered", !.of = Newest(call.file)]
  /\ cached' = published
  /\ UNCHANGED <<disk, stamp, documents, published, edit, indexVars, update,
                 settled, searched, kills>>

(* diagnostics: whatever the session keeps for the file is the answer, of   *)
(* which version it may be; it waits only when it keeps none, and an empty  *)
(* list is the answer when none comes in time.                              *)
Diagnostics ==
  /\ call # Nothing /\ call.kind = "diagnostics" /\ call.phase = "asked"
  /\ cached' = published
  /\ call' = [call EXCEPT
       !.phase = "answered",
       !.of = IF cached'[call.file] = 0 THEN Nothing
              ELSE documents[call.file][cached'[call.file]]]
  /\ UNCHANGED <<disk, stamp, documents, published, edit, indexVars, update,
                 settled, searched, kills>>

(* The tool labels the facts with the session's entry (document_snapshot).  *)
Label ==
  /\ call # Nothing /\ call.kind \in Kind /\ call.phase = "answered"
  /\ call' = [call EXCEPT !.phase = "labelled", !.hash = Newest(call.file)]
  /\ UNCHANGED <<disk, stamp, sessionVars, edit, indexVars, update, settled,
                 searched, kills>>

(* A call ends without an answer: an error of the server, a time-out, a     *)
(* cancellation, a file that is gone.                                       *)
Drop ==
  /\ call # Nothing
  /\ call' = Nothing
  /\ UNCHANGED <<disk, stamp, sessionVars, edit, indexVars, update, settled,
                 searched, kills>>

(* The text an edit of `f' was made for: the server's own when the file is  *)
(* open, else the file it read itself, which may be any it had during the   *)
(* call.                                                                    *)
MadeFor(f) == IF documents[f] # <<>> THEN {Newest(f)} ELSE Body \cap {disk[f]}

(* rename and code action: the answer's edits are applied to the text the   *)
(* file has now.  A version the server names is compared with the session's *)
(* entry, which only this thread changes.                                   *)
Compute(f) ==
  /\ call # Nothing /\ call.kind = "edit" /\ call.phase = "asked"
  /\ f \in {call.file, call.other} /\ disk[f] \in Body
  /\ \E t \in MadeFor(f) :
       edit' = [before |-> disk[f], of |-> t, raced |-> call.raced,
                source |-> f = call.file]
  /\ call' = Nothing
  /\ UNCHANGED <<disk, stamp, sessionVars, indexVars, update, settled, searched,
                 kills>>

(* The session ends with its server.                                        *)
StopServer ==
  /\ call = Nothing
  /\ documents' = [f \in File |-> <<>>]
  /\ published' = [f \in File |-> 0] /\ cached' = [f \in File |-> 0]
  /\ UNCHANGED <<disk, stamp, call, edit, indexVars, update, settled, searched,
                 kills>>

-----------------------------------------------------------------------------
(* The repository index.                                                    *)

(* Faulty: the expected hash is not compared.                               *)
BoundBlindly(f) == IF disk[f] \in Body THEN {disk[f]} ELSE {}

(* The hash facts are bound to: the file's present one, and the expected    *)
(* one must be the same.                                                    *)
Binding(f) == {t \in Body : t = disk[f] /\ t = call.hash}

(* record_lsp_tool_fact and ingest_lsp_facts: the facts of the server for   *)
(* this file are replaced, unless the file has another hash by now.         *)
Ingest ==
  /\ call # Nothing /\ call.phase = "labelled"
  /\ facts' = [facts EXCEPT ![<<call.kind, call.file>>] =
       IF Binding(call.file) = {} THEN @
       ELSE IF call.of = Nothing THEN Nothing
       ELSE [bound |-> CHOOSE t \in Binding(call.file) : TRUE, of |-> call.of]]
  /\ call' = Nothing
  /\ UNCHANGED <<disk, stamp, sessionVars, edit, rows, update, settled, searched,
                 kills>>

(* Faulty: the facts of files that are gone are kept.                       *)
KeepOrphans(k, f) ==
  IF facts[<<k, f>>] # Nothing /\ disk[f] \in Body /\ facts[<<k, f>>].bound # disk[f]
  THEN Nothing ELSE facts[<<k, f>>]

(* What prune_stale_lsp_facts leaves.                                       *)
Pruned(k, f) ==
  IF facts[<<k, f>>] # Nothing /\ facts[<<k, f>>].bound # disk[f] THEN Nothing
  ELSE facts[<<k, f>>]

(* search: facts bound to another text are removed first.                   *)
Search ==
  /\ call = Nothing /\ update = Nothing
  /\ facts' = [k \in Kind \X File |-> Pruned(k[1], k[2])]
  /\ searched' = TRUE
  /\ UNCHANGED <<disk, stamp, sessionVars, call, edit, rows, update, settled, kills>>

BeginUpdate ==
  /\ update = Nothing /\ call = Nothing
  /\ LET files == {f \in File : disk[f] # Gone}
     IN update' = [todo |-> files, seen |-> files, file |-> Nothing, stamp |-> 0,
                   text |-> Nothing]
  /\ settled' = TRUE
  /\ UNCHANGED <<disk, stamp, sessionVars, call, edit, indexVars, searched, kills>>

(* A file is looked at: one whose size and time are those of its row is     *)
(* passed over, a vanished one fails the update.                            *)
Stat(f) ==
  /\ update # Nothing /\ update.file = Nothing /\ f \in update.todo
  /\ IF disk[f] = Gone THEN update' = Nothing /\ settled' = FALSE
     ELSE /\ UNCHANGED settled
          /\ update' =
               IF rows[f] # Nothing /\ rows[f].stamp = stamp[f]
               THEN [update EXCEPT !.todo = @ \ {f}]
               ELSE [update EXCEPT !.todo = @ \ {f}, !.file = f,
                                   !.stamp = stamp[f]]
  /\ UNCHANGED <<disk, stamp, sessionVars, call, edit, indexVars, searched, kills>>

ReadFile ==
  /\ update # Nothing /\ update.file # Nothing /\ update.text = Nothing
  /\ update' = IF disk[update.file] = Gone THEN Nothing
               ELSE [update EXCEPT !.text = disk[update.file]]
  /\ settled' = (settled /\ disk[update.file] # Gone)
  /\ UNCHANGED <<disk, stamp, sessionVars, call, edit, indexVars, searched, kills>>

(* Faulty: the time of the file is taken when the row is stored.            *)
StampedLate(f) == [text |-> update.text, stamp |-> stamp[f]]

(* The row of the text read, with the time taken before it was read.        *)
Stamped(f) == [text |-> update.text, stamp |-> update.stamp]

(* In one transaction the row is replaced and the facts of other texts are  *)
(* removed; if the hash is that of the row, only size and time are stored.  *)
(* A file that is too large or no text is passed over: its row stays.       *)
Store ==
  /\ update # Nothing /\ update.text # Nothing
  /\ LET known == rows[update.file] # Nothing /\ rows[update.file].text = update.text
     IN IF update.text = Unfit THEN UNCHANGED indexVars
        ELSE /\ rows' = [rows EXCEPT ![update.file] = Stamped(update.file)]
             /\ facts' = [k \in Kind \X File |->
                  IF k[2] = update.file /\ ~known /\ facts[k] # Nothing
                     /\ facts[k].bound # update.text
                  THEN Nothing ELSE facts[k]]
  /\ update' = [update EXCEPT !.file = Nothing, !.text = Nothing]
  /\ UNCHANGED <<disk, stamp, sessionVars, call, edit, settled, searched, kills>>

(* Faulty: rows of files that are gone are kept.                            *)
KeepRows(seen) == rows

(* The rows of the files that were not seen are removed.                    *)
Swept(seen) == [f \in File |-> IF f \in seen THEN rows[f] ELSE Nothing]

EndUpdate ==
  /\ update # Nothing /\ update.file = Nothing /\ update.todo = {}
  /\ rows' = Swept(update.seen)
  /\ facts' = [k \in Kind \X File |->
       IF k[2] \in update.seen \/ rows[k[2]] = Nothing THEN facts[k] ELSE Nothing]
  /\ update' = Nothing
  /\ UNCHANGED <<disk, stamp, sessionVars, call, edit, settled, searched, kills>>

(* /index clear.                                                            *)
Clear ==
  /\ update = Nothing /\ call = Nothing
  /\ rows' = None /\ facts' = [k \in Kind \X File |-> Nothing]
  /\ settled' = FALSE
  /\ UNCHANGED <<disk, stamp, sessionVars, call, edit, update, searched, kills>>

Next ==
  \/ \E f \in File, c \in Content : Write(f, c)
  \/ \E f \in File, v \in 1..MaxWrite + 1 : Publish(f, v)
  \/ Kill
  \/ \E k \in Kind, f \in File : Ask(k, f, f)
  \/ \E f, g \in File : Ask("edit", f, g)
  \/ Symbols \/ Diagnostics \/ Label \/ Ingest \/ Drop \/ StopServer
  \/ \E f \in File : Compute(f) \/ Stat(f)
  \/ Search \/ BeginUpdate \/ ReadFile \/ Store \/ EndUpdate \/ Clear

Spec == Init /\ [][Next]_vars

-----------------------------------------------------------------------------
(* Properties.                                                              *)

(* The symbols of a file in the index are those of the text they are bound  *)
(* to, although the file may change at every point of the call.  (Of the    *)
(* diagnostics this does not hold: those of an earlier text are labelled    *)
(* with the present one.)                                                   *)
SymbolsFit ==
  \A f \in File : LET it == facts[<<"symbols", f>>]
                 IN it # Nothing => it.of = it.bound

(* What a search ranks by are facts of the texts the files have.            *)
FoundFactsAreCurrent ==
  searched => \A f \in File, k \in Kind :
                facts[<<k, f>>] # Nothing => facts[<<k, f>>].bound = disk[f]

(* The edits of the file a change was asked for are applied to the text     *)
(* they were made for, unless the file was changed during the call.         *)
EditFits ==
  edit # Nothing /\ edit.source /\ ~edit.raced => edit.before = edit.of

(* After an update during which nothing was written the index has every     *)
(* file's text, and no file that is gone, whatever was written during       *)
(* earlier updates and whenever those were killed.                          *)
IndexCatchesUp ==
  settled /\ update = Nothing =>
    \A f \in File :
      /\ disk[f] \in Body => rows[f] # Nothing /\ rows[f].text = disk[f]
      /\ disk[f] = Gone => rows[f] = Nothing
=============================================================================
