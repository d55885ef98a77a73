---------------------------- MODULE StateRestore ----------------------------
(***************************************************************************)
(* The restore of a backup over the databases of a project (harness-       *)
(* storage, maintenance.rs): both sides are copied aside, a journal is     *)
(* written, the files are swapped, the journal is turned to committed and  *)
(* everything set aside is removed.  Whoever takes the project lock first  *)
(* finishes or undoes what a killed process left.                          *)
(*                                                                         *)
(* The lock is the operating system's, so there is one owner at a time and *)
(* its death is the only interleaving.  Each step is one change of the     *)
(* file system that survives a killed process; a copied file is there in   *)
(* part before it is there whole.  Loops over files take them in any       *)
(* order.  The backup has been verified, and the recovery point written,   *)
(* before the first step: neither changes what is modelled.                *)
(***************************************************************************)
EXTENDS Naturals

CONSTANTS
  File,       \* names of databases and their sidecar files
  Present,    \* the files the project has in the beginning
  Backup,     \* the files of the backup
  MaxRestore, \* bound on restores
  MaxFault    \* bound on kills and failed swaps

VARIABLES
  db,        \* db[f]: "none", "torn" (copied in part), "old" or "new"
  stage,     \* files copied from the backup
  aside,     \* aside[f]: the copy of f in the rollback directory, or "none"
  journal,   \* phase in the journal: "none", "swapping", "committed"
  draft,     \* phase in the journal's .new file
  names,     \* original_files in the journal
  step,      \* where the owner of the lock is; "closed" without an owner
  todo,      \* the files the present loop has still to treat
  before,    \* history: db when the last restore began
  restores, faults

disk == <<db, stage, aside, journal, draft, names>>
vars == <<disk, step, todo, before, restores, faults>>

Content == {"none", "torn", "old", "new"}
Nothing == [f \in File |-> "none"]
Existing(d) == {f \in File : d[f] # "none"}
Target == [f \in File |-> IF f \in Backup THEN "new" ELSE "none"]

Init ==
  /\ db = [f \in File |-> IF f \in Present THEN "old" ELSE "none"]
  /\ stage = {}
  /\ aside = Nothing
  /\ journal = "none"
  /\ draft = "none"
  /\ names = {}
  /\ step = "closed"
  /\ todo = {}
  /\ before = db
  /\ restores = 0
  /\ faults = 0

Goto(s, files) == step' = s /\ todo' = files
Kept == UNCHANGED <<before, restores, faults>>

(* One pass of a loop over `todo', which ends at step s with files F.      *)
Each(f, s, F) ==
  /\ f \in todo
  /\ IF todo = {f} THEN Goto(s, F) ELSE Goto(step, todo \ {f})

-----------------------------------------------------------------------------
(* Faulty: what a killed process left is taken for finished. *)
AcquireFinished ==
  /\ step = "closed"
  /\ Goto("clean-stage", {})
  /\ UNCHANGED disk
  /\ Kept

(* ProjectStateLock::acquire with recover_interrupted_restore              *)
Acquire ==
  /\ step = "closed"
  /\ CASE journal = "none" -> Goto("sweep-stage", {})
       [] journal = "swapping" -> Goto("undo-remove", names \cup Backup)
       [] journal = "committed" -> Goto("clean-stage", {})
  /\ UNCHANGED disk
  /\ Kept

(* Without a journal the two directories are leftovers.                    *)
SweepStage ==
  /\ step = "sweep-stage"
  /\ stage' = {}
  /\ Goto("sweep-aside", Existing(aside))
  /\ UNCHANGED <<db, aside, journal, draft, names>>
  /\ Kept

SweepAside ==
  /\ step = "sweep-aside"
  /\ aside' = Nothing
  /\ Goto("open", {})
  /\ UNCHANGED <<db, stage, journal, draft, names>>
  /\ Kept

Release ==
  /\ step = "open"
  /\ Goto("closed", {})
  /\ UNCHANGED disk
  /\ Kept

-----------------------------------------------------------------------------
(* restore_backup: both directories are made anew, then filled.            *)
Begin ==
  /\ step = "open"
  /\ restores < MaxRestore
  /\ restores' = restores + 1
  /\ before' = db
  /\ stage' = {}
  /\ aside' = Nothing
  /\ names' = Existing(db)
  /\ Goto("stage", Backup)
  /\ UNCHANGED <<db, journal, draft, faults>>

Stage(f) ==
  /\ step = "stage"
  /\ stage' = stage \cup {f}
  /\ IF todo = {f} /\ names = {}
     THEN f \in todo /\ Goto("journal", {})
     ELSE Each(f, "set-aside", names)
  /\ UNCHANGED <<db, aside, journal, draft, names>>
  /\ Kept

(* Faulty: only what the backup replaces is set aside. *)
SetAsideReplaced(f) ==
  /\ step = "set-aside"
  /\ aside' = IF f \in Backup THEN [aside EXCEPT ![f] = db[f]] ELSE aside
  /\ Each(f, "journal", {})
  /\ UNCHANGED <<db, stage, journal, draft, names>>
  /\ Kept

SetAside(f) ==
  /\ step = "set-aside"
  /\ aside' = [aside EXCEPT ![f] = db[f]]
  /\ Each(f, "journal", {})
  /\ UNCHANGED <<db, stage, journal, draft, names>>
  /\ Kept

(* write_restore_transaction writes the .new file, which must not exist,   *)
(* removes the journal there is and renames the file.                      *)
WriteDraft(from, phase, to) ==
  /\ step = from
  /\ IF draft = "none"
     THEN draft' = phase /\ Goto(to, {})
     ELSE Goto("closed", {}) /\ UNCHANGED draft
  /\ UNCHANGED <<db, stage, aside, journal, names>>
  /\ Kept

Publish(from, to, files) ==
  /\ step = from
  /\ journal' = draft
  /\ draft' = "none"
  /\ Goto(to, files)
  /\ UNCHANGED <<db, stage, aside, names>>
  /\ Kept

(* Faulty: the files are swapped and no journal says so. *)
JournalLate ==
  /\ step = "journal"
  /\ Goto("remove", names \cup Backup)
  /\ UNCHANGED disk
  /\ Kept

Journal == WriteDraft("journal", "swapping", "publish")

PublishSwapping == Publish("publish", "remove", names \cup Backup)

Remove(f) ==
  /\ step = "remove"
  /\ db' = [db EXCEPT ![f] = "none"]
  /\ Each(f, "install", Backup)
  /\ UNCHANGED <<stage, aside, journal, draft, names>>
  /\ Kept

Install(f) ==
  /\ step = "install"
  /\ db' = [db EXCEPT ![f] = "new"]
  /\ stage' = stage \ {f}
  /\ Each(f, "commit", {})
  /\ UNCHANGED <<aside, journal, draft, names>>
  /\ Kept

(* A file cannot be removed, moved or verified: the swap is undone at once.*)
SwapFails ==
  /\ step \in {"remove", "install"}
  /\ faults < MaxFault
  /\ faults' = faults + 1
  /\ Goto("undo-remove", names \cup Backup)
  /\ UNCHANGED <<disk, before, restores>>

Commit == WriteDraft("commit", "committed", "drop-journal")

DropJournal ==
  /\ step = "drop-journal"
  /\ journal' = "none"
  /\ Goto("publish-committed", {})
  /\ UNCHANGED <<db, stage, aside, draft, names>>
  /\ Kept

PublishCommitted == Publish("publish-committed", "clean-stage", {})

-----------------------------------------------------------------------------
(* rollback_interrupted_restore                                            *)
UndoRemove(f) ==
  /\ step = "undo-remove"
  /\ db' = [db EXCEPT ![f] = "none"]
  /\ IF todo = {f} /\ names = {}
     THEN f \in todo /\ Goto("clean-stage", {})
     ELSE Each(f, "undo-copy", names)
  /\ UNCHANGED <<stage, aside, journal, draft, names>>
  /\ Kept

UndoTear(f) ==
  /\ step = "undo-copy"
  /\ f \in todo
  /\ \A g \in todo : db[g] # "torn"
  /\ aside[f] # "none"
  /\ db' = [db EXCEPT ![f] = "torn"]
  /\ UNCHANGED <<stage, aside, journal, draft, names, step, todo>>
  /\ Kept

UndoCopy(f) ==
  /\ step = "undo-copy"
  /\ db[f] = "torn"
  /\ db' = [db EXCEPT ![f] = aside[f]]
  /\ Each(f, "clean-stage", {})
  /\ UNCHANGED <<stage, aside, journal, draft, names>>
  /\ Kept

(* A copy that should be set aside is missing: the lock is not granted.    *)
UndoFails(f) ==
  /\ step = "undo-copy"
  /\ f \in todo
  /\ \A g \in todo : db[g] # "torn"
  /\ aside[f] = "none"
  /\ Goto("closed", {})
  /\ UNCHANGED disk
  /\ Kept

-----------------------------------------------------------------------------
(* cleanup_restore_transaction: the directories, the journal, its draft.   *)
CleanStage ==
  /\ step = "clean-stage"
  /\ stage' = {}
  /\ Goto("clean-aside", Existing(aside))
  /\ UNCHANGED <<db, aside, journal, draft, names>>
  /\ Kept

(* remove_dir_all takes the files one by one.                              *)
CleanAside ==
  /\ step = "clean-aside"
  /\ IF todo = {}
     THEN Goto("clean-journal", {}) /\ UNCHANGED aside
     ELSE \E f \in todo :
            /\ aside' = [aside EXCEPT ![f] = "none"]
            /\ Goto(step, todo \ {f})
  /\ UNCHANGED <<db, stage, journal, draft, names>>
  /\ Kept

CleanJournal ==
  /\ step = "clean-journal"
  /\ journal' = "none"
  /\ Goto("clean-draft", {})
  /\ UNCHANGED <<db, stage, aside, draft, names>>
  /\ Kept

CleanDraft ==
  /\ step = "clean-draft"
  /\ draft' = "none"
  /\ Goto("open", {})
  /\ UNCHANGED <<db, stage, aside, journal, names>>
  /\ Kept

(* The process is killed and the lock falls.                               *)
Kill ==
  /\ step # "closed"
  /\ faults < MaxFault
  /\ faults' = faults + 1
  /\ Goto("closed", {})
  /\ UNCHANGED <<disk, before, restores>>

Owner ==
  \/ SweepStage \/ SweepAside
  \/ Journal \/ PublishSwapping \/ Commit \/ DropJournal \/ PublishCommitted
  \/ CleanStage \/ CleanAside \/ CleanJournal \/ CleanDraft
  \/ \E f \in File :
       \/ Stage(f) \/ SetAside(f) \/ Remove(f) \/ Install(f)
       \/ UndoRemove(f) \/ UndoTear(f) \/ UndoCopy(f) \/ UndoFails(f)

Next == Acquire \/ Release \/ Begin \/ Owner \/ SwapFails \/ Kill

(* The owner goes on, and the project is opened again.                     *)
Spec == Init /\ [][Next]_vars /\ WF_vars(Owner) /\ WF_vars(Acquire)

-----------------------------------------------------------------------------
TypeOK ==
  /\ db \in [File -> Content]
  /\ stage \subseteq Backup
  /\ aside \in [File -> {"none", "old", "new"}]
  /\ {journal, draft} \subseteq {"none", "swapping", "committed"}
  /\ names \subseteq File
  /\ todo \subseteq File
  /\ before \in [File -> Content]
  /\ restores \in 0..MaxRestore
  /\ faults \in 0..MaxFault

(* At every moment of a restore, its recovery included, one of the two     *)
(* sides can still be had whole: the databases are as they were, or as in  *)
(* the backup, or the journal says that the copies set aside are put back  *)
(* and all of them are there.                                              *)
OldOrNewSurvives ==
  \/ db = before
  \/ db = Target
  \/ /\ journal = "swapping"
     /\ names = Existing(before)
     /\ \A f \in names : aside[f] = before[f]

(* Who opens the project finds one of the two sides and no journal.        *)
OpenIsWhole == step = "open" => db \in {before, Target} /\ journal = "none"

(* A fault does not shut the project: after each one it can be opened.     *)
ProjectOpens == step = "closed" ~> step = "open"
=============================================================================
