------------------------------ MODULE PatchSet ------------------------------
(***************************************************************************)
(* Edits of several files as one: the previews of language servers that    *)
(* are applied and undone as a whole (harness-lsp-patch,                   *)
(* LspPatchCoordinator), on top of the store that keeps one record per     *)
(* file (harness-builtin-tools, PatchStore).  A record is prepared before  *)
(* its file is changed and marked after it; what a killed process left is  *)
(* settled at the next start from the contents of the files.               *)
(*                                                                         *)
(* The project's lock gives one process, and its tools run one at a time:  *)
(* the other actors are the user, who edits or deletes files at any        *)
(* moment, and the kill.  A file or a record is replaced by moving the old *)
(* one away and the new one in, so a kill between the two leaves none.     *)
(* Contents are compared by their hash, and the texts set aside for an     *)
(* undo are never lost.  The file leases, taken and given back by the same *)
(* operation, are left out.                                                *)
(***************************************************************************)
EXTENDS Naturals, SequencesExt

CONSTANTS
  File, Preview,
  FilesOf,      \* FilesOf[p]: the files of a preview, in the order of their paths
  Invocation,   \* tool invocations that apply a preview
  NoInvocation,
  MaxEdit, MaxKill, MaxTear \* bounds on user edits, kills and kills in a replacement

VARIABLES
  content,  \* content[f]: "base", "user", "gone", or the preview whose text it is
  record,   \* record[<<i, f>>]: the record of a patch, or NoRecord
  log,      \* ids of the records, oldest first
  preview,  \* preview[p]: its record, or NoPreview
  op,       \* the operation in progress
  alive,    \* the process is up and past its recovery
  lost,     \* history: ids of records a kill has made away with
  edits, kills, tears

vars == <<content, record, log, preview, op, alive, lost, edits, kills, tears>>

Text == {"base", "user", "gone"} \cup Preview
Id == Invocation \X File

NoRecord == [status |-> "none"]
Record ==
  [status : {"prepared", "applied", "undone", "aborted", "uncertain"},
   before : Text, after : Preview]

NoPreview == [status |-> "none", before |-> [f \in File |-> "gone"], by |-> NoInvocation]

PreviewStatus ==
  {"none", "ready", "applying", "applied", "undoing", "undone", "rolled-back",
   "uncertain"}

(* An operation: where it is, the preview it works on, the files it has     *)
(* still to do at this step, those it has applied, and whether all went     *)
(* well so far.                                                             *)
Idle == [step |-> "idle", of |-> "none", todo |-> <<>>, did |-> {}, ok |-> TRUE]
Step ==
  {"idle", "prepare", "swap", "mark", "back", "back-record", "undo",
   "undo-record", "settle", "settle-record", "latest-record"}

Init ==
  /\ content = [f \in File |-> "base"]
  /\ record = [id \in Id |-> NoRecord]
  /\ log = <<>>
  /\ preview = [p \in Preview |-> NoPreview]
  /\ op = Idle
  /\ alive = TRUE
  /\ lost = {}
  /\ edits = 0
  /\ kills = 0
  /\ tears = 0

Quiet == alive /\ op.step = "idle"
Counts == UNCHANGED <<lost, edits, kills, tears>>

Current == Head(op.todo)
IdOf(p, f) == <<preview[p].by, f>>
CurrentId == IdOf(op.of, Current)

Go(step, p, todo, did, ok) ==
  op' = [step |-> step, of |-> p, todo |-> todo, did |-> did, ok |-> ok]

SetStatus(p, status) == preview' = [preview EXCEPT ![p].status = status]
SetRecord(id, status) == record' = [record EXCEPT ![id].status = status]

-----------------------------------------------------------------------------
(* save_computed: the preview remembers the files it was computed from.     *)
Save(p) ==
  /\ Quiet
  /\ preview[p] = NoPreview
  /\ \A f \in File : content[f] # "gone"
  /\ preview' = [preview EXCEPT ![p] =
                   [status |-> "ready", before |-> content, by |-> NoInvocation]]
  /\ UNCHANGED <<content, record, log, op, alive>>
  /\ Counts

(* apply up to the transition to Applying, by a new invocation or by the    *)
(* one that tried before: the files must be the ones the preview knows.     *)
Apply(p, i) ==
  /\ Quiet
  /\ preview[p].status \in {"ready", "rolled-back", "undone"}
  /\ \A q \in Preview \ {p} : preview[q].by # i
  /\ \A f \in ToSet(FilesOf[p]) : content[f] = preview[p].before[f]
  /\ preview' = [preview EXCEPT ![p].status = "applying", ![p].by = i]
  /\ Go("prepare", p, FilesOf[p], {}, TRUE)
  /\ UNCHANGED <<content, record, log, alive>>
  /\ Counts

(* The members of a list that are in S.                                     *)
Those(list, S) ==
  LET kept[n \in 0..Len(list)] ==
        IF n = 0 THEN <<>>
        ELSE IF list[n] \in S THEN Append(kept[n - 1], list[n]) ELSE kept[n - 1]
  IN kept[Len(list)]

(* The patches to take back, last first: those not applied, then the        *)
(* applied ones.                                                            *)
Touched(files, did) ==
  Reverse(Those(files, File \ did)) \o Reverse(Those(files, did))

Before(f, files) == Those(files, File \ ({f} \cup ToSet(op.todo)))

(* Moves to the next of op.todo, or to step s with files F.                 *)
Onward(s, F, did) ==
  IF Len(op.todo) = 1 THEN Go(s, op.of, F, did, op.ok)
                      ELSE Go(op.step, op.of, Tail(op.todo), did, op.ok)

(* prepare_with_id: a record of an earlier try is used again when it was    *)
(* taken back and says the same.  A file that is gone ends the operation,   *)
(* and leaves the preview applying.                                         *)
Prepare ==
  LET files == FilesOf[op.of]
      fresh == [status |-> "prepared", before |-> content[Current], after |-> op.of]
      old == record[CurrentId]
      usable == \/ old = NoRecord
                \/ old.status \in {"aborted", "undone"} /\ old.before = fresh.before
  IN
  /\ alive /\ op.step = "prepare"
  /\ IF content[Current] = "gone" THEN
       /\ op' = Idle
       /\ UNCHANGED <<record, log>>
     ELSE IF usable THEN
       /\ record' = [record EXCEPT ![CurrentId] = fresh]
       /\ log' = IF Contains(log, CurrentId) THEN log ELSE Append(log, CurrentId)
       /\ Onward("swap", files, {})
     ELSE
       /\ Go("back", op.of, Touched(Before(Current, files), {}), {}, TRUE)
       /\ UNCHANGED <<record, log>>
  /\ UNCHANGED <<content, preview, alive>>
  /\ Counts

(* apply_prepared up to the replacement of the file, which must be what it  *)
(* was when the patch was prepared.                                         *)
Swap ==
  /\ alive /\ op.step = "swap"
  /\ IF record[CurrentId].status = "prepared"
          /\ content[Current] = record[CurrentId].before
       THEN /\ content' = [content EXCEPT ![Current] = op.of]
            /\ op' = [op EXCEPT !.step = "mark"]
       ELSE /\ Go("back", op.of, Touched(FilesOf[op.of], op.did), op.did, TRUE)
            /\ UNCHANGED content
  /\ UNCHANGED <<record, log, preview, alive>>
  /\ Counts

(* mark_applied, which looks at the file again; after the last one the      *)
(* preview is applied.                                                      *)
Mark ==
  /\ alive /\ op.step = "mark"
  /\ IF content[Current] # record[CurrentId].after THEN
       /\ Go("back", op.of, Touched(FilesOf[op.of], op.did), op.did, TRUE)
       /\ UNCHANGED <<record, preview>>
     ELSE
       /\ SetRecord(CurrentId, "applied")
       /\ IF Len(op.todo) = 1
            THEN op' = Idle /\ SetStatus(op.of, "applied")
            ELSE /\ Go("swap", op.of, Tail(op.todo), op.did \cup {Current}, TRUE)
                 /\ UNCHANGED preview
  /\ UNCHANGED <<content, log, alive>>
  /\ Counts

-----------------------------------------------------------------------------
(* The first half of PatchStore::undo: the file is put back if it still is  *)
(* what the patch made it; the record follows in a step of its own.         *)
PutBack(id, f, then) ==
  /\ content[f] = record[id].after
  /\ content' = [content EXCEPT ![f] = record[id].before]
  /\ op' = [op EXCEPT !.step = then]
  /\ UNCHANGED record

Undoable(id, f) == record[id].status = "applied" /\ content[f] = record[id].after

(* abort_prepared *)
Abort(id, f) ==
  /\ record[id].status = "prepared"
  /\ content[f] = record[id].before
  /\ SetRecord(id, "aborted")

(* One patch is done with, for better or worse: the next one, or the end of *)
(* the operation with the status it has earned.                             *)
Done(ok, step, good, bad) ==
  IF Len(op.todo) > 1
    THEN /\ Go(step, op.of, Tail(op.todo), op.did, op.ok /\ ok)
         /\ UNCHANGED preview
    ELSE /\ op' = Idle
         /\ SetStatus(op.of, IF op.ok /\ ok THEN good ELSE bad)

(* abort_or_undo, for an apply that has failed.                             *)
Back ==
  /\ alive /\ op.step = "back"
  /\ IF op.todo = <<>> THEN
       /\ op' = Idle
       /\ SetStatus(op.of, "rolled-back")
       /\ UNCHANGED <<content, record>>
     ELSE
       \/ /\ record[CurrentId].status = "applied"
          /\ PutBack(CurrentId, Current, "back-record")
          /\ UNCHANGED preview
       \/ /\ Abort(CurrentId, Current)
          /\ Done(TRUE, "back", "rolled-back", "uncertain")
          /\ UNCHANGED content
       \/ /\ \/ record[CurrentId].status \in {"none", "uncertain"}
             \/ record[CurrentId].status = "applied"
                  /\ content[Current] # record[CurrentId].after
             \/ record[CurrentId].status = "prepared"
                  /\ content[Current] # record[CurrentId].before
          /\ Done(FALSE, "back", "rolled-back", "uncertain")
          /\ UNCHANGED <<content, record>>
  /\ UNCHANGED <<log, alive>>
  /\ Counts

BackRecord ==
  /\ alive /\ op.step = "back-record"
  /\ SetRecord(CurrentId, "undone")
  /\ Done(TRUE, "back", "rolled-back", "uncertain")
  /\ UNCHANGED <<content, log, alive>>
  /\ Counts

(* undo up to the transition to Undoing: every file must still be what the  *)
(* patches made it.                                                         *)
Undo(p) ==
  /\ Quiet
  /\ preview[p].status = "applied"
  /\ \A f \in ToSet(FilesOf[p]) : Undoable(IdOf(p, f), f)
  /\ SetStatus(p, "undoing")
  /\ Go("undo", p, Reverse(FilesOf[p]), {}, TRUE)
  /\ UNCHANGED <<content, record, log, alive>>
  /\ Counts

(* The first patch that cannot be undone leaves the preview uncertain.      *)
UndoFile ==
  /\ alive /\ op.step = "undo"
  /\ IF Undoable(CurrentId, Current)
       THEN PutBack(CurrentId, Current, "undo-record") /\ UNCHANGED preview
       ELSE /\ op' = Idle
            /\ SetStatus(op.of, "uncertain")
            /\ UNCHANGED <<content, record>>
  /\ UNCHANGED <<log, alive>>
  /\ Counts

UndoRecord ==
  /\ alive /\ op.step = "undo-record"
  /\ SetRecord(CurrentId, "undone")
  /\ Done(TRUE, "undo", "undone", "uncertain")
  /\ UNCHANGED <<content, log, alive>>
  /\ Counts

(* undo_latest, the user's command: the newest applied patch, whatever      *)
(* preview it belongs to.                                                   *)
UndoLatest ==
  LET applied == Those(log, {id \in Id : record[id].status = "applied"})
      id == Last(applied)
  IN
  /\ Quiet
  /\ applied # <<>>
  /\ content[id[2]] = record[id].after
  /\ content' = [content EXCEPT ![id[2]] = record[id].before]
  /\ Go("latest-record", id, <<>>, {}, TRUE)
  /\ UNCHANGED <<record, log, preview, alive>>
  /\ Counts

LatestRecord ==
  /\ alive /\ op.step = "latest-record"
  /\ SetRecord(op.of, "undone")
  /\ op' = Idle
  /\ UNCHANGED <<content, log, preview, alive>>
  /\ Counts

-----------------------------------------------------------------------------
(* Faulty: a prepared patch was not applied. *)
SettledAborted(id) ==
  IF record[id].status = "prepared" THEN [record[id] EXCEPT !.status = "aborted"]
                                    ELSE record[id]

(* reconcile_prepared: the contents tell how far a prepared patch came.     *)
Settled(id) ==
  LET now == content[id[2]]
      status == IF now = record[id].after THEN "applied"
                ELSE IF now = record[id].before THEN "aborted" ELSE "uncertain"
  IN  IF record[id].status = "prepared"
        THEN [record[id] EXCEPT !.status = status] ELSE record[id]

Unsettled ==
  {p \in Preview : preview[p].status \in {"applying", "undoing", "uncertain"}}

(* The start of the process: reconcile_prepared, then the previews that     *)
(* were in the middle of something, one after the other.                    *)
Boot ==
  /\ ~alive /\ op.step = "idle"
  /\ record' = [id \in Id |-> Settled(id)]
  /\ IF Unsettled = {}
       THEN /\ alive' = TRUE
            /\ UNCHANGED op
       ELSE /\ \E p \in Unsettled :
                 Go("settle", p, Reverse(FilesOf[p]), Unsettled \ {p}, TRUE)
            /\ UNCHANGED alive
  /\ UNCHANGED <<content, log, preview>>
  /\ Counts

(* The end of one preview in reconcile: `did' holds those still to come.    *)
SettleDone(ok) ==
  LET good == IF preview[op.of].status = "undoing" THEN "undone" ELSE "rolled-back" IN
  IF Len(op.todo) > 1
    THEN /\ Go("settle", op.of, Tail(op.todo), op.did, op.ok /\ ok)
         /\ UNCHANGED <<preview, alive>>
    ELSE /\ SetStatus(op.of, IF op.ok /\ ok THEN good ELSE "uncertain")
         /\ IF op.did = {}
              THEN op' = Idle /\ alive' = TRUE
              ELSE /\ \E p \in op.did :
                        Go("settle", p, Reverse(FilesOf[p]), op.did \ {p}, TRUE)
                   /\ UNCHANGED alive

(* reconcile, one patch: an applied one is undone, one without a record is  *)
(* passed over.                                                             *)
Settle ==
  /\ op.step = "settle"
  /\ \/ /\ record[CurrentId].status = "applied"
        /\ PutBack(CurrentId, Current, "settle-record")
        /\ UNCHANGED <<preview, alive>>
     \/ /\ \/ record[CurrentId].status = "uncertain"
           \/ record[CurrentId].status = "applied"
                /\ content[Current] # record[CurrentId].after
        /\ SettleDone(FALSE)
        /\ UNCHANGED <<content, record>>
     \/ /\ record[CurrentId].status \in {"none", "aborted", "undone"}
        /\ SettleDone(TRUE)
        /\ UNCHANGED <<content, record>>
  /\ UNCHANGED log
  /\ Counts

SettleRecord ==
  /\ op.step = "settle-record"
  /\ SetRecord(CurrentId, "undone")
  /\ SettleDone(TRUE)
  /\ UNCHANGED <<content, log>>
  /\ Counts

-----------------------------------------------------------------------------
(* The user edits or deletes a file.                                        *)
Edit(f) ==
  /\ edits < MaxEdit
  /\ \E t \in {"base", "user", "gone"} \ {content[f]} : content' = [content EXCEPT ![f] = t]
  /\ edits' = edits + 1
  /\ UNCHANGED <<record, log, preview, op, alive, lost, kills, tears>>

Down == op' = Idle /\ alive' = FALSE /\ kills' = kills + 1

Kill ==
  /\ kills < MaxKill
  /\ alive \/ op.step # "idle"
  /\ Down
  /\ UNCHANGED <<content, record, log, preview, lost, edits, tears>>

(* Killed between the two moves of replace_file, at a file or at a record.  *)
KillInSwap ==
  /\ kills < MaxKill /\ tears < MaxTear
  /\ op.step = "swap"
  /\ record[CurrentId].status = "prepared"
  /\ content[Current] = record[CurrentId].before
  /\ content' = [content EXCEPT ![Current] = "gone"]
  /\ tears' = tears + 1
  /\ Down
  /\ UNCHANGED <<record, log, preview, lost, edits>>

KillInRecord ==
  /\ kills < MaxKill /\ tears < MaxTear
  /\ op.step \in {"mark", "back-record", "undo-record", "settle-record"}
  /\ record' = [record EXCEPT ![CurrentId] = NoRecord]
  /\ lost' = lost \cup {CurrentId}
  /\ tears' = tears + 1
  /\ Down
  /\ UNCHANGED <<content, log, preview, edits>>

Next ==
  \/ \E p \in Preview : Save(p) \/ Undo(p)
  \/ \E p \in Preview, i \in Invocation : Apply(p, i)
  \/ Prepare \/ Swap \/ Mark \/ Back \/ BackRecord
  \/ UndoFile \/ UndoRecord \/ UndoLatest \/ LatestRecord
  \/ Boot \/ Settle \/ SettleRecord
  \/ \E f \in File : Edit(f)
  \/ Kill \/ KillInSwap \/ KillInRecord

Spec == Init /\ [][Next]_vars

-----------------------------------------------------------------------------
TypeOK ==
  /\ content \in [File -> Text]
  /\ record \in [Id -> Record \cup {NoRecord}]
  /\ ToSet(log) \subseteq Id
  /\ preview \in [Preview -> [status : PreviewStatus, before : [File -> Text],
                              by : Invocation \cup {NoInvocation}]]
  /\ op.step \in Step
  /\ alive \in BOOLEAN
  /\ lost \subseteq Id

(* A preview that is said to be rolled back or undone has left none of its  *)
(* text in the files, whatever the user did to them, wherever the process   *)
(* was killed, and with other previews applied and undone in between.  The  *)
(* only exception is a file whose record went with a kill.                  *)
PatchIsWhole ==
  \A p \in Preview : preview[p].status \in {"rolled-back", "undone"} =>
    \A f \in ToSet(FilesOf[p]) : content[f] = p => IdOf(p, f) \in lost
=============================================================================
