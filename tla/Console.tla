------------------------------- MODULE Console -------------------------------
(* The terminal of the program: the loop that reads keys or lines           *)
(* (run_tui of harness-terminal, run_plain_loop of bins/harness) over the   *)
(* backend that answers them (AppBackend), which may have lent the          *)
(* application to a thread in the background.                               *)
(*                                                                          *)
(* A single task and the continuation of an approved tool take the          *)
(* application with them; until they are done a use of it would end the     *)
(* process.  A team leaves it, and its waves are settled by the loop.       *)
(*                                                                          *)
(* Simplifications: of the commands, one stands for all that look at or     *)
(* change the application and are refused or not by the same guards; the    *)
(* questions a command may ask are of two kinds, those asked at any time    *)
(* and those refused while a team works.  What a task or a wave does is in  *)
(* module TaskDrive.                                                        *)
EXTENDS Integers

CONSTANT
  MaxFault   \* bound: shutdowns that fail because the browser does not close

VARIABLES
  loop,       \* "tui", "plain", "ending" (no more input), or "over"
  work,       \* what is in the background: "none", "task", "approval", "team"
  worker,     \* its thread: "running" or "done"
  lent,       \* whether the application is away
  cancelled,  \* whether it was told to stop
  busy,       \* whether the mission has running nodes
  resume,     \* a continuation the application holds ready
  prompt,     \* the question the loop shows
  setup,      \* the question the backend has open
  typed,      \* whether there is text in the composer
  armed,      \* whether another Ctrl-C ends the program
  leaving,    \* the user only wants to leave
  panicked,   \* the application was used while it was away
  faults

background == <<work, worker, lent, cancelled, resume>>
screen == <<prompt, setup, typed, armed>>
consoleVars == <<loop, background, busy, screen, leaving, panicked, faults>>

Single == {"task", "approval"}
Question == {"any time", "not with a team"}
Reading == loop \in {"tui", "plain"}

Init ==
  /\ loop \in {"tui", "plain"}
  /\ work = "none" /\ worker = "done"
  /\ lent = FALSE /\ cancelled = FALSE /\ busy = FALSE /\ resume = FALSE
  /\ prompt = "none" /\ setup = "none" /\ typed = FALSE /\ armed = FALSE
  /\ leaving = FALSE /\ panicked = FALSE /\ faults = 0

(* The application is used.                                                 *)
Use == panicked' = (panicked \/ lent)
Unused == UNCHANGED panicked

(***************************************************************************)
(* Work in the background                                                  *)
(***************************************************************************)
Launch(kind) ==
  /\ work' = kind /\ worker' = "running" /\ lent' = (kind \in Single)
  /\ cancelled' = FALSE /\ busy' = TRUE

(* A single task or an approval is started only when nothing else is.       *)
StartSingle(kind) ==
  IF work # "none" THEN UNCHANGED <<background, busy>> /\ Unused
  ELSE Launch(kind) /\ Use /\ UNCHANGED resume

(* A team, which may be refused.                                            *)
StartTeam ==
  IF work = "team" THEN UNCHANGED <<background, busy>> /\ Unused
  ELSE /\ Use
       /\ \/ Launch("team") /\ UNCHANGED resume
          \/ UNCHANGED <<background, busy>>

(* The thread ends: by itself, or as it was told to.                        *)
WorkerEnds ==
  /\ work # "none" /\ worker = "running" /\ worker' = "done"
  /\ resume' \in (IF work = "approval" THEN BOOLEAN ELSE {resume})
  /\ UNCHANGED <<loop, work, lent, cancelled, busy, screen, leaving, panicked, faults>>

(* What was in the background is gone, and its mission may go on.           *)
Collected ==
  /\ work' = "none" /\ worker' = "done" /\ lent' = FALSE /\ cancelled' = FALSE
  /\ busy' \in BOOLEAN

(* The application comes back, and a continuation it holds is launched.     *)
CollectSingle ==
  /\ work \in Single /\ Unused
  /\ \/ work = "approval" /\ resume /\ Launch("team") /\ resume' = FALSE
     \/ Collected /\ UNCHANGED resume

(* Faulty: the next wave is launched although the team was told to stop. *)
CollectAndGoOn ==
  /\ work = "team" /\ Use /\ UNCHANGED resume
  /\ \/ Launch("team")
     \/ Collected

(* A wave is settled, and the next one launched unless it was told to stop. *)
CollectTeam ==
  /\ work = "team" /\ Use /\ UNCHANGED resume
  /\ \/ ~cancelled /\ Launch("team")
     \/ Collected /\ (cancelled => ~busy')

(* The response is shown, and with it the question it asks: none.           *)
Shown(kept) == prompt' = IF kept THEN prompt ELSE "none"

(* Faulty: titles are looked after whether or not the application is there. *)
PollAlways ==
  /\ loop # "over" /\ Use
  /\ \/ worker = "running" /\ UNCHANGED <<background, busy, prompt>>
     \/ /\ worker = "done" /\ CollectTeam
        /\ Shown(loop = "plain")
  /\ UNCHANGED <<loop, setup, typed, armed, leaving, faults>>

(* poll: what has ended is collected; session titles are looked after if    *)
(* the application is there.                                                *)
Poll ==
  /\ loop # "over" /\ work # "none" /\ worker = "done"
  /\ CollectSingle \/ CollectTeam
  /\ Shown(loop = "plain")
  /\ UNCHANGED <<loop, setup, typed, armed, leaving, faults>>

PollTitles ==
  /\ loop # "over" /\ (work = "none" \/ worker = "running")
  /\ IF lent THEN Unused ELSE Use
  /\ UNCHANGED <<loop, background, busy, screen, leaving, faults>>

(* The loop that has no more input waits for the team.                      *)
Drained ==
  /\ loop = "ending" /\ work # "team" /\ loop' = "over"
  /\ UNCHANGED <<background, busy, screen, leaving, panicked, faults>>

(***************************************************************************)
(* Questions                                                               *)
(***************************************************************************)

(* Faulty: a question that is still open in the backend is kept. *)
AskUnlessOpen(question) ==
  prompt' = question /\ setup' = IF setup = "none" THEN question ELSE setup

Ask(question) == prompt' = question /\ setup' = question

(* A command that asks.                                                     *)
Open(question) ==
  IF question = "not with a team" /\ work = "team"
  THEN UNCHANGED <<prompt, setup>> ELSE Ask(question)

(* The answer goes to the question the backend has open, which is done, is  *)
(* asked again or asks another one; one that was not asked is refused.      *)
Submit ==
  /\ IF setup # prompt THEN prompt' = "none" /\ UNCHANGED setup /\ Unused
     ELSE /\ Use
          /\ \/ Ask("none")
             \/ Ask(prompt)
  /\ UNCHANGED <<loop, background, busy, armed, leaving, faults>>

Answer ==
  /\ Reading /\ prompt # "none" /\ ~leaving /\ typed' = FALSE
  /\ Submit

(* Escape, Ctrl-C or an empty line: the question is taken back.             *)
TakeBack ==
  /\ Reading /\ prompt # "none" /\ (leaving => loop = "tui")
  /\ prompt' = "none" /\ setup' = IF setup = prompt THEN "none" ELSE setup
  /\ typed' = FALSE /\ Unused
  /\ UNCHANGED <<loop, background, busy, armed, leaving, faults>>

(***************************************************************************)
(* Texts and commands                                                      *)
(***************************************************************************)
Type ==
  /\ loop = "tui" /\ ~leaving /\ ~typed /\ typed' = TRUE /\ Unused
  /\ UNCHANGED <<loop, background, busy, prompt, setup, armed, leaving, faults>>

(* A text is a task, or steers the team.  One that cannot be taken is put   *)
(* back into the composer; the plain loop runs a task to its end.           *)
EnterText ==
  /\ Reading /\ ~leaving /\ prompt = "none" /\ (loop = "tui" => typed)
  /\ \/ loop = "tui" /\ UNCHANGED <<background, busy, panicked, typed>>
     \/ /\ work \notin Single /\ typed' = FALSE
        /\ \/ work = "team" /\ Use /\ UNCHANGED <<background, busy>>
           \/ work = "none" /\ loop = "tui" /\ StartSingle("task")
           \/ /\ work = "none" /\ loop = "plain"
              /\ Use /\ busy' \in BOOLEAN /\ UNCHANGED background
  /\ UNCHANGED <<loop, prompt, setup, armed, leaving, faults>>

(* cancel_current                                                           *)
Cancel ==
  IF work = "none"
  THEN Use /\ busy' = FALSE /\ UNCHANGED background
  ELSE cancelled' = TRUE /\ Unused /\ UNCHANGED <<work, worker, lent, busy, resume>>

(* Faulty: the program ends although a team works. *)
ExitAnyway ==
  \/ work \in Single /\ Cancel /\ UNCHANGED <<loop, faults>>
  \/ /\ work \notin Single /\ Use /\ UNCHANGED <<background, busy, faults>>
     /\ loop' = "over"

(* /exit: what works in the background is stopped first; a browser that     *)
(* does not close keeps the program.                                        *)
Exit ==
  \/ work # "none" /\ Cancel /\ UNCHANGED <<loop, faults>>
  \/ /\ work = "none" /\ Use /\ UNCHANGED <<background, busy>>
     /\ \/ loop' = "over" /\ UNCHANGED faults
        \/ faults < MaxFault /\ faults' = faults + 1 /\ UNCHANGED loop

(* A command.  While the application is away only /exit and /clear are      *)
(* taken.                                                                   *)
Refused == UNCHANGED <<loop, background, busy, prompt, setup, panicked, faults>>

Command ==
  \/ Exit /\ UNCHANGED <<prompt, setup>>
  \/ Refused
  \/ /\ work \notin Single /\ UNCHANGED <<loop, faults>>
     /\ \/ Use /\ UNCHANGED <<background, busy, prompt, setup>>
        \/ StartTeam /\ UNCHANGED <<prompt, setup>>
        \/ /\ loop = "tui" /\ StartSingle("approval") /\ UNCHANGED <<prompt, setup>>
        \/ /\ \E question \in Question : Open(question)
           /\ Use /\ UNCHANGED <<background, busy>>

EnterCommand ==
  /\ Reading /\ ~leaving /\ prompt = "none" /\ typed' = FALSE /\ UNCHANGED armed
  /\ Command /\ UNCHANGED leaving

(* The mode of permissions is changed by a key, also under a question.      *)
CyclePermission ==
  /\ loop = "tui" /\ ~leaving
  /\ IF lent THEN Unused ELSE Use
  /\ UNCHANGED <<loop, background, busy, screen, leaving, faults>>

(***************************************************************************)
(* The end                                                                 *)
(***************************************************************************)

(* What the composer shows as active: the cached view of a single task.     *)
Active == work \in Single \/ busy

(* Ctrl-C without a question: clears the composer, or stops what works, or  *)
(* ends the program when it is pressed twice.                               *)
CtrlC ==
  /\ loop = "tui" /\ prompt = "none"
  /\ IF typed
     THEN typed' = FALSE /\ armed' = FALSE
          /\ UNCHANGED <<loop, background, busy, panicked, faults>>
     ELSE /\ UNCHANGED typed
          /\ CASE Active -> armed' = TRUE /\ Cancel /\ UNCHANGED <<loop, faults>>
               [] ~Active /\ ~armed ->
                    armed' = TRUE
                    /\ UNCHANGED <<loop, background, busy, panicked, faults>>
               [] ~Active /\ armed -> armed' = FALSE /\ Exit
  /\ UNCHANGED <<prompt, setup, leaving>>

(* Two seconds pass.                                                        *)
Disarm ==
  /\ armed /\ ~leaving /\ armed' = FALSE
  /\ UNCHANGED <<loop, background, busy, prompt, setup, typed, leaving, panicked, faults>>

(* The user has had enough, and presses Ctrl-C from now on without much     *)
(* delay; the input of the plain loop ends.                                 *)
WantOut ==
  /\ Reading /\ ~leaving /\ leaving' = TRUE
  /\ loop' = IF loop = "plain" THEN "ending" ELSE loop
  /\ UNCHANGED <<background, busy, screen, panicked, faults>>

Keys == Answer \/ Type \/ EnterText \/ EnterCommand \/ CyclePermission \/ WantOut
Leave == leaving /\ (TakeBack \/ CtrlC)

Next ==
  \/ Keys \/ TakeBack \/ CtrlC \/ Disarm
  \/ WorkerEnds \/ Poll \/ PollTitles \/ Drained

(* A thread ends after a bounded time, the loop polls while it waits for    *)
(* input, and a user who wants to leave goes on pressing Ctrl-C.  A plan    *)
(* has finitely many waves: the loop without input has only this to wait    *)
(* for, where a user can cancel.                                            *)
LastWave == loop = "ending" /\ Poll /\ work' = "none"

Spec ==
  /\ Init /\ [][Next]_consoleVars
  /\ WF_consoleVars(WorkerEnds) /\ WF_consoleVars(Poll) /\ WF_consoleVars(Drained)
  /\ WF_consoleVars(Leave) /\ SF_consoleVars(LastWave)

(***************************************************************************)
(* Properties                                                              *)
(***************************************************************************)
TypeOK ==
  /\ loop \in {"tui", "plain", "ending", "over"}
  /\ work \in Single \cup {"none", "team"} /\ worker \in {"running", "done"}
  /\ {lent, cancelled, busy, resume, typed, armed, leaving, panicked} \subseteq BOOLEAN
  /\ prompt \in Question \cup {"none"} /\ setup \in Question \cup {"none"}
  /\ faults \in 0..MaxFault

(* The application is never used while a thread has it: whatever is typed,  *)
(* answered, cancelled or polled meanwhile.                                 *)
LentIsUntouched == ~panicked

(* What the user answers goes to the question that is shown: no question    *)
(* that vanished from the screen, because a wave was settled meanwhile,     *)
(* takes the answer to another one.                                         *)
AnswersGoHome == prompt # "none" => setup = prompt

(* The program ends with nothing in the background: what a thread has done  *)
(* is settled first.                                                        *)
ExitLosesNothing == loop = "over" => work = "none" /\ ~lent

(* Who insists gets out, whatever works, asks or is typed.                  *)
UserCanLeave == leaving ~> loop = "over"
==============================================================================
