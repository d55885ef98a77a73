------------------------------ MODULE Session -------------------------------
(***************************************************************************)
(* The session aggregate as its users see it: one state, changed by one    *)
(* command at a time, each judged against the state it changes.  Storage,  *)
(* versions, snapshots and other callers are not visible here.  Module     *)
(* EventStore implements it.                                               *)
(***************************************************************************)
EXTENDS SessionCommands

VARIABLE session

Init == session = Empty

Obey(c) == Accepts(session, c) /\ session' = Apply(session, c)

(* A fork is created with what it takes over in one step: both commands    *)
(* are judged, the second against the result of the first.                 *)
ObeyBoth(c, d) ==
  /\ Accepts(session, c)
  /\ Accepts(Apply(session, c), d)
  /\ session' = Apply(Apply(session, c), d)

Next ==
  /\ session' # session
  /\ \E c \in Command : Obey(c) \/ \E d \in Command : ObeyBoth(c, d)

SessionSpec == Init /\ [][Next]_session
=============================================================================
