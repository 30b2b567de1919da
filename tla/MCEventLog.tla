----------------------------- MODULE MCEventLog -----------------------------
(***************************************************************************)
(* The event history at once: a behaviour is one of EventLog, or one query *)
(* of EventStats.  Hours of two instants, days of three hours.             *)
(***************************************************************************)
EXTENDS EventLog, EventStats

MCInit ==
  \/ query = NoQuery /\ Init
  \/ query \in Queries /\ Init

MCNext ==
  \/ query = NoQuery /\ Next /\ UNCHANGED query
  \/ query # NoQuery /\ UNCHANGED <<vars, query>>

MCSpec == MCInit /\ [][MCNext]_<<vars, query>>

-----------------------------------------------------------------------------
\* Ages from two hours ahead to more than a day, and no time at all.
Times == {4, 3, 2, 1, 0, -1, -2, -5, -6, -7, Never}

Alert(time, service, word) ==
  [time |-> time, service |-> service, source |-> IF time = 0 THEN "" ELSE service,
   words |-> {word}]

MCHistories ==
  {<<>>}
    \cup {<<Alert(t, "ssh", "x"), Alert(u, "http", "x")>> : t \in Times, u \in Times}
    \cup {<<Alert(t, "ssh", "x"), Alert(u, "ssh", "y"), Alert(v, "http", "y")>> :
            t \in {2, 0, -6}, u \in Times, v \in {1, 0, Never}}
=============================================================================
