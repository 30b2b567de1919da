----------------------------- MODULE OneDaemon -----------------------------
(***************************************************************************)
(* What the supervisor promises: to those who ask for its status there is  *)
(* one daemon, which starts only when the one before has been collected,   *)
(* dies only when it was signalled or on its own account, gets no signal   *)
(* meant for the one before, and has no error beside it but its own.       *)
(***************************************************************************)
CONSTANT Faults

VARIABLES
  life,       \* where the daemon is, as a process of Supervisor; "down" if none
  signalled,  \* whether it was told to end
  error       \* the last error: "none", "exec" or "exit"

vars == <<life, signalled, error>>

Init == life = "down" /\ ~signalled /\ error = "none"

Starts ==
  /\ life \in {"down", "reaped"}
  /\ life' = "booting"
  /\ signalled' = FALSE
  /\ error' = "none"

CannotStart ==
  /\ life \in {"down", "reaped"}
  /\ "exec" \in Faults
  /\ error' = "exec"
  /\ UNCHANGED <<life, signalled>>

ComesUp ==
  /\ life = "booting"
  /\ life' = "serving"
  /\ UNCHANGED <<signalled, error>>

IsSignalled ==
  /\ life \in {"booting", "serving", "zombie"}
  /\ signalled' = TRUE
  /\ UNCHANGED <<life, error>>

Dies ==
  /\ life \in {"booting", "serving"}
  /\ signalled \/ "crash" \in Faults
  /\ life' = "zombie"
  /\ UNCHANGED <<signalled, error>>

IsCollected ==
  /\ life = "zombie"
  /\ life' = "reaped"
  /\ UNCHANGED <<signalled, error>>

IsForgotten ==
  /\ life = "reaped"
  /\ life' = "down"
  /\ signalled' = FALSE
  /\ error' \in {error, "exit"}

Next ==
  \/ Starts
  \/ CannotStart
  \/ ComesUp
  \/ IsSignalled
  \/ Dies
  \/ IsCollected
  \/ IsForgotten

Spec == Init /\ [][Next]_vars
=============================================================================
