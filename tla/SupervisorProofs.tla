-------------------------- MODULE SupervisorProofs --------------------------
(***************************************************************************)
(* Proofs about Supervisor, for any number of callers and processes and    *)
(* any subset of the calls and of the failures.                            *)
(*                                                                         *)
(* TypeOK and NoOrphan are inductive together.  What the supervisor says   *)
(* of the PID file and of lastError follows from NoOrphan, because a child *)
(* is only spawned when none is uncollected; RestartReplaces needs to know *)
(* besides how far each Stop has got (StopProgress), and that the manager  *)
(* is OneDaemon, which process slots are clean (Slots).                    *)
(***************************************************************************)
EXTENDS Supervisor, TLAPS

Tracking == TypeOK /\ NoOrphan

\* Start sees a stopped daemon only when no process is left uncollected.
LEMMA StoppedMeansCollected ==
  ASSUME NoOrphan, SeesStopped
  PROVE  \A p \in Procs : ~Unreaped(p)
BY SupervisorAssumption DEF NoOrphan, SeesStopped, Unreaped

-----------------------------------------------------------------------------
\* Nothing is tracked and nothing runs.
LEMMA InitTracking == Init => Tracking
BY SupervisorAssumption DEF Init, Tracking, TypeOK, NoOrphan, Unreaped, Operations

\* Every step keeps the types, and what Stop holds on to is never nil.
LEMMA NextTypeOK == TypeOK /\ [Next]_vars => TypeOK'
<1> SUFFICES ASSUME TypeOK, [Next]_vars PROVE TypeOK'
  OBVIOUS
<1> USE SupervisorAssumption DEF TypeOK
<1>1. CASE UNCHANGED vars
  BY <1>1 DEF vars, managerVars, osVars, callVars
<1>2. ASSUME NEW h \in Callers, Call(h) PROVE TypeOK'
  BY <1>2 DEF Call, Goto, managerVars, osVars, Running
<1>3. ASSUME NEW h \in Callers, CallStep(h) PROVE TypeOK'
  <2>1. CASE StartAlreadyRunning(h)
    BY <2>1 DEF StartAlreadyRunning, Goto, managerVars, osVars
  <2>2. CASE StartPrepareFails(h)
    BY <2>2 DEF StartPrepareFails, Goto, managerVars
  <2>3. CASE StartExecFails(h)
    BY <2>3 DEF StartExecFails, Goto
  <2>4. CASE StartSpawns(h)
    BY <2>4 DEF StartSpawns, Goto, RemoveStalePidFile, ResetError
  <2>5. CASE StopNothing(h)
    BY <2>5 DEF StopNothing, StopReturns, Goto, managerVars, osVars
  <2>6. CASE StopSnapshot(h)
    BY <2>6 DEF StopSnapshot, SeesNoChild, Goto, managerVars, osVars
  <2>7. CASE StopTerm(h)
    BY <2>7 DEF StopTerm, Kill, Goto, managerVars
  <2>8. CASE StopSeesExit(h)
    BY <2>8 DEF StopSeesExit, Goto, managerVars, osVars
  <2>9. CASE StopKill(h)
    BY <2>9 DEF StopKill, Kill, Goto, managerVars
  <2>10. CASE StopFails(h)
    BY <2>10 DEF StopFails, Goto, managerVars, osVars
  <2>11. CASE StopUnlink(h)
    BY <2>11 DEF StopUnlink, StopReturns, Goto, managerVars
  <2>12. CASE Return(h)
    BY <2>12 DEF Return, Goto, managerVars, osVars, Operations
  <2> QED
    BY <1>3, <2>1, <2>2, <2>3, <2>4, <2>5, <2>6, <2>7, <2>8, <2>9, <2>10,
       <2>11, <2>12 DEF CallStep
<1>4. ASSUME NEW p \in Procs, ProcStep(p) PROVE TypeOK'
  <2>1. CASE TwistdServes(p)
    BY <2>1 DEF TwistdServes, managerVars, callVars
  <2>2. CASE TwistdExits(p)
    BY <2>2 DEF TwistdExits, managerVars, callVars
  <2>3. CASE WaitCollects(p)
    BY <2>3 DEF WaitCollects, managerVars, callVars
  <2>4. CASE WaiterClears(p)
    BY <2>4 DEF WaiterClears, managerVars
  <2> QED
    BY <1>4, <2>1, <2>2, <2>3, <2>4 DEF ProcStep
<1> QED
  BY <1>1, <1>2, <1>3, <1>4 DEF Next

\* Only a spawn, a late waiter or the child itself can disturb the tracking.
LEMMA NextNoOrphan == Tracking /\ [Next]_vars => NoOrphan'
<1> SUFFICES ASSUME TypeOK, NoOrphan, [Next]_vars PROVE NoOrphan'
  BY DEF Tracking
<1> USE SupervisorAssumption DEF TypeOK, NoOrphan, Unreaped
<1>1. CASE UNCHANGED <<cmd, proc>>
  BY <1>1
<1>2. ASSUME NEW h \in Callers, StartSpawns(h) PROVE NoOrphan'
  BY <1>2, StoppedMeansCollected DEF StartSpawns
<1>3. ASSUME NEW h \in Callers, Call(h) \/ CallStep(h), ~StartSpawns(h)
      PROVE  UNCHANGED <<cmd, proc>>
  BY <1>3 DEF Call, CallStep, StartAlreadyRunning, StartPrepareFails,
     StartExecFails, StopNothing, StopSnapshot, StopTerm, StopSeesExit,
     StopKill, StopFails, StopUnlink, Return, managerVars, osVars
<1>4. ASSUME NEW p \in Procs, ProcStep(p) PROVE NoOrphan'
  <2>1. CASE TwistdServes(p)
    BY <2>1 DEF TwistdServes, managerVars
  <2>2. CASE TwistdExits(p)
    BY <2>2 DEF TwistdExits, Running, managerVars
  <2>3. CASE WaitCollects(p)
    BY <2>3 DEF WaitCollects, managerVars
  <2>4. CASE WaiterClears(p)
    BY <2>4 DEF WaiterClears, StillTracked, managerVars
  <2> QED
    BY <1>4, <2>1, <2>2, <2>3, <2>4 DEF ProcStep
<1>5. UNCHANGED vars => UNCHANGED <<cmd, proc>>
  BY DEF vars, managerVars, osVars
<1> QED
  BY <1>1, <1>2, <1>3, <1>4, <1>5 DEF Next

-----------------------------------------------------------------------------
\* Types and tracking are inductive together.
LEMMA NextTracking == Tracking /\ [Next]_vars => Tracking'
BY NextTypeOK, NextNoOrphan DEF Tracking

\* Types and tracking hold always.
LEMMA TrackingInvariant == Spec => []Tracking
BY InitTracking, NextTracking, PTL DEF Spec

(***************************************************************************)
(* Types hold, and Stop never dereferences a nil child.                    *)
(***************************************************************************)
THEOREM TypeCorrect == Spec => []TypeOK
<1>1. Tracking => TypeOK
  BY DEF Tracking
<1> QED
  BY TrackingInvariant, <1>1, PTL

(***************************************************************************)
(* DaemonManager never loses a daemon and never runs two.                  *)
(***************************************************************************)
THEOREM NeverOrphans == Spec => []NoOrphan
<1>1. Tracking => NoOrphan
  BY DEF Tracking
<1> QED
  BY TrackingInvariant, <1>1, PTL

-----------------------------------------------------------------------------
(***************************************************************************)
(* The files and fields a daemon finds.  Both invariants are disturbed by  *)
(* a spawn, which comes after the reset, and by processes that exit, of    *)
(* which NoOrphan leaves one at most.                                      *)
(***************************************************************************)
LEMMA NextPidFile == Tracking /\ PidFileIsFresh /\ [Next]_vars => PidFileIsFresh'
<1> SUFFICES ASSUME TypeOK, NoOrphan, PidFileIsFresh, [Next]_vars
             PROVE  PidFileIsFresh'
  BY DEF Tracking
<1> USE SupervisorAssumption DEF TypeOK, PidFileIsFresh
<1>1. CASE UNCHANGED vars
  BY <1>1 DEF vars, osVars
<1>2. ASSUME NEW h \in Callers, Call(h) PROVE PidFileIsFresh'
  BY <1>2 DEF Call, osVars
<1>3. ASSUME NEW h \in Callers, CallStep(h) PROVE PidFileIsFresh'
  <2>1. CASE StartSpawns(h)
    BY <2>1, StoppedMeansCollected DEF StartSpawns, RemoveStalePidFile, Unreaped
  <2>2. CASE ~StartSpawns(h)
    <3>1. proc' = proc /\ pidFile' \in {pidFile, None}
      BY <1>3, <2>2 DEF CallStep, StartAlreadyRunning, StartPrepareFails,
         StartExecFails, StopNothing, StopSnapshot, StopTerm, StopSeesExit,
         StopKill, StopFails, StopUnlink, Return, osVars
    <3> QED
      BY <3>1
  <2> QED
    BY <2>1, <2>2
<1>4. ASSUME NEW p \in Procs, ProcStep(p) PROVE PidFileIsFresh'
  <2>1. CASE TwistdServes(p)
    <3>1. \A q \in Procs \ {p} : ~Unreaped(q)
      BY <2>1 DEF TwistdServes, NoOrphan, Unreaped
    <3> QED
      BY <2>1, <3>1 DEF TwistdServes, Unreaped
  <2>2. CASE TwistdExits(p)
    BY <2>2 DEF TwistdExits, Running
  <2>3. CASE WaitCollects(p)
    BY <2>3 DEF WaitCollects
  <2>4. CASE WaiterClears(p)
    BY <2>4 DEF WaiterClears
  <2> QED
    BY <1>4, <2>1, <2>2, <2>3, <2>4 DEF ProcStep
<1> QED
  BY <1>1, <1>2, <1>3, <1>4 DEF Next

LEMMA NextErrorMeansDown ==
  Tracking /\ ErrorMeansDown /\ [Next]_vars => ErrorMeansDown'
<1> SUFFICES ASSUME TypeOK, NoOrphan, ErrorMeansDown, [Next]_vars
             PROVE  ErrorMeansDown'
  BY DEF Tracking
<1> USE SupervisorAssumption DEF TypeOK, ErrorMeansDown
<1>1. CASE UNCHANGED vars
  BY <1>1 DEF vars, osVars, managerVars, Unreaped
<1>2. ASSUME NEW h \in Callers, Call(h) PROVE ErrorMeansDown'
  BY <1>2 DEF Call, osVars, managerVars, Unreaped
<1>3. ASSUME NEW h \in Callers, CallStep(h) PROVE ErrorMeansDown'
  <2>1. CASE StartSpawns(h)
    BY <2>1 DEF StartSpawns, ResetError
  <2>2. CASE StartExecFails(h)
    BY <2>2, StoppedMeansCollected DEF StartExecFails, Unreaped
  <2>3. CASE ~StartSpawns(h) /\ ~StartExecFails(h)
    <3>1. UNCHANGED <<lastError, proc>>
      BY <1>3, <2>3 DEF CallStep, StartAlreadyRunning, StartPrepareFails,
         StopNothing, StopSnapshot, StopTerm, StopSeesExit, StopKill,
         StopFails, StopUnlink, Return, osVars, managerVars
    <3> QED
      BY <3>1 DEF Unreaped
  <2> QED
    BY <2>1, <2>2, <2>3
<1>4. ASSUME NEW p \in Procs, ProcStep(p) PROVE ErrorMeansDown'
  <2>1. CASE TwistdServes(p)
    BY <2>1 DEF TwistdServes, Unreaped, managerVars
  <2>2. CASE TwistdExits(p)
    BY <2>2 DEF TwistdExits, Running, Unreaped, managerVars
  <2>3. CASE WaitCollects(p)
    BY <2>3 DEF WaitCollects, Unreaped, managerVars
  <2>4. CASE WaiterClears(p)
    BY <2>4 DEF WaiterClears, StillTracked, NoOrphan, Unreaped, managerVars
  <2> QED
    BY <1>4, <2>1, <2>2, <2>3, <2>4 DEF ProcStep
<1> QED
  BY <1>1, <1>2, <1>3, <1>4 DEF Next

\* A spawned twistd never meets the PID file of another process.
THEOREM PidFileOwned == Spec => []PidFileIsFresh
<1>1. Init => PidFileIsFresh
  BY DEF Init, PidFileIsFresh
<1> QED
  BY <1>1, TrackingInvariant, NextPidFile, PTL DEF Spec

\* /status never shows an old error beside a live daemon.
THEOREM ErrorsAreCurrent == Spec => []ErrorMeansDown
<1>1. Init => ErrorMeansDown
  BY DEF Init, ErrorMeansDown
<1> QED
  BY <1>1, TrackingInvariant, NextErrorMeansDown, PTL DEF Spec

-----------------------------------------------------------------------------
(***************************************************************************)
(* How far each Stop has got.  Between its snapshot and the receive from   *)
(* done, the child it waits for is the only one left of those that ran     *)
(* when it was called; after the receive none is.                          *)
(***************************************************************************)
LEMMA NextStopProgress == Tracking /\ StopProgress /\ [Next]_vars => StopProgress'
<1> SUFFICES ASSUME TypeOK, NoOrphan, StopProgress, [Next]_vars
             PROVE  StopProgress'
  BY DEF Tracking
<1> USE SupervisorAssumption DEF TypeOK, StopProgress, NoSurvivor, Running
<1>1. CASE UNCHANGED vars
  BY <1>1 DEF vars, osVars, callVars
<1>2. ASSUME NEW h \in Callers, Call(h) PROVE StopProgress'
  BY <1>2 DEF Call, Goto, osVars
<1>3. ASSUME NEW h \in Callers, CallStep(h) PROVE StopProgress'
  <2>1. CASE StartAlreadyRunning(h)
    BY <2>1 DEF StartAlreadyRunning, Goto, osVars
  <2>2. CASE StartPrepareFails(h)
    BY <2>2 DEF StartPrepareFails, Goto
  <2>3. CASE StartExecFails(h)
    BY <2>3 DEF StartExecFails, Goto
  <2>4. CASE StartSpawns(h)
    BY <2>4 DEF StartSpawns, Unused, Goto
  <2>5. CASE StopNothing(h)
    BY <2>5 DEF StopNothing, StopReturns, SeesNoChild, NoOrphan, Unreaped, Goto, osVars
  <2>6. CASE StopSnapshot(h)
    BY <2>6 DEF StopSnapshot, NoOrphan, Unreaped, Goto, osVars
  <2>7. CASE StopTerm(h)
    BY <2>7 DEF StopTerm, Kill, Goto
  <2>8. CASE StopSeesExit(h)
    BY <2>8 DEF StopSeesExit, DoneIsClosed, Goto, osVars
  <2>9. CASE StopKill(h)
    BY <2>9 DEF StopKill, Kill, Goto
  <2>10. CASE StopFails(h)
    BY <2>10 DEF StopFails, Goto, osVars
  <2>11. CASE StopUnlink(h)
    BY <2>11 DEF StopUnlink, StopReturns, Goto
  <2>12. CASE Return(h)
    BY <2>12 DEF Return, Goto, osVars
  <2> QED
    BY <1>3, <2>1, <2>2, <2>3, <2>4, <2>5, <2>6, <2>7, <2>8, <2>9, <2>10,
       <2>11, <2>12 DEF CallStep
<1>4. ASSUME NEW p \in Procs, ProcStep(p) PROVE StopProgress'
  <2>1. CASE TwistdServes(p)
    BY <2>1 DEF TwistdServes, callVars
  <2>2. CASE TwistdExits(p)
    BY <2>2 DEF TwistdExits, callVars
  <2>3. CASE WaitCollects(p)
    BY <2>3 DEF WaitCollects, callVars
  <2>4. CASE WaiterClears(p)
    BY <2>4 DEF WaiterClears
  <2> QED
    BY <1>4, <2>1, <2>2, <2>3, <2>4 DEF ProcStep
<1> QED
  BY <1>1, <1>2, <1>3, <1>4 DEF Next

(***************************************************************************)
(* A Stop or Restart that returned nil has outlived every daemon that ran  *)
(* when it was called, for any number of concurrent callers.               *)
(***************************************************************************)
THEOREM RestartsReplace == Spec => []RestartReplaces
<1>1. Init => StopProgress
  BY DEF Init, StopProgress, NoSurvivor
<1>2. StopProgress => RestartReplaces
  BY DEF StopProgress, RestartReplaces
<1> QED
  BY <1>1, <1>2, TrackingInvariant, NextStopProgress, PTL DEF Spec

-----------------------------------------------------------------------------
(***************************************************************************)
(* Without Stop calls and without failures.  Every signal has a sender     *)
(* that waits for the child to go, and will then start another: a daemon   *)
(* that is on its way out, or gone, is accounted for by a call that has    *)
(* not returned.  So when all have, the daemon is up.                      *)
(***************************************************************************)
Leaves(p)   == signal[p] # "none" \/ proc[p] \in {"zombie", "reaped"}
WaitsFor(p) == \E h \in Callers : pc[h] = "wait6" /\ target[h] = p
Up          == \E p \in Procs : Running(p) /\ signal[p] = "none"

Upkeep ==
  /\ \A h \in Callers :
       /\ pc[h] \notin {"failed", "wait2"}
       /\ pc[h] \in {"stop", "term", "wait6", "unlink"} => op[h] = "restart"
  /\ \A p \in Procs : /\ Leaves(p) => WaitsFor(p)
                      /\ proc[p] = "gone" => signal[p] = "none"
  /\ (\E h \in Callers : pc[h] = "ok") =>
       Up \/ \E h \in Callers : pc[h] \in {"stop", "term", "wait6", "unlink", "start"}

\* Who signals waits, and who has waited starts.
LEMMA NextUpkeep ==
  ASSUME Ops \subseteq {"start", "restart"}, Faults = {}
  PROVE  Tracking /\ Upkeep /\ [Next]_vars => Upkeep'
<1> SUFFICES ASSUME TypeOK, NoOrphan, Upkeep, [Next]_vars PROVE Upkeep'
  BY DEF Tracking
<1> USE SupervisorAssumption DEF TypeOK, Upkeep, Leaves, WaitsFor, Up, Running
<1>1. CASE UNCHANGED vars
  BY <1>1 DEF vars, osVars, callVars
<1>2. ASSUME NEW h \in Callers, Call(h) PROVE Upkeep'
  BY <1>2 DEF Call, Goto, osVars
<1>3. ASSUME NEW h \in Callers, CallStep(h) PROVE Upkeep'
  <2>1. CASE StartAlreadyRunning(h)
    BY <2>1 DEF StartAlreadyRunning, SeesRunning, Goto, osVars
  <2>2. CASE StartPrepareFails(h) \/ StartExecFails(h) \/ StopKill(h) \/ StopFails(h)
    BY <2>2 DEF StartPrepareFails, StartExecFails, StopKill, StopFails
  <2>3. CASE StartSpawns(h)
    <3>1. PICK p \in Procs : /\ Unused(p)
                             /\ proc' = [proc EXCEPT ![p] = "booting"]
      BY <2>3 DEF StartSpawns
    <3>2. signal[p] = "none"
      BY <3>1 DEF Unused
    <3>3. Running(p)' /\ signal' = signal /\ pc' = [pc EXCEPT ![h] = "ok"] /\ pc[h] = "start"
      BY <2>3, <3>1 DEF StartSpawns, Goto
    <3>4. UNCHANGED <<op, target>>
      BY <2>3 DEF StartSpawns
    <3>5. Up'
      BY <3>2, <3>3
    <3>6. (\A q \in Procs : /\ Leaves(q) => WaitsFor(q)
                            /\ proc[q] = "gone" => signal[q] = "none")'
      BY <3>1, <3>2, <3>3, <3>4
    <3> QED
      BY <3>3, <3>4, <3>5, <3>6
  <2>4. CASE StopNothing(h)
    BY <2>4 DEF StopNothing, StopReturns, Goto, osVars
  <2>5. CASE StopSnapshot(h)
    BY <2>5 DEF StopSnapshot, Goto, osVars
  <2>6. CASE StopTerm(h)
    <3>1. /\ pc[h] = "term" /\ pc' = [pc EXCEPT ![h] = "wait6"]
          /\ UNCHANGED <<proc, op, target>>
      BY <2>6 DEF StopTerm, Goto
    <3>2. \A q \in Procs : q # target[h] \/ proc[q] = "gone" => signal'[q] = signal[q]
      BY <2>6 DEF StopTerm, Kill, Unreaped
    <3> QED
      BY <3>1, <3>2
  <2>7. CASE StopSeesExit(h)
    BY <2>7 DEF StopSeesExit, DoneIsClosed, Goto, osVars
  <2>8. CASE StopUnlink(h)
    BY <2>8 DEF StopUnlink, StopReturns, Goto
  <2>9. CASE Return(h)
    BY <2>9 DEF Return, Goto, osVars
  <2> QED
    BY <1>3, <2>1, <2>2, <2>3, <2>4, <2>5, <2>6, <2>7, <2>8, <2>9 DEF CallStep
<1>4. ASSUME NEW p \in Procs, ProcStep(p) PROVE Upkeep'
  <2>1. CASE TwistdServes(p)
    BY <2>1 DEF TwistdServes, callVars
  <2>2. CASE TwistdExits(p)
    BY <2>2 DEF TwistdExits, callVars
  <2>3. CASE WaitCollects(p)
    BY <2>3 DEF WaitCollects, callVars
  <2>4. CASE WaiterClears(p)
    BY <2>4 DEF WaiterClears
  <2> QED
    BY <1>4, <2>1, <2>2, <2>3, <2>4 DEF ProcStep
<1> QED
  BY <1>1, <1>2, <1>3, <1>4 DEF Next

\* When nobody calls Stop and nothing fails, all calls that have returned leave a daemon up.
THEOREM StartedIsUp ==
  ASSUME Ops \subseteq {"start", "restart"}, Faults = {}
  PROVE  Spec => []StartedMeansUp
<1>1. Init => Upkeep
  BY DEF Init, Upkeep, Leaves
<1>2. Tracking /\ Upkeep /\ [Next]_vars => Upkeep'
  BY NextUpkeep
<1>3. Upkeep => StartedMeansUp
  BY DEF Upkeep, StartedMeansUp, Up
<1> QED
  BY <1>1, <1>2, <1>3, TrackingInvariant, PTL DEF Spec

-----------------------------------------------------------------------------
(***************************************************************************)
(* To the clients of Status there is one daemon.  A slot is clean before a *)
(* child is spawned in it, and the tracked child is not a forgotten one.   *)
(***************************************************************************)
Slots ==
  /\ \A p \in Procs : proc[p] = "gone" => signal[p] = "none"
  /\ cmd # None => proc[cmd] # "gone"

\* At first every slot is clean and nothing is tracked.
LEMMA InitSlots == Init => Slots
BY DEF Init, Slots

\* Only a spawn and a waiter make or unmake a gone process; a signal misses it.
LEMMA NextSlots == Tracking /\ Slots /\ [Next]_vars => Slots'
<1> SUFFICES ASSUME TypeOK, NoOrphan, Slots, [Next]_vars PROVE Slots'
  BY DEF Tracking
<1> USE SupervisorAssumption DEF TypeOK, Slots
<1>1. ASSUME UNCHANGED <<cmd, proc, signal>> PROVE Slots'
  BY <1>1
<1>2. ASSUME NEW h \in Callers, StartSpawns(h) PROVE Slots'
  BY <1>2 DEF StartSpawns, Unused
<1>3. ASSUME NEW h \in Callers, StopTerm(h) \/ StopKill(h) PROVE Slots'
  BY <1>3 DEF StopTerm, StopKill, Kill, Unreaped, managerVars
<1>4. ASSUME NEW h \in Callers, Call(h) \/ CallStep(h),
             ~StartSpawns(h), ~StopTerm(h), ~StopKill(h)
      PROVE  UNCHANGED <<cmd, proc, signal>>
  BY <1>4 DEF Call, CallStep, StartAlreadyRunning, StartPrepareFails, StartExecFails,
     StopNothing, StopSnapshot, StopSeesExit, StopFails, StopUnlink, Return,
     managerVars, osVars
<1>5. ASSUME NEW p \in Procs, ProcStep(p) PROVE Slots'
  <2>1. CASE TwistdServes(p)
    BY <2>1 DEF TwistdServes, managerVars
  <2>2. CASE TwistdExits(p)
    BY <2>2 DEF TwistdExits, Running, managerVars
  <2>3. CASE WaitCollects(p)
    BY <2>3 DEF WaitCollects, managerVars
  <2>4. CASE WaiterClears(p)
    BY <2>4 DEF WaiterClears, StillTracked, managerVars
  <2> QED
    BY <1>5, <2>1, <2>2, <2>3, <2>4 DEF ProcStep
<1>6. UNCHANGED vars => UNCHANGED <<cmd, proc, signal>>
  BY DEF vars, managerVars, osVars
<1> QED
  BY <1>1, <1>2, <1>3, <1>4, <1>5, <1>6 DEF Next

\* What Status tells does not change unless these do.
LEMMA StatusStays ==
  ASSUME UNCHANGED <<cmd, proc, signal, lastError>>
  PROVE  UNCHANGED Daemon!vars
BY DEF Daemon!vars, Life, Signalled

\* Every step of a call is a step of the one daemon, or none.
LEMMA CallsAreDaemon ==
  ASSUME TypeOK, NoOrphan, Slots, NEW h \in Callers, Call(h) \/ CallStep(h)
  PROVE  Daemon!Next \/ UNCHANGED Daemon!vars
<1> USE SupervisorAssumption DEF TypeOK, Slots, Life, Signalled
<1>1. CASE StartSpawns(h)
  <2>1. PICK p \in Procs : Unused(p) /\ proc' = [proc EXCEPT ![p] = "booting"] /\ cmd' = p
    BY <1>1 DEF StartSpawns
  <2>2. lastError' = "none" /\ signal' = signal
    BY <1>1 DEF StartSpawns, ResetError
  <2>3. Life \in {"down", "reaped"}
    BY <1>1 DEF StartSpawns, SeesStopped
  <2>4. Life' = "booting" /\ Signalled' = FALSE
    BY <2>1, <2>2 DEF Unused
  <2> QED
    BY <2>2, <2>3, <2>4 DEF Daemon!Next, Daemon!Starts
<1>2. CASE StartExecFails(h)
  <2>1. Life \in {"down", "reaped"} /\ "exec" \in Faults /\ lastError' = "exec"
    BY <1>2 DEF StartExecFails, SeesStopped
  <2>2. UNCHANGED <<Life, Signalled>>
    BY <1>2 DEF StartExecFails
  <2> QED
    BY <2>1, <2>2 DEF Daemon!Next, Daemon!CannotStart
<1>3. ASSUME StopTerm(h) \/ StopKill(h)
      PROVE  Daemon!Next \/ UNCHANGED Daemon!vars
  <2>1. /\ target[h] \in Procs /\ UNCHANGED <<cmd, lastError, proc>>
        /\ Kill(target[h], "term") \/ Kill(target[h], "kill")
    BY <1>3 DEF StopTerm, StopKill, managerVars
  <2>2. CASE Unreaped(target[h])
    <3>1. cmd = target[h]
      BY <2>1, <2>2 DEF NoOrphan
    <3>2. Life \in {"booting", "serving", "zombie"} /\ Life' = Life
      BY <2>1, <2>2, <3>1 DEF Unreaped
    <3>3. Signalled'
      BY <2>1, <2>2, <3>1 DEF Kill
    <3> QED
      BY <2>1, <3>2, <3>3 DEF Daemon!Next, Daemon!IsSignalled
  <2>3. CASE ~Unreaped(target[h])
    <3>1. signal' = signal
      BY <2>1, <2>3 DEF Kill
    <3> QED
      BY <2>1, <3>1, StatusStays
  <2> QED
    BY <2>2, <2>3
<1>4. ASSUME ~StartSpawns(h), ~StartExecFails(h), ~StopTerm(h), ~StopKill(h)
      PROVE  UNCHANGED <<cmd, proc, signal, lastError>>
  BY <1>4 DEF Call, CallStep, StartAlreadyRunning, StartPrepareFails, StopNothing,
     StopSnapshot, StopSeesExit, StopFails, StopUnlink, Return, managerVars, osVars
<1> QED
  BY <1>1, <1>2, <1>3, <1>4, StatusStays

\* And so is every step of a child or of its waiter, the tracked one or another.
LEMMA ChildrenAreDaemon ==
  ASSUME TypeOK, NoOrphan, Slots, NEW p \in Procs, ProcStep(p)
  PROVE  Daemon!Next \/ UNCHANGED Daemon!vars
<1> USE SupervisorAssumption DEF TypeOK, Slots, Life, Signalled
<1>1. CASE TwistdServes(p)
  <2>1. cmd = p /\ Life = "booting"
    BY <1>1 DEF TwistdServes, NoOrphan, Unreaped
  <2>2. Life' = "serving" /\ Signalled' = Signalled /\ lastError' = lastError
    BY <1>1, <2>1 DEF TwistdServes, managerVars
  <2> QED
    BY <2>1, <2>2 DEF Daemon!Next, Daemon!ComesUp
<1>2. CASE TwistdExits(p)
  <2>1. cmd = p /\ Life \in {"booting", "serving"} /\ (Signalled \/ "crash" \in Faults)
    BY <1>2 DEF TwistdExits, Running, NoOrphan, Unreaped
  <2>2. Life' = "zombie" /\ Signalled' = Signalled /\ lastError' = lastError
    BY <1>2, <2>1 DEF TwistdExits, managerVars
  <2> QED
    BY <2>1, <2>2 DEF Daemon!Next, Daemon!Dies
<1>3. CASE WaitCollects(p)
  <2>1. cmd = p /\ Life = "zombie"
    BY <1>3 DEF WaitCollects, NoOrphan, Unreaped
  <2>2. Life' = "reaped" /\ Signalled' = Signalled /\ lastError' = lastError
    BY <1>3, <2>1 DEF WaitCollects, managerVars
  <2> QED
    BY <2>1, <2>2 DEF Daemon!Next, Daemon!IsCollected
<1>4. CASE WaiterClears(p)
  <2>1. CASE cmd = p
    <3>1. Life = "reaped" /\ Life' = "down" /\ Signalled' = FALSE
      BY <1>4, <2>1 DEF WaiterClears, StillTracked
    <3>2. lastError' \in {lastError, "exit"}
      BY <1>4, <2>1 DEF WaiterClears, StillTracked
    <3> QED
      BY <3>1, <3>2 DEF Daemon!Next, Daemon!IsForgotten
  <2>2. CASE cmd # p
    <3>1. UNCHANGED <<cmd, lastError>> /\ (cmd # None => proc'[cmd] = proc[cmd] /\ signal'[cmd] = signal[cmd])
      BY <1>4, <2>2 DEF WaiterClears, StillTracked, managerVars
    <3> QED
      BY <3>1 DEF Daemon!vars
  <2> QED
    BY <2>1, <2>2
<1> QED
  BY <1>1, <1>2, <1>3, <1>4 DEF ProcStep

(***************************************************************************)
(* For any number of callers and children and whatever fails, DaemonManager*)
(* shows one daemon that lives as OneDaemon says.                          *)
(***************************************************************************)
THEOREM ManagerIsOneDaemon == Spec => IsOneDaemon
<1>1. Init => Daemon!Init
  BY DEF Init, Daemon!Init, Life, Signalled
<1>2. Tracking /\ Slots /\ [Next]_vars => [Daemon!Next]_Daemon!vars
  <2> SUFFICES ASSUME TypeOK, NoOrphan, Slots, [Next]_vars
               PROVE  Daemon!Next \/ UNCHANGED Daemon!vars
    BY DEF Tracking
  <2>1. CASE UNCHANGED vars
    <3>1. UNCHANGED <<cmd, proc, signal, lastError>>
      BY <2>1 DEF vars, managerVars, osVars
    <3> QED
      BY <3>1, StatusStays
  <2>2. CASE Next
    BY <2>2, CallsAreDaemon, ChildrenAreDaemon DEF Next
  <2> QED
    BY <2>1, <2>2
<1> QED
  BY <1>1, <1>2, InitTracking, NextTracking, InitSlots, NextSlots, PTL
     DEF Spec, IsOneDaemon, Daemon!Spec
=============================================================================
