----------------------------- MODULE Supervisor -----------------------------
(***************************************************************************)
(* The daemon supervisor of the control plane: type DaemonManager of       *)
(* code/daemon.go, with its Start, Stop and Restart, the goroutine Start   *)
(* leaves behind to wait for the child, and the twistd child itself.       *)
(*                                                                         *)
(* Any number of goroutines call the manager at once: main at boot, one    *)
(* net/http goroutine per PUT /config and POST /daemon, and the shutdown   *)
(* goroutine.  The mutex protects cmd and lastError only.  Start holds it  *)
(* from its check to its last assignment, so it is one step here; Stop     *)
(* gives it up after it has read cmd and done, so each later system call   *)
(* and each receive of Stop is a step of its own.                          *)
(***************************************************************************)
CONSTANTS
  Callers,  \* goroutines that call the manager
  Procs,    \* process identities; one is reused only when nobody refers to it
  Ops,      \* the calls this instance makes, a subset of Operations
  Faults,   \* the failures the environment may inject, a subset of FaultKinds
  None      \* Go's nil, and "no PID file"

Operations == {"start", "stop", "restart"}

(***************************************************************************)
(* "crash"    the daemon exits although nobody signalled it                *)
(* "hang"     the daemon outlives the timers of Stop                       *)
(* "prepare"  a step of Start before exec fails (TLS pair, log, PID file)  *)
(* "exec"     exec.Cmd.Start fails                                         *)
(* "kill"     kill(2) fails with an error other than ESRCH                 *)
(***************************************************************************)
FaultKinds == {"crash", "hang", "prepare", "exec", "kill"}

ASSUME SupervisorAssumption ==
  /\ None \notin Procs
  /\ Ops \subseteq Operations
  /\ Faults \subseteq FaultKinds

VARIABLES
  cmd,        \* DaemonManager.cmd: the tracked child, or None
  lastError,  \* DaemonManager.lastError: "none", "exec" or "exit"
  proc,       \* what the kernel and exec.Cmd know of each process
  signal,     \* the strongest signal sent to each process
  pidFile,    \* whose PID openCanaryPIDFile holds, or None
  pc,         \* where each goroutine is
  op,         \* the call each goroutine makes
  target,     \* the cmd, pid and done that Stop has read
  older       \* history: the daemons that ran when the call was made, not yet gone

managerVars == <<cmd, lastError>>
osVars      == <<proc, signal, pidFile>>
callVars    == <<pc, op, target, older>>
vars        == <<managerVars, osVars, callVars>>

(***************************************************************************)
(* A process is booting until twistd has loaded its configuration, written *)
(* its PID and bound its listeners; then it is serving.  It is a zombie    *)
(* from its exit until cmd.Wait collects it, reaped once cmd.ProcessState  *)
(* is set, and gone when the waiting goroutine has closed done.            *)
(***************************************************************************)
Running(p)  == proc[p] \in {"booting", "serving"}
Unreaped(p) == proc[p] \in {"booting", "serving", "zombie"}

\* A fresh process: a slot that nobody holds the pid or the done channel of.
Unused(p) == proc[p] = "gone" /\ \A h \in Callers : target[h] # p

Init ==
  /\ cmd = None
  /\ lastError = "none"
  /\ proc = [p \in Procs |-> "gone"]
  /\ signal = [p \in Procs |-> "none"]
  /\ pidFile = None
  /\ pc = [h \in Callers |-> "idle"]
  /\ op = [h \in Callers |-> "start"]
  /\ target = [h \in Callers |-> None]
  /\ older = [h \in Callers |-> {}]

Goto(h, label) == pc' = [pc EXCEPT ![h] = label]

(***************************************************************************)
(* A goroutine calls Start, Stop or Restart.                               *)
(***************************************************************************)
Call(h) ==
  /\ pc[h] = "idle"
  /\ \E o \in Ops :
       /\ op' = [op EXCEPT ![h] = o]
       /\ Goto(h, IF o = "start" THEN "start" ELSE "stop")
  /\ older' = [older EXCEPT ![h] = {p \in Procs : Running(p)}]
  /\ UNCHANGED <<managerVars, osVars, target>>

-----------------------------------------------------------------------------
(***************************************************************************)
(* Start.  cmd.ProcessState is written by cmd.Wait without the mutex, so a *)
(* read of it that races with the write (the process is reaped, the waiter *)
(* has not taken the mutex) sees either value: both actions are enabled.   *)
(***************************************************************************)
SeesRunning == cmd # None /\ proc[cmd] # "gone"
SeesStopped == cmd # None => proc[cmd] \in {"reaped", "gone"}

\* What a started child finds: the stale PID file removed, no error recorded.
KeepStalePidFile   == pidFile' = pidFile      \* mutant: no os.Remove
RemoveStalePidFile == pidFile' = None
KeepError  == lastError' = lastError          \* mutant: no reset
ResetError == lastError' = "none"

StartAlreadyRunning(h) ==
  /\ pc[h] = "start"
  /\ SeesRunning
  /\ Goto(h, "ok")
  /\ UNCHANGED <<managerVars, osVars, op, target, older>>

\* The early returns of Start: some come before the stale PID file is removed.
StartPrepareFails(h) ==
  /\ pc[h] = "start"
  /\ SeesStopped
  /\ "prepare" \in Faults
  /\ pidFile' \in {pidFile, None}
  /\ Goto(h, "failed")
  /\ UNCHANGED <<managerVars, proc, signal, op, target, older>>

StartExecFails(h) ==
  /\ pc[h] = "start"
  /\ SeesStopped
  /\ "exec" \in Faults
  /\ pidFile' = None
  /\ lastError' = "exec"
  /\ Goto(h, "failed")
  /\ UNCHANGED <<cmd, proc, signal, op, target, older>>

StartSpawns(h) ==
  /\ pc[h] = "start"
  /\ SeesStopped
  /\ \E p \in Procs :
       /\ Unused(p)
       /\ proc' = [proc EXCEPT ![p] = "booting"]
       /\ cmd' = p
  /\ RemoveStalePidFile
  /\ ResetError
  /\ Goto(h, "ok")
  /\ UNCHANGED <<signal, op, target, older>>

-----------------------------------------------------------------------------
(***************************************************************************)
(* Stop, and Restart, which is Stop followed by Start unless Stop failed.  *)
(***************************************************************************)
StopReturns(h) ==
  /\ Goto(h, IF op[h] = "restart" THEN "start" ELSE "ok")
  /\ target' = [target EXCEPT ![h] = None]

ForgetsNilCheck == FALSE                      \* mutant: no test for nil
SeesNoChild     == cmd = None

StopNothing(h) ==
  /\ pc[h] = "stop"
  /\ SeesNoChild
  /\ StopReturns(h)
  /\ UNCHANGED <<managerVars, osVars, op, older>>

StopSnapshot(h) ==
  /\ pc[h] = "stop"
  /\ ~SeesNoChild
  /\ target' = [target EXCEPT ![h] = cmd]
  /\ Goto(h, "term")
  /\ UNCHANGED <<managerVars, osVars, op, older>>

\* kill(-pid, sig): without effect (ESRCH) once the process has been collected.
Kill(p, sig) ==
  signal' = [signal EXCEPT ![p] = IF Unreaped(p) /\ @ # "kill" THEN sig ELSE @]

StopTerm(h) ==
  /\ pc[h] = "term"
  /\ Kill(target[h], "term")
  /\ Goto(h, "wait6")
  /\ UNCHANGED <<managerVars, proc, pidFile, op, target, older>>

\* The receive from done, in either select.
DoesNotWait(h)  == TRUE                       \* mutant: signal and go on
WaitsForNil(h)  == cmd = None                 \* mutant: poll m.cmd, not done
DoneIsClosed(h) == proc[target[h]] = "gone"

StopSeesExit(h) ==
  /\ pc[h] \in {"wait6", "wait2"}
  /\ DoneIsClosed(h)
  /\ Goto(h, "unlink")
  /\ UNCHANGED <<managerVars, osVars, op, target, older>>

\* The six second timer fires: SIGKILL.
StopKill(h) ==
  /\ pc[h] = "wait6"
  /\ "hang" \in Faults
  /\ Kill(target[h], "kill")
  /\ Goto(h, "wait2")
  /\ UNCHANGED <<managerVars, proc, pidFile, op, target, older>>

\* Either kill(2) fails, or the two second timer fires as well.
StopFails(h) ==
  /\ \/ pc[h] = "term" /\ "kill" \in Faults
     \/ pc[h] = "wait6" /\ {"kill", "hang"} \subseteq Faults
     \/ pc[h] = "wait2" /\ "hang" \in Faults
  /\ Goto(h, "failed")
  /\ target' = [target EXCEPT ![h] = None]
  /\ UNCHANGED <<managerVars, osVars, op, older>>

StopUnlink(h) ==
  /\ pc[h] = "unlink"
  /\ pidFile' = None
  /\ StopReturns(h)
  /\ UNCHANGED <<managerVars, proc, signal, op, older>>

\* The caller has its error value and goes on (an HTTP reply, usually).
Return(h) ==
  /\ pc[h] \in {"ok", "failed"}
  /\ Goto(h, "idle")
  /\ older' = [older EXCEPT ![h] = {}]
  /\ op' = [op EXCEPT ![h] = "start"]
  /\ UNCHANGED <<managerVars, osVars, target>>

-----------------------------------------------------------------------------
(***************************************************************************)
(* The child.  twistd writes its PID while it boots, and on a clean exit   *)
(* removes the file if its reduced privileges allow that.                  *)
(***************************************************************************)
TwistdServes(p) ==
  /\ proc[p] = "booting"
  /\ proc' = [proc EXCEPT ![p] = "serving"]
  /\ pidFile' = p
  /\ UNCHANGED <<managerVars, signal, callVars>>

TwistdExits(p) ==
  /\ Running(p)
  /\ signal[p] # "none" \/ "crash" \in Faults
  /\ proc' = [proc EXCEPT ![p] = "zombie"]
  /\ pidFile' \in {pidFile} \cup (IF proc[p] = "serving" THEN {None} ELSE {})
  /\ UNCHANGED <<managerVars, signal, callVars>>

\* cmd.Wait collects the process and sets cmd.ProcessState, without the mutex.
WaitCollects(p) ==
  /\ proc[p] = "zombie"
  /\ proc' = [proc EXCEPT ![p] = "reaped"]
  /\ UNCHANGED <<managerVars, signal, pidFile, callVars>>

\* The goroutine Start launched: under the mutex, forget the child, close done.
ForgetsAny(p)     == TRUE                     \* mutant: no test of m.cmd
ForgetsNothing(p) == FALSE                    \* mutant: only closes done
StillTracked(p)   == cmd = p

WaiterClears(p) ==
  /\ proc[p] = "reaped"
  /\ proc' = [proc EXCEPT ![p] = "gone"]
  /\ IF StillTracked(p)
     THEN cmd' = None /\ lastError' \in {lastError, "exit"}
     ELSE UNCHANGED managerVars
  /\ signal' = [signal EXCEPT ![p] = "none"]
  /\ older' = [h \in Callers |-> older[h] \ {p}]
  /\ UNCHANGED <<pidFile, pc, op, target>>

-----------------------------------------------------------------------------
\* Everything a goroutine does without being asked again.
CallStep(h) ==
  \/ StartAlreadyRunning(h)
  \/ StartPrepareFails(h)
  \/ StartExecFails(h)
  \/ StartSpawns(h)
  \/ StopNothing(h)
  \/ StopSnapshot(h)
  \/ StopTerm(h)
  \/ StopSeesExit(h)
  \/ StopKill(h)
  \/ StopFails(h)
  \/ StopUnlink(h)
  \/ Return(h)

ProcStep(p) ==
  \/ TwistdServes(p)
  \/ TwistdExits(p)
  \/ WaitCollects(p)
  \/ WaiterClears(p)

Next ==
  \/ \E h \in Callers : Call(h) \/ CallStep(h)
  \/ \E p \in Procs : ProcStep(p)

Spec == Init /\ [][Next]_vars

(***************************************************************************)
(* Fairness.  The Go scheduler runs a runnable goroutine, its timers fire, *)
(* and its mutex is handed to the goroutine that has waited longest, so a  *)
(* caller is not overtaken for ever (strong fairness).  The kernel ends a  *)
(* process that was sent SIGKILL, and, unless the daemon may hang, twistd  *)
(* ends on SIGTERM.  Nobody has to make a call, and a daemon that was left *)
(* alone need not exit nor finish booting.                                 *)
(***************************************************************************)
MustExit(p) ==
  /\ signal[p] = "kill" \/ (signal[p] = "term" /\ "hang" \notin Faults)
  /\ TwistdExits(p)

Fairness ==
  /\ \A h \in Callers : SF_vars(CallStep(h))
  /\ \A p \in Procs : /\ WF_vars(MustExit(p))
                      /\ WF_vars(WaitCollects(p))
                      /\ WF_vars(WaiterClears(p))

FairSpec == Spec /\ Fairness

-----------------------------------------------------------------------------
(***************************************************************************)
(* The types, with what Stop relies on after it released the mutex: the    *)
(* cmd and done it still holds are those of a child (never nil).           *)
(***************************************************************************)
TypeOK ==
  /\ cmd \in Procs \cup {None}
  /\ lastError \in {"none", "exec", "exit"}
  /\ proc \in [Procs -> {"booting", "serving", "zombie", "reaped", "gone"}]
  /\ signal \in [Procs -> {"none", "term", "kill"}]
  /\ pidFile \in Procs \cup {None}
  /\ pc \in [Callers -> {"idle", "start", "stop", "term", "wait6", "wait2",
                         "unlink", "ok", "failed"}]
  /\ op \in [Callers -> Operations]
  /\ target \in [Callers -> Procs \cup {None}]
  /\ older \in [Callers -> SUBSET Procs]
  /\ \A h \in Callers : pc[h] \in {"term", "wait6", "wait2"} => target[h] # None

(***************************************************************************)
(* A daemon that has not been collected is the one the manager tracks: no  *)
(* interleaving of Starts, Stops and late waiters leaves a daemon that     *)
(* Stop can no longer reach, and there is never more than one.             *)
(***************************************************************************)
NoOrphan == \A p \in Procs : Unreaped(p) => cmd = p

(***************************************************************************)
(* A booting twistd never finds a PID file (it would refuse to start, or   *)
(* fail to replace it), and while one serves the file names no other       *)
(* process: the supervisor, not the daemon, owns the life of that file.    *)
(***************************************************************************)
PidFileIsFresh ==
  \A p \in Procs : /\ proc[p] = "booting" => pidFile = None
                   /\ proc[p] = "serving" => pidFile \in {p, None}

(***************************************************************************)
(* GET /status never shows the error of a daemon long replaced next to the *)
(* daemon that runs: a late waiter must not report its own child's death.  *)
(***************************************************************************)
ErrorMeansDown == \A p \in Procs : Unreaped(p) => lastError = "none"

(***************************************************************************)
(* Once Stop or Restart has returned nil, no daemon that was running when  *)
(* it was called runs any more, whatever the other callers did meanwhile.  *)
(* A PUT that answers 200 therefore never leaves the old configuration in  *)
(* the process that serves.                                                *)
(***************************************************************************)
NoSurvivor(h) == \A p \in older[h] : ~Running(p)

RestartReplaces ==
  \A h \in Callers : pc[h] = "ok" /\ op[h] # "start" => NoSurvivor(h)

\* What makes RestartReplaces inductive: how far each Stop has got.
StopProgress ==
  \A h \in Callers :
    /\ \A p \in older[h] : proc[p] # "gone"
    /\ pc[h] \in {"term", "wait6", "wait2"} =>
         \A p \in older[h] : Running(p) => p = target[h]
    /\ pc[h] \in {"unlink", "start", "ok"} /\ op[h] # "start" => NoSurvivor(h)

(***************************************************************************)
(* When every Start and Restart has returned nil and nobody called Stop, a *)
(* daemon runs that nobody has signalled: a Start answered "already        *)
(* running" by a daemon another goroutine is about to stop is not lost.    *)
(* Only for instances without Stop calls and without failures.             *)
(***************************************************************************)
StartedMeansUp ==
  (\A h \in Callers : pc[h] \in {"idle", "ok"}) /\ (\E h \in Callers : pc[h] = "ok")
    => \E p \in Procs : Running(p) /\ signal[p] = "none"

(***************************************************************************)
(* Many processes, callers and late waiters are to a client of Status one  *)
(* daemon, which lives as OneDaemon says: none starts beside another, none *)
(* is forgotten while it runs, no signal outlives the child it was sent to *)
(* and no error is one of another child.                                   *)
(***************************************************************************)
Life       == IF cmd = None THEN "down" ELSE proc[cmd]
Signalled  == cmd # None /\ signal[cmd] # "none"
Daemon     == INSTANCE OneDaemon WITH life <- Life, signalled <- Signalled, error <- lastError
IsOneDaemon == Daemon!Spec

(***************************************************************************)
(* Every call returns: Stop waits on done and on timers only, and whoever  *)
(* must close done is never waiting for Stop.                              *)
(***************************************************************************)
CallsReturn ==
  \A h \in Callers : pc[h] = "stop" \/ pc[h] = "start" ~> pc[h] \in {"ok", "failed"}

\* A daemon that died is eventually no longer the one /status shows running.
CrashIsReported == \A p \in Procs : proc[p] = "zombie" ~> cmd # p
=============================================================================
