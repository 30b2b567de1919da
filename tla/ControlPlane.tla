---------------------------- MODULE ControlPlane ----------------------------
(***************************************************************************)
(* The control plane as a whole: run() and the handlers of code/server.go  *)
(* on top of the configuration store and the supervisor, which meet in     *)
(* one file: the store replaces opencanary.conf, and the twistd that the   *)
(* supervisor spawned reads it while it boots.                             *)
(*                                                                         *)
(* The components are taken as they are (INSTANCE).   A goroutine of       *)
(* net/http is a handler of the store while it applies its update and a    *)
(* caller of the supervisor afterwards.  Versions of opencanary.conf are   *)
(* numbered in the order of their renames, to tell which one a daemon has. *)
(* The TLS pair is made on the way to each Start.                          *)
(***************************************************************************)
EXTENDS Integers, FiniteSets

CONSTANTS
  Handlers,      \* the goroutines of net/http
  Main,          \* the goroutine of run(), which starts the daemon at boot
  Procs,         \* see Supervisor
  Updates,       \* see ConfigStore
  Ops,           \* the actions POST /daemon asks for in this instance
  DaemonFaults,  \* see Supervisor
  StoreFaults,   \* see ConfigStore
  MaxVersion,    \* bound: no PUT is begun once so many versions were written
  Serials,       \* see TLSPair
  None,
  Catalog, DefaultPort, DefaultOn, PortLimit, LlmnrPort, IgnoreLimit,
  NodeIDs, DefaultNode, Addresses, URLs, NoURL   \* see ConfigRules

VARIABLES
  \* of ConfigStore
  currentConfig, configMu, ConfigFile, OpenCanaryConfig, main, loaded,
  putPc, update, wanted,
  \* of Supervisor
  cmd, lastError, proc, signal, pidFile, callPc, op, target, older,
  \* of TLSPair
  TLSCertFile, TLSKeyFile,
  \* of their meeting
  version,   \* how many versions of opencanary.conf were written
  has,       \* the version each daemon has read; 0 when it has read none
  due,       \* the version each PUT has written and must answer for; 0 for none
  told       \* the PUT that wrote the last version was answered 502

storeVars == <<currentConfig, configMu, ConfigFile, OpenCanaryConfig, main, loaded,
               putPc, update, wanted>>
superVars == <<cmd, lastError, proc, signal, pidFile, callPc, op, target, older>>
meetVars  == <<version, has, due, told>>
tlsVars   == <<TLSCertFile, TLSKeyFile>>
vars      == <<storeVars, superVars, tlsVars, meetVars>>

Store == INSTANCE ConfigStore WITH pc <- putPc, Faults <- StoreFaults
Super == INSTANCE Supervisor
           WITH pc <- callPc, Callers <- Handlers \cup {Main}, Faults <- DaemonFaults,
                Ops <- {"start", "stop", "restart"}
TLS   == INSTANCE TLSPair

ASSUME ControlPlaneAssumption ==
  /\ Store!ConfigRulesAssumption /\ Store!ConfigStoreAssumption
  /\ Super!SupervisorAssumption
  /\ Main \notin Handlers /\ MaxVersion \in Nat
  /\ None \notin Serials /\ Cardinality(Serials) > 2

Init ==
  /\ Store!Init
  /\ Super!Init
  /\ TLS!Init
  /\ version = 0
  /\ has = [p \in Procs |-> 0]
  /\ due = [h \in Handlers |-> 0]
  /\ told = FALSE

\* run() accepts connections once its own Start has returned.
Listening == main = "serving" /\ callPc[Main] = "idle"

Calls(h, o) == Super!Call(h) /\ op'[h] = o

-----------------------------------------------------------------------------
(***************************************************************************)
(* run(): initConfig, then daemon.Start, whose error is only printed.      *)
(***************************************************************************)
BootReads ==
  /\ Store!BootLoads \/ Store!BootWritesJson \/ Store!BootFails
  /\ UNCHANGED <<superVars, tlsVars, meetVars>>

\* The version the store renders at boot is the one before, or a newer one.
BootWritesConf ==
  /\ Store!BootWritesConf
  /\ version' = IF OpenCanaryConfig' = OpenCanaryConfig THEN version ELSE version + 1
  /\ UNCHANGED <<superVars, tlsVars, has, due, told>>

BootStarts ==
  /\ Store!BootPublishes
  /\ Calls(Main, "start")
  /\ UNCHANGED <<tlsVars, meetVars>>

-----------------------------------------------------------------------------
(***************************************************************************)
(* PUT /config: applyConfigUpdate, then daemon.Restart, then the answer.   *)
(***************************************************************************)
PutDecodes(h) ==
  /\ Listening
  /\ callPc[h] = "idle"
  /\ version < MaxVersion
  /\ Store!PutDecodes(h)
  /\ UNCHANGED <<superVars, tlsVars, meetVars>>

PutApplies(h) ==
  /\ Store!PutBuilds(h) \/ Store!PutIsInvalid(h) \/ Store!PutWritesJson(h) \/ Store!PutWriteFails(h)
  /\ UNCHANGED <<superVars, tlsVars, meetVars>>

PutWritesConf(h) ==
  /\ Store!PutWritesConf(h)
  /\ version' = version + 1
  /\ due' = [due EXCEPT ![h] = version + 1]
  /\ told' = FALSE
  /\ UNCHANGED <<superVars, tlsVars, has>>

StartsOnly   == "start"                 \* mutant: daemon.Start for a PUT
AfterCommit  == "restart"

PutRestarts(h) ==
  /\ Store!PutCommits(h)
  /\ Calls(h, AfterCommit)
  /\ UNCHANGED <<tlsVars, meetVars>>

\* POST /daemon.
PostDaemon(h) ==
  /\ Listening
  /\ putPc[h] = "idle"
  /\ \E o \in Ops : Calls(h, o)
  /\ UNCHANGED <<storeVars, tlsVars, meetVars>>

\* The answer to either: 200, or 502.
Answers(h) ==
  /\ Super!Return(h)
  /\ told' = (told \/ (callPc[h] = "failed" /\ due[h] # 0 /\ due[h] = version))
  /\ due' = [due EXCEPT ![h] = 0]
  /\ UNCHANGED <<storeVars, tlsVars, version, has>>

-----------------------------------------------------------------------------
\* Start, on behalf of a handler or of run(): the pair, and what follows it.
StartGoesOn(h) ==
  /\ \/ Super!StartAlreadyRunning(h) /\ UNCHANGED tlsVars
     \/ Super!StartPrepareFails(h) /\ (TLS!StopsHalfway \/ TLS!ensureTLSCertificate)
     \/ Super!StartExecFails(h) /\ TLS!ensureTLSCertificate
     \/ Super!StartSpawns(h) /\ TLS!ensureTLSCertificate
  /\ UNCHANGED <<storeVars, meetVars>>

StopGoesOn(h) ==
  /\ \/ Super!StopNothing(h) \/ Super!StopSnapshot(h) \/ Super!StopTerm(h)
     \/ Super!StopSeesExit(h) \/ Super!StopKill(h) \/ Super!StopFails(h)
     \/ Super!StopUnlink(h)
  /\ UNCHANGED <<storeVars, tlsVars, meetVars>>

MainGoesOn ==
  /\ Super!Return(Main)
  /\ UNCHANGED <<storeVars, tlsVars, meetVars>>

\* twistd reads opencanary.conf on its way up, and serves some time later.
DaemonReads(p) ==
  /\ proc[p] = "booting"
  /\ has[p] = 0
  /\ has' = [has EXCEPT ![p] = version]
  /\ UNCHANGED <<storeVars, superVars, tlsVars, version, due, told>>

DaemonServes(p) ==
  /\ has[p] # 0
  /\ Super!TwistdServes(p)
  /\ UNCHANGED <<storeVars, tlsVars, meetVars>>

DaemonEnds(p) ==
  /\ Super!TwistdExits(p) \/ Super!WaitCollects(p)
  /\ UNCHANGED <<storeVars, tlsVars, meetVars>>

DaemonForgotten(p) ==
  /\ Super!WaiterClears(p)
  /\ has' = [has EXCEPT ![p] = 0]
  /\ UNCHANGED <<storeVars, tlsVars, version, due, told>>

(***************************************************************************)
(* The control plane is the first process of its container: when it ends   *)
(* (run() returns on SIGTERM as soon as the listener is closed), the       *)
(* daemon ends with it, and the tmpfs of its PID file goes too.            *)
(***************************************************************************)
Crash ==
  /\ Store!Crash
  /\ cmd' = None /\ lastError' = "none"
  /\ proc' = [p \in Procs |-> "gone"]
  /\ signal' = [p \in Procs |-> "none"]
  /\ pidFile' = None
  /\ callPc' = [h \in Handlers \cup {Main} |-> "idle"]
  /\ op' = [h \in Handlers \cup {Main} |-> "start"]
  /\ target' = [h \in Handlers \cup {Main} |-> None]
  /\ older' = [h \in Handlers \cup {Main} |-> {}]
  /\ has' = [p \in Procs |-> 0]
  /\ due' = [h \in Handlers |-> 0]
  /\ told' = FALSE
  /\ UNCHANGED <<tlsVars, version>>

-----------------------------------------------------------------------------
Next ==
  \/ BootReads \/ BootWritesConf \/ BootStarts \/ MainGoesOn
  \/ Crash
  \/ \E h \in Handlers :
       \/ PutDecodes(h) \/ PutApplies(h) \/ PutWritesConf(h) \/ PutRestarts(h)
       \/ PostDaemon(h) \/ Answers(h)
  \/ \E h \in Handlers \cup {Main} : StartGoesOn(h) \/ StopGoesOn(h)
  \/ \E p \in Procs : DaemonReads(p) \/ DaemonServes(p) \/ DaemonEnds(p) \/ DaemonForgotten(p)

Spec == Init /\ [][Next]_vars

-----------------------------------------------------------------------------
Serving(p) == proc[p] = "serving"

(***************************************************************************)
(* The shape of the composed state: a goroutine is in one component at a   *)
(* time, and a PUT that has written a version has yet to answer for it.    *)
(***************************************************************************)
TypeOK ==
  /\ Store!TypeOK
  /\ Super!TypeOK
  /\ has \in [Procs -> 0 .. version]
  /\ due \in [Handlers -> 0 .. version]
  /\ \A h \in Handlers : /\ putPc[h] = "idle" \/ callPc[h] = "idle"
                         /\ due[h] # 0 => putPc[h] = "commit" \/ callPc[h] # "idle"

(***************************************************************************)
(* A PUT is answered 200 only when no daemon serves anything older than    *)
(* what it wrote, whatever other PUTs and actions run beside it.           *)
(***************************************************************************)
AppliedIsServed ==
  \A h \in Handlers : callPc[h] = "ok" /\ due[h] # 0 =>
    \A p \in Procs : Serving(p) => has[p] >= due[h]

(***************************************************************************)
(* A daemon that serves something else than the last version written is    *)
(* about to be restarted by the PUT that wrote it, or its client was told  *)
(* that the daemon could not be restarted.                                 *)
(***************************************************************************)
OutdatedIsKnown ==
  \A p \in Procs : Serving(p) /\ has[p] # version =>
    told \/ \E h \in Handlers : due[h] = version

(***************************************************************************)
(* A daemon that runs has a certificate and the key it was made with, and  *)
(* keeps them: whether a first start failed or the process died between    *)
(* the two writes, the next start does not trust what it left.             *)
(***************************************************************************)
PairMatches == (\E p \in Procs : Super!Running(p)) => TLS!Matches
=============================================================================
