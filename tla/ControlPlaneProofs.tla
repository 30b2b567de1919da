------------------------- MODULE ControlPlaneProofs -------------------------
(***************************************************************************)
(* Proofs about ControlPlane, for any number of goroutines and processes,  *)
(* any set of updates and any subset of the failures.                      *)
(*                                                                         *)
(* Every step of the control plane is a step of the store, and one of the  *)
(* supervisor unless the whole process dies, so the invariants proved of   *)
(* each component hold of the composition.  What is added here concerns    *)
(* the file in which they meet: which versions a daemon can have read, and *)
(* the pair of files that is made on the way to a Start.                   *)
(***************************************************************************)
EXTENDS ControlPlane, FiniteSetTheorems, TLAPS

StoreProofs == INSTANCE ConfigStoreProofs WITH pc <- putPc, Faults <- StoreFaults
SuperProofs == INSTANCE SupervisorProofs
                 WITH pc <- callPc, Callers <- Handlers \cup {Main}, Faults <- DaemonFaults,
                      Ops <- {"start", "stop", "restart"}

\* What the proofs of the components assume of their constants is the case here.
LEMMA ComponentsAssumed ==
  /\ StoreProofs!ConfigRulesAssumption /\ StoreProofs!ConfigStoreAssumption
  /\ SuperProofs!SupervisorAssumption
<1>1. StoreProofs!ConfigRulesAssumption
  BY ControlPlaneAssumption DEF Store!ConfigRulesAssumption, StoreProofs!ConfigRulesAssumption,
     Store!Llmnr, StoreProofs!Llmnr
<1>2. StoreProofs!ConfigStoreAssumption
  BY ControlPlaneAssumption DEF Store!ConfigStoreAssumption, StoreProofs!ConfigStoreAssumption,
     Store!FaultKinds, StoreProofs!FaultKinds, Store!IsUpdate, StoreProofs!IsUpdate,
     Store!Configs, StoreProofs!Configs, Store!Kinds, StoreProofs!Kinds,
     Store!IgnoreLists, StoreProofs!IgnoreLists, Store!ServiceConfig, StoreProofs!ServiceConfig
<1>3. SuperProofs!SupervisorAssumption
  BY ControlPlaneAssumption DEF Super!SupervisorAssumption, SuperProofs!SupervisorAssumption,
     Super!Operations, SuperProofs!Operations, Super!FaultKinds, SuperProofs!FaultKinds
<1> QED
  BY <1>1, <1>2, <1>3

\* The inductive invariants of the components.
Components == StoreProofs!Consistent /\ SuperProofs!Tracking /\ SuperProofs!StopProgress

\* They hold when the process starts.
LEMMA InitComponents == Init => Components
<1> SUFFICES ASSUME Init PROVE Components
  OBVIOUS
<1>1. StoreProofs!Consistent
  <2>1. StoreProofs!Init
    BY DEF Init, Store!Init, StoreProofs!Init
  <2> QED
    BY <2>1, ComponentsAssumed, StoreProofs!InitConsistent DEF StoreProofs!InitConsistent
<1>2. SuperProofs!Init
  BY DEF Init, Super!Init, SuperProofs!Init
<1>3. SuperProofs!Tracking
  BY <1>2, ComponentsAssumed, SuperProofs!InitTracking DEF SuperProofs!InitTracking
<1>4. SuperProofs!StopProgress
  BY <1>2 DEF SuperProofs!Init, SuperProofs!StopProgress, SuperProofs!NoSurvivor
<1> QED
  BY <1>1, <1>3, <1>4 DEF Components
-----------------------------------------------------------------------------
\* An operator of a component is the one its proofs are about.
LEMMA SameRules ==
  /\ Store!defaultConfig = StoreProofs!defaultConfig
  /\ \A c : Store!renderOpenCanaryConfig(c) = StoreProofs!renderOpenCanaryConfig(c)
  /\ \A c, u : Store!candidate(c, u) = StoreProofs!candidate(c, u)
  /\ \A c : Store!validateConfig(c) <=> StoreProofs!validateConfig(c)
BY DEF Store!defaultConfig, StoreProofs!defaultConfig, Store!renderOpenCanaryConfig,
     StoreProofs!renderOpenCanaryConfig, Store!Llmnr, StoreProofs!Llmnr,
     Store!candidate, StoreProofs!candidate, Store!NextURL, StoreProofs!NextURL,
     Store!validateConfig, StoreProofs!validateConfig, Store!ValidIgnoreIPs,
     StoreProofs!ValidIgnoreIPs, Store!ValidServices, StoreProofs!ValidServices,
     Store!DistinctPorts, StoreProofs!DistinctPorts, Store!ValidWebhook,
     StoreProofs!ValidWebhook, Store!Kinds, StoreProofs!Kinds, Store!Cardinality,
     StoreProofs!Cardinality

\* What the control plane does, the store sees as a step of its own or as none.
LEMMA StoreSteps == [Next]_vars => [StoreProofs!Next]_(StoreProofs!vars)
<1> SUFFICES ASSUME [Next]_vars PROVE [StoreProofs!Next]_(StoreProofs!vars)
  OBVIOUS
<1> USE SameRules DEF StoreProofs!Next, StoreProofs!Boot, StoreProofs!PutStep
<1>1. CASE storeVars' = storeVars
  BY <1>1 DEF storeVars, StoreProofs!vars, StoreProofs!files, StoreProofs!mainVars, StoreProofs!putVars
<1>2. CASE BootReads \/ BootWritesConf \/ BootStarts
  BY <1>2 DEF BootReads, BootWritesConf, BootStarts,
     Store!BootLoads, StoreProofs!BootLoads, Store!BootWritesJson,
     StoreProofs!BootWritesJson, Store!BootFails, StoreProofs!BootFails,
     Store!BootWritesConf, StoreProofs!BootWritesConf, Store!BootPublishes,
     StoreProofs!BootPublishes, Store!files, StoreProofs!files, Store!putVars,
     StoreProofs!putVars
<1>3. CASE Crash
  BY <1>3 DEF Crash,
     Store!Crash, StoreProofs!Crash, Store!files, StoreProofs!files
<1>4. ASSUME NEW h \in Handlers, PutDecodes(h) \/ PutApplies(h) \/ PutWritesConf(h) \/ PutRestarts(h)
      PROVE  StoreProofs!Next
  <2>1. CASE PutDecodes(h)
    BY <2>1 DEF PutDecodes,
     Store!PutDecodes, StoreProofs!PutDecodes, Store!files, StoreProofs!files,
     Store!mainVars, StoreProofs!mainVars, Store!Goto, StoreProofs!Goto
  <2>2. CASE PutApplies(h)
    BY <2>2 DEF PutApplies,
     Store!PutBuilds, StoreProofs!PutBuilds, Store!PutIsInvalid, StoreProofs!PutIsInvalid,
     Store!PutWritesJson, StoreProofs!PutWritesJson, Store!PutWriteFails,
     StoreProofs!PutWriteFails, Store!files, StoreProofs!files, Store!mainVars,
     StoreProofs!mainVars, Store!Goto, StoreProofs!Goto, Store!LockIsFree,
     StoreProofs!LockIsFree, Store!Accepts, StoreProofs!Accepts, Store!Unlock,
     StoreProofs!Unlock, Store!Answered, StoreProofs!Answered
  <2>3. CASE PutWritesConf(h)
    BY <2>3 DEF PutWritesConf,
     Store!PutWritesConf, StoreProofs!PutWritesConf, Store!mainVars, StoreProofs!mainVars,
     Store!Goto, StoreProofs!Goto
  <2>4. CASE PutRestarts(h)
    BY <2>4 DEF PutRestarts,
     Store!PutCommits, StoreProofs!PutCommits, Store!files, StoreProofs!files,
     Store!mainVars, StoreProofs!mainVars, Store!Goto, StoreProofs!Goto, Store!Answered,
     StoreProofs!Answered
  <2> QED
    BY <1>4, <2>1, <2>2, <2>3, <2>4
<1> QED
  BY <1>1, <1>2, <1>3, <1>4 DEF Next, MainGoesOn, PostDaemon, Answers, StartGoesOn, StopGoesOn,
     DaemonReads, DaemonServes, DaemonEnds, DaemonForgotten, vars

\* So does the supervisor, but for a crash, which takes all of its goroutines away.
LEMMA SuperSteps == [Next]_vars /\ ~Crash => [SuperProofs!Next]_(SuperProofs!vars)
<1> SUFFICES ASSUME [Next]_vars, ~Crash PROVE [SuperProofs!Next]_(SuperProofs!vars)
  OBVIOUS
<1> USE DEF SuperProofs!Next, SuperProofs!CallStep, SuperProofs!ProcStep
<1>1. CASE superVars' = superVars
  BY <1>1 DEF superVars, SuperProofs!vars, SuperProofs!managerVars, SuperProofs!osVars,
     SuperProofs!callVars
<1>2. ASSUME NEW h \in Handlers \cup {Main}, NEW o, Calls(h, o) PROVE SuperProofs!Next
  BY <1>2 DEF Calls, Super!Call, SuperProofs!Call, Super!Goto, SuperProofs!Goto, Super!Running,
     SuperProofs!Running, Super!managerVars, SuperProofs!managerVars, Super!osVars,
     SuperProofs!osVars
<1>3. ASSUME NEW h \in Handlers \cup {Main}, Super!Return(h) PROVE SuperProofs!Next
  BY <1>3 DEF Super!Return, SuperProofs!Return, Super!Goto, SuperProofs!Goto, Super!managerVars,
     SuperProofs!managerVars, Super!osVars, SuperProofs!osVars
<1>4. ASSUME NEW h \in Handlers \cup {Main}, StartGoesOn(h) PROVE SuperProofs!Next
  BY <1>4 DEF StartGoesOn,
     Super!StartAlreadyRunning, SuperProofs!StartAlreadyRunning, Super!StartPrepareFails,
     SuperProofs!StartPrepareFails, Super!StartExecFails, SuperProofs!StartExecFails,
     Super!StartSpawns, SuperProofs!StartSpawns, Super!SeesRunning,
     SuperProofs!SeesRunning, Super!SeesStopped, SuperProofs!SeesStopped, Super!Unused,
     SuperProofs!Unused, Super!RemoveStalePidFile, SuperProofs!RemoveStalePidFile,
     Super!ResetError, SuperProofs!ResetError, Super!Goto, SuperProofs!Goto,
     Super!managerVars, SuperProofs!managerVars, Super!osVars, SuperProofs!osVars
<1>5. ASSUME NEW h \in Handlers \cup {Main}, StopGoesOn(h) PROVE SuperProofs!Next
  BY <1>5 DEF StopGoesOn,
     Super!StopNothing, SuperProofs!StopNothing, Super!StopSnapshot,
     SuperProofs!StopSnapshot, Super!StopTerm, SuperProofs!StopTerm, Super!StopSeesExit,
     SuperProofs!StopSeesExit, Super!StopKill, SuperProofs!StopKill, Super!StopFails,
     SuperProofs!StopFails, Super!StopUnlink, SuperProofs!StopUnlink, Super!StopReturns,
     SuperProofs!StopReturns, Super!SeesNoChild, SuperProofs!SeesNoChild,
     Super!DoneIsClosed, SuperProofs!DoneIsClosed, Super!Kill, SuperProofs!Kill,
     Super!Unreaped, SuperProofs!Unreaped, Super!Goto, SuperProofs!Goto,
     Super!managerVars, SuperProofs!managerVars, Super!osVars, SuperProofs!osVars
<1>6. ASSUME NEW p \in Procs, DaemonServes(p) \/ DaemonEnds(p) \/ DaemonForgotten(p)
      PROVE  SuperProofs!Next
  BY <1>6 DEF DaemonServes, DaemonEnds, DaemonForgotten,
     Super!TwistdServes, SuperProofs!TwistdServes, Super!TwistdExits,
     SuperProofs!TwistdExits, Super!WaitCollects, SuperProofs!WaitCollects,
     Super!WaiterClears, SuperProofs!WaiterClears, Super!StillTracked,
     SuperProofs!StillTracked, Super!Running, SuperProofs!Running, Super!managerVars,
     SuperProofs!managerVars, Super!callVars, SuperProofs!callVars
<1> QED
  BY <1>1, <1>2, <1>3, <1>4, <1>5, <1>6 DEF Next, BootReads, BootWritesConf, BootStarts,
     MainGoesOn, PutDecodes, PutApplies, PutWritesConf, PutRestarts, PostDaemon, Answers,
     DaemonReads, vars

\* After a crash nothing runs that the supervisor does not know of.
LEMMA CrashResets == Crash => (SuperProofs!Tracking /\ SuperProofs!StopProgress)'
BY ComponentsAssumed DEF Crash, SuperProofs!SupervisorAssumption, SuperProofs!Operations,
   SuperProofs!Tracking, SuperProofs!TypeOK, SuperProofs!NoOrphan, SuperProofs!Unreaped,
   SuperProofs!StopProgress, SuperProofs!NoSurvivor

\* The invariants of the components carry over to the composition.
LEMMA NextComponents == Components /\ [Next]_vars => Components'
<1> SUFFICES ASSUME Components, [Next]_vars PROVE Components'
  OBVIOUS
<1>1. StoreProofs!Consistent'
  BY ComponentsAssumed, StoreSteps, StoreProofs!NextConsistent
  DEF Components, StoreProofs!NextConsistent
<1>2. (SuperProofs!Tracking /\ SuperProofs!StopProgress)'
  BY ComponentsAssumed, SuperSteps, CrashResets, SuperProofs!NextTracking,
     SuperProofs!NextStopProgress
  DEF Components, SuperProofs!NextTracking, SuperProofs!NextStopProgress
<1> QED
  BY <1>1, <1>2 DEF Components
-----------------------------------------------------------------------------
(***************************************************************************)
(* The meeting of the two.  While a PUT waits for its Restart, a daemon    *)
(* that did not run when the Restart was called has read nothing, or the   *)
(* version of that PUT or a later one (ReadsWhatIsDue); and as long as a   *)
(* daemon has read something else than the last version, somebody has to   *)
(* answer for that version or has failed to (OldIsKnown).                  *)
(***************************************************************************)
Everybody == Handlers \cup {Main}

Counted ==
  /\ version \in Nat
  /\ has \in [Procs -> 0 .. version]
  /\ due \in [Handlers -> 0 .. version]

OneAtATime ==
  /\ \A h \in Handlers :
       /\ putPc[h] = "idle" \/ callPc[h] = "idle"
       /\ due[h] # 0 => putPc[h] = "commit" \/ (callPc[h] # "idle" /\ op[h] = "restart")
  /\ main # "serving" => /\ \A h \in Everybody : callPc[h] = "idle"
                         /\ \A p \in Procs : proc[p] = "gone"

ReadsBeforeServing ==
  \A p \in Procs : /\ proc[p] = "gone" => has[p] = 0
                   /\ proc[p] = "serving" => has[p] # 0

ReadsWhatIsDue ==
  \A h \in Handlers, p \in Procs :
    due[h] # 0 /\ callPc[h] # "idle" /\ SuperProofs!Running(p) /\ p \notin older[h] =>
      has[p] = 0 \/ has[p] >= due[h]

OldIsKnown ==
  \A p \in Procs : SuperProofs!Running(p) /\ has[p] \notin {0, version} =>
    told \/ \E h \in Handlers : due[h] = version

Meeting == Counted /\ OneAtATime /\ ReadsBeforeServing /\ ReadsWhatIsDue /\ OldIsKnown

\* What a call that goes on does to the state the meeting is about.
LEMMA CallGoesOn ==
  ASSUME SuperProofs!Tracking, NEW h \in Everybody, StartGoesOn(h) \/ StopGoesOn(h)
  PROVE  /\ callPc[h] # "idle" /\ UNCHANGED <<op, older, storeVars, meetVars>>
         /\ \E label \in {"start", "stop", "term", "wait6", "wait2", "unlink", "ok", "failed"} :
              callPc' = [callPc EXCEPT ![h] = label]
         /\ \/ proc' = proc
            \/ \E p \in Procs : /\ proc[p] = "gone"
                                /\ proc' = [proc EXCEPT ![p] = "booting"]
<1>1. CASE StartGoesOn(h)
  BY <1>1 DEF StartGoesOn, Super!StartAlreadyRunning, Super!StartPrepareFails,
     Super!StartExecFails, Super!StartSpawns, Super!Unused, Super!Goto, Super!managerVars,
     Super!osVars
<1>2. CASE StopGoesOn(h)
  BY <1>2 DEF StopGoesOn, Super!StopNothing, Super!StopSnapshot, Super!StopTerm,
     Super!StopSeesExit, Super!StopKill, Super!StopFails, Super!StopUnlink,
     Super!StopReturns, Super!Goto, Super!managerVars, Super!osVars
<1> QED
  BY <1>1, <1>2

\* What is known of the components at any time.
LEMMA Known ==
  ASSUME Components
  PROVE  /\ putPc \in [Handlers -> {"idle", "lock", "json", "conf", "commit"}]
         /\ callPc \in [Everybody -> {"idle", "start", "stop", "term", "wait6", "wait2",
                                      "unlink", "ok", "failed"}]
         /\ proc \in [Procs -> {"booting", "serving", "zombie", "reaped", "gone"}]
         /\ op \in [Everybody -> {"start", "stop", "restart"}]
         /\ older \in [Everybody -> SUBSET Procs]
         /\ \A h \in Handlers : putPc[h] # "idle" => main = "serving"
         /\ \A h \in Everybody : \A p \in older[h] : proc[p] # "gone"
         /\ \A h \in Everybody : callPc[h] = "ok" /\ op[h] = "restart" =>
              \A p \in older[h] : ~SuperProofs!Running(p)
BY DEF Components, StoreProofs!Consistent, StoreProofs!TypeOK, SuperProofs!Tracking,
   SuperProofs!TypeOK, SuperProofs!Operations, SuperProofs!StopProgress,
   SuperProofs!NoSurvivor, Everybody

\* At boot no version was applied and no daemon has read one.
LEMMA InitMeeting == Init => Meeting
<1> SUFFICES ASSUME Init PROVE Meeting
  OBVIOUS
<1>1. Counted
  BY DEF Init, Counted
<1>2. OneAtATime
  BY DEF Init, Store!Init, Super!Init, OneAtATime, Everybody
<1>3. ReadsBeforeServing
  BY DEF Init, Super!Init, ReadsBeforeServing
<1>4. ReadsWhatIsDue /\ OldIsKnown
  BY DEF Init, Super!Init, ReadsWhatIsDue, OldIsKnown, SuperProofs!Running
<1> QED
  BY <1>1, <1>2, <1>3, <1>4 DEF Meeting

\* What concerns the file in which they meet is inductive, given the components.
LEMMA NextMeeting == Components /\ Meeting /\ [Next]_vars => Meeting'
<1> SUFFICES ASSUME Components, Meeting, [Next]_vars PROVE Meeting'
  OBVIOUS
<1> USE Known, ControlPlaneAssumption DEF Meeting, Counted, OneAtATime, ReadsBeforeServing,
        ReadsWhatIsDue, OldIsKnown, SuperProofs!Running, Everybody
<1>1. CASE UNCHANGED vars
  BY <1>1 DEF vars, storeVars, superVars, meetVars
<1>2. CASE BootReads
  <2>1. UNCHANGED <<superVars, meetVars, putPc>> /\ main # "serving"
    BY <1>2 DEF BootReads, Store!BootLoads, Store!BootWritesJson, Store!BootFails,
       Store!putVars, Store!ConfigStoreAssumption, Store!FaultKinds
  <2> QED
    BY <2>1 DEF superVars, meetVars
<1>3. CASE BootWritesConf
  <2>1. /\ version' \in {version, version + 1} /\ UNCHANGED <<superVars, putPc, has, due, told>>
        /\ main = "conf" /\ main' = "publish"
    BY <1>3 DEF BootWritesConf, Store!BootWritesConf, Store!putVars
  <2>2. \A p \in Procs : ~SuperProofs!Running(p)
    BY <2>1
  <2>3. Counted'
    BY <2>1
  <2> QED
    BY <2>1, <2>2, <2>3 DEF superVars
<1>4. CASE BootStarts
  BY <1>4 DEF BootStarts, Store!BootPublishes, Store!putVars, Calls, Super!Call, Super!Goto,
     Super!Running, Super!managerVars, Super!osVars, meetVars
<1>5. CASE MainGoesOn
  BY <1>5 DEF MainGoesOn, Super!Return, Super!Goto, Super!managerVars, Super!osVars,
     storeVars, meetVars
<1>6. CASE Crash
  <2>1. Counted'
    BY <1>6 DEF Crash
  <2>2. OneAtATime'
    BY <1>6 DEF Crash, Store!Crash
  <2>3. (ReadsBeforeServing /\ ReadsWhatIsDue /\ OldIsKnown)'
    BY <1>6 DEF Crash
  <2> QED
    BY <2>1, <2>2, <2>3
<1>7. ASSUME NEW h \in Handlers, PutDecodes(h) PROVE Meeting'
  BY <1>7 DEF PutDecodes, Store!PutDecodes, Store!Goto, Store!mainVars, superVars, meetVars
<1>8. ASSUME NEW h \in Handlers, PutApplies(h) PROVE Meeting'
  BY <1>8 DEF PutApplies, Store!PutBuilds, Store!PutIsInvalid, Store!PutWritesJson,
     Store!PutWriteFails, Store!Answered, Store!Goto, Store!mainVars, superVars, meetVars
<1>9. ASSUME NEW h \in Handlers, PutWritesConf(h) PROVE Meeting'
  <2>1. /\ putPc[h] = "conf" /\ putPc' = [putPc EXCEPT ![h] = "commit"]
        /\ version' = version + 1 /\ due' = [due EXCEPT ![h] = version + 1] /\ told' = FALSE
        /\ UNCHANGED <<superVars, has, main>>
    BY <1>9 DEF PutWritesConf, Store!PutWritesConf, Store!Goto, Store!mainVars
  <2>2. Counted'
    BY <2>1
  <2>3. OneAtATime' /\ ReadsBeforeServing'
    BY <2>1 DEF superVars
  <2>4. ReadsWhatIsDue'
    BY <2>1 DEF superVars
  <2>5. OldIsKnown'
    BY <2>1
  <2> QED
    BY <2>2, <2>3, <2>4, <2>5
<1>10. ASSUME NEW h \in Handlers, PutRestarts(h) PROVE Meeting'
  BY <1>10 DEF PutRestarts, Store!PutCommits, Store!Answered, Store!Goto, Store!mainVars,
     Calls, AfterCommit, Super!Call, Super!Goto, Super!Running, Super!managerVars,
     Super!osVars, meetVars
<1>11. ASSUME NEW h \in Handlers, PostDaemon(h) PROVE Meeting'
  BY <1>11 DEF PostDaemon, Listening, Calls, Super!Call, Super!Goto, Super!Running,
     Super!managerVars, Super!osVars, storeVars, meetVars
<1>12. ASSUME NEW h \in Handlers, Answers(h) PROVE Meeting'
  <2>1. /\ callPc[h] \in {"ok", "failed"} /\ callPc' = [callPc EXCEPT ![h] = "idle"]
        /\ op' = [op EXCEPT ![h] = "start"] /\ older' = [older EXCEPT ![h] = {}]
        /\ due' = [due EXCEPT ![h] = 0]
        /\ told' = (told \/ (callPc[h] = "failed" /\ due[h] # 0 /\ due[h] = version))
        /\ UNCHANGED <<proc, putPc, main, version, has>>
    BY <1>12 DEF Answers, Super!Return, Super!Goto, Super!osVars, storeVars
  <2>2. Counted'
    BY <2>1
  <2>3. OneAtATime' /\ ReadsBeforeServing'
    BY <2>1
  <2>4. ReadsWhatIsDue'
    BY <2>1
  <2>5. ASSUME NEW p \in Procs, SuperProofs!Running(p), has[p] \notin {0, version}, ~told'
        PROVE  \E g \in Handlers : due'[g] = version
    <3>1. PICK g \in Handlers : due[g] = version
      BY <2>1, <2>5
    <3>2. ASSUME g = h PROVE FALSE
      <4>1. due[h] = version /\ due[h] # 0
        BY <2>5, <3>1, <3>2
      <4>2. callPc[h] = "ok" /\ op[h] = "restart"
        BY <2>1, <2>5, <4>1
      <4>3. p \notin older[h]
        BY <2>5, <4>2
      <4>4. has[p] = 0 \/ has[p] >= due[h]
        BY <2>5, <4>1, <4>2, <4>3
      <4> QED
        BY <2>5, <4>1, <4>4
    <3> QED
      BY <2>1, <3>1, <3>2
  <2>6. OldIsKnown'
    BY <2>1, <2>5
  <2> QED
    BY <2>2, <2>3, <2>4, <2>6
<1>13. ASSUME NEW h \in Everybody, StartGoesOn(h) \/ StopGoesOn(h) PROVE Meeting'
  BY <1>13, CallGoesOn DEF Components, storeVars, meetVars
<1>14. ASSUME NEW p \in Procs, DaemonReads(p) PROVE Meeting'
  BY <1>14 DEF DaemonReads, storeVars, superVars
<1>15. ASSUME NEW p \in Procs, DaemonServes(p) PROVE Meeting'
  BY <1>15 DEF DaemonServes, Super!TwistdServes, Super!callVars, storeVars, meetVars
<1>16. ASSUME NEW p \in Procs, DaemonEnds(p) PROVE Meeting'
  BY <1>16 DEF DaemonEnds, Super!TwistdExits, Super!WaitCollects, Super!Running,
     Super!callVars, storeVars, meetVars
<1>17. ASSUME NEW p \in Procs, DaemonForgotten(p) PROVE Meeting'
  BY <1>17 DEF DaemonForgotten, Super!WaiterClears, storeVars
<1> QED
  BY <1>1, <1>2, <1>3, <1>4, <1>5, <1>6, <1>7, <1>8, <1>9, <1>10, <1>11, <1>12, <1>13,
     <1>14, <1>15, <1>16, <1>17 DEF Next

\* It holds of every behaviour.
LEMMA Meets == Spec => [](Components /\ Meeting)
BY InitComponents, NextComponents, InitMeeting, NextMeeting, PTL DEF Spec

-----------------------------------------------------------------------------
(***************************************************************************)
(* Types hold in both components, and a goroutine is in one of them at a   *)
(* time.                                                                   *)
(***************************************************************************)
THEOREM TypeCorrect == Spec => []TypeOK
<1>1. Components => Store!TypeOK
  BY DEF Components, StoreProofs!Consistent, Store!TypeOK, StoreProofs!TypeOK, Store!Writing,
     StoreProofs!Writing, Store!Configs, StoreProofs!Configs, Store!Kinds, StoreProofs!Kinds,
     Store!IgnoreLists, StoreProofs!IgnoreLists, Store!ServiceConfig, StoreProofs!ServiceConfig
<1>2. Components => Super!TypeOK
  BY DEF Components, SuperProofs!Tracking, Super!TypeOK, SuperProofs!TypeOK,
     Super!Operations, SuperProofs!Operations
<1>3. Components /\ Meeting => TypeOK
  BY <1>1, <1>2 DEF Meeting, Counted, OneAtATime, TypeOK
<1> QED
  BY Meets, <1>3, PTL

(***************************************************************************)
(* A PUT that is answered 200 has outlived every daemon that ran when its  *)
(* Restart was called, and whatever was started since has read what it     *)
(* wrote, or something newer, before it serves.                            *)
(***************************************************************************)
THEOREM AppliedServed == Spec => []AppliedIsServed
<1>1. ASSUME Components, Meeting, NEW h \in Handlers, callPc[h] = "ok", due[h] # 0,
             NEW p \in Procs, Serving(p)
      PROVE  has[p] >= due[h]
  <2>1. op[h] = "restart"
    BY <1>1, Known DEF Meeting, OneAtATime
  <2>2. SuperProofs!Running(p) /\ has[p] # 0
    BY <1>1 DEF Serving, SuperProofs!Running, Meeting, ReadsBeforeServing
  <2>3. p \notin older[h]
    BY <1>1, <2>1, <2>2, Known DEF Everybody
  <2> QED
    BY <1>1, <2>2, <2>3 DEF Meeting, ReadsWhatIsDue
<1>2. Components /\ Meeting => AppliedIsServed
  BY <1>1 DEF AppliedIsServed
<1> QED
  BY Meets, <1>2, PTL

\* Nobody serves an old configuration without a PUT that still answers for it.
THEOREM OutdatedKnown == Spec => []OutdatedIsKnown
<1>1. Meeting => OutdatedIsKnown
  BY DEF Meeting, ReadsBeforeServing, OldIsKnown, OutdatedIsKnown, Serving,
     SuperProofs!Running
<1> QED
  BY Meets, <1>1, PTL

-----------------------------------------------------------------------------
(***************************************************************************)
(* The TLS pair.  The key is written last, so a key on disk is that of the *)
(* certificate beside it; no process runs before both are there, and from  *)
(* then on they are left alone.                                            *)
(***************************************************************************)
PairProgress ==
  /\ TLSKeyFile # None => TLS!Matches
  /\ PairMatches

\* A pair that is made is none of those that are on disk.
LEMMA FreshIsNew == TLS!Fresh \in Serials \ {None, TLSCertFile, TLSKeyFile}
<1>1. \E s \in Serials : s \notin {TLSCertFile, TLSKeyFile}
  <2> SUFFICES ASSUME Serials \subseteq {TLSCertFile, TLSKeyFile} PROVE FALSE
    OBVIOUS
  <2> DEFINE Two == {TLSCertFile, TLSKeyFile}
  <2>1. IsFiniteSet(Two) /\ Cardinality(Two) <= 2
    <3>1. IsFiniteSet({TLSKeyFile}) /\ Cardinality({TLSKeyFile}) = 1
      BY FS_Singleton
    <3>2. Two = {TLSKeyFile} \cup {TLSCertFile}
      OBVIOUS
    <3> QED
      BY <3>1, <3>2, FS_AddElement
  <2>2. Cardinality(Serials) <= Cardinality(Two) /\ Cardinality(Serials) \in Nat
    BY <2>1, FS_Subset, FS_CardinalityType
  <2> QED
    BY <2>1, <2>2, FS_CardinalityType, ControlPlaneAssumption
<1> QED
  BY <1>1, ControlPlaneAssumption DEF TLS!Fresh

\* A Start makes or completes the pair before it spawns, and nobody else writes it.
LEMMA NextPairProgress == Components /\ PairProgress /\ [Next]_vars => PairProgress'
<1> SUFFICES ASSUME Components, PairProgress, [Next]_vars PROVE PairProgress'
  OBVIOUS
<1> USE FreshIsNew DEF PairProgress, PairMatches, TLS!Matches
<1>1. CASE /\ UNCHANGED tlsVars
           /\ \A p \in Procs : Super!Running(p)' => Super!Running(p)
  BY <1>1 DEF tlsVars
<1>2. ASSUME NEW h \in Handlers \cup {Main}, StartGoesOn(h) PROVE PairProgress'
  <2>1. CASE TLS!ensureTLSCertificate
    BY <2>1 DEF TLS!ensureTLSCertificate, TLS!HasPair, TLS!tlsVars
  <2>2. CASE Super!StartAlreadyRunning(h) /\ UNCHANGED tlsVars
    BY <2>2 DEF Super!StartAlreadyRunning, Super!osVars, Super!Running, tlsVars
  <2>3. CASE Super!StartPrepareFails(h) /\ TLS!StopsHalfway
    BY <2>3 DEF Super!StartPrepareFails, TLS!StopsHalfway, TLS!HasPair, Super!Running
  <2> QED
    BY <1>2, <2>1, <2>2, <2>3 DEF StartGoesOn
<1>3. ASSUME ~\E h \in Handlers \cup {Main} : StartGoesOn(h)
      PROVE  UNCHANGED tlsVars /\ \A p \in Procs : Super!Running(p)' => Super!Running(p)
  <2> USE DEF Super!Running
  <2>1. CASE UNCHANGED <<tlsVars, proc>>
    BY <2>1 DEF tlsVars
  <2>2. CASE Crash
    BY <2>2 DEF Crash
  <2>3. ASSUME NEW p \in Procs, DaemonServes(p) \/ DaemonEnds(p) \/ DaemonForgotten(p)
        PROVE  UNCHANGED tlsVars /\ \A q \in Procs : Super!Running(q)' => Super!Running(q)
    BY <2>3, Known DEF DaemonServes, DaemonEnds, DaemonForgotten, Super!TwistdServes,
       Super!TwistdExits, Super!WaitCollects, Super!WaiterClears
  <2>4. ASSUME NEW h \in Handlers \cup {Main}, NEW o, Calls(h, o) PROVE proc' = proc
    BY <2>4 DEF Calls, Super!Call, Super!osVars
  <2>5. ASSUME NEW h \in Handlers \cup {Main}, Super!Return(h) \/ StopGoesOn(h)
        PROVE  proc' = proc
    BY <2>5 DEF StopGoesOn, Super!Return, Super!StopNothing, Super!StopSnapshot,
       Super!StopTerm, Super!StopSeesExit, Super!StopKill, Super!StopFails,
       Super!StopUnlink, Super!osVars
  <2> QED
    BY <1>3, <2>1, <2>2, <2>3, <2>4, <2>5 DEF Next, BootReads, BootWritesConf, BootStarts,
       MainGoesOn, PutDecodes, PutApplies, PutWritesConf, PutRestarts, PostDaemon, Answers,
       StopGoesOn, DaemonReads, vars, superVars, AfterCommit
<1> QED
  BY <1>1, <1>2, <1>3

\* A daemon that runs finds a certificate and the key it was made with.
THEOREM PairsMatch == Spec => []PairMatches
<1>1. Init => PairProgress
  BY DEF Init, TLS!Init, Super!Init, PairProgress, PairMatches, Super!Running
<1>2. PairProgress => PairMatches
  BY DEF PairProgress
<1> QED
  BY <1>1, <1>2, Meets, NextPairProgress, PTL DEF Spec

-----------------------------------------------------------------------------
(***************************************************************************)
(* What the components promise, they promise within the control plane too: *)
(* to the clients of the API the configuration is one register, and there  *)
(* is never more than the one daemon that Stop can reach.                  *)
(***************************************************************************)
THEOREM PlaneIsRegister == Spec => Store!IsRegister
<1>1. Spec => StoreProofs!Spec
  <2>1. Init => StoreProofs!Init
    BY DEF Init, Store!Init, StoreProofs!Init
  <2> QED
    BY <2>1, StoreSteps, PTL DEF Spec, StoreProofs!Spec
<1>2. StoreProofs!Spec => StoreProofs!IsRegister
  BY ComponentsAssumed, StoreProofs!StoreIsRegister DEF StoreProofs!StoreIsRegister
<1>3. StoreProofs!IsRegister => Store!IsRegister
  <2>1. StoreProofs!Visible = Store!Visible
    BY SameRules DEF StoreProofs!Visible, Store!Visible, StoreProofs!Durable, Store!Durable
  <2>2. StoreProofs!Visible' = Store!Visible'
    BY SameRules DEF StoreProofs!Visible, Store!Visible, StoreProofs!Durable, Store!Durable
  <2>3. StoreProofs!Register!Init => Store!Register!Init
    BY <2>1 DEF StoreProofs!Register!Init, Store!Register!Init,
       StoreProofs!Register!defaultConfig, Store!Register!defaultConfig
  <2>4. [StoreProofs!Register!Next]_(StoreProofs!Visible) => [Store!Register!Next]_(Store!Visible)
    <3>1. SUFFICES ASSUME NEW u \in Updates, StoreProofs!Register!Put(u)
                   PROVE  Store!Register!Put(u)
      BY <2>1, <2>2 DEF StoreProofs!Register!Next, Store!Register!Next
    <3>2. Store!Register!candidate(Store!Visible, u)
            = StoreProofs!Register!candidate(Store!Visible, u)
      BY DEF Store!Register!candidate, StoreProofs!Register!candidate,
         Store!Register!NextURL, StoreProofs!Register!NextURL
    <3>3. ASSUME NEW c, StoreProofs!Register!validateConfig(c)
          PROVE  Store!Register!validateConfig(c)
      BY <3>3 DEF StoreProofs!Register!validateConfig, Store!Register!validateConfig,
         StoreProofs!Register!ValidIgnoreIPs, Store!Register!ValidIgnoreIPs,
         StoreProofs!Register!ValidServices, Store!Register!ValidServices,
         StoreProofs!Register!DistinctPorts, Store!Register!DistinctPorts,
         StoreProofs!Register!ValidWebhook, Store!Register!ValidWebhook,
         StoreProofs!Register!Kinds, Store!Register!Kinds,
         StoreProofs!Register!Cardinality, Store!Register!Cardinality
    <3> QED
      BY <2>1, <2>2, <3>1, <3>2, <3>3 DEF StoreProofs!Register!Put, Store!Register!Put
  <2> QED
    BY <2>3, <2>4, PTL DEF StoreProofs!IsRegister, Store!IsRegister,
       StoreProofs!Register!Spec, Store!Register!Spec
<1> QED
  BY <1>1, <1>2, <1>3, PTL

\* No interleaving of PUTs, of the API and of the boot leaves a second daemon.
THEOREM PlaneNeverOrphans == Spec => []Super!NoOrphan
<1>1. Components => Super!NoOrphan
  BY DEF Components, SuperProofs!Tracking, SuperProofs!NoOrphan, Super!NoOrphan,
     SuperProofs!Unreaped, Super!Unreaped
<1> QED
  BY Meets, <1>1, PTL
=============================================================================
