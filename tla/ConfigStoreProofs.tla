-------------------------- MODULE ConfigStoreProofs --------------------------
(***************************************************************************)
(* Proofs about ConfigStore, for any number of handlers, any set of        *)
(* updates, any catalog and any subset of the failures.                    *)
(*                                                                         *)
(* The two files and the configuration in memory are written one after the *)
(* other, so none of the properties is inductive: Consistent, below, says  *)
(* at each point of a boot and of a PUT which of the three is already new. *)
(* From it follow the safety properties and that the store, seen by its    *)
(* clients, is a register.                                                 *)
(***************************************************************************)
EXTENDS ConfigStore, ConfigRulesProofs

-----------------------------------------------------------------------------
(***************************************************************************)
(* What is in memory and on disk.  Every configuration that is held or     *)
(* stored was accepted; at each point of a boot and of a PUT it is known   *)
(* which of the two files is already the new one.  ConfigFile may be ahead *)
(* of the configuration in memory, by one accepted update at most: after a *)
(* PUT whose second write failed, or while one is between its writes.      *)
(***************************************************************************)
IsRendered(c) == OpenCanaryConfig = renderOpenCanaryConfig(c)

IsAhead == \E u \in Updates : /\ validateConfig(candidate(currentConfig, u))
                              /\ ConfigFile = candidate(currentConfig, u)

AllAccepted ==
  /\ {currentConfig, ConfigFile, loaded} \subseteq Accepted \cup {None}
  /\ \A h \in Handlers : wanted[h] \in Accepted \cup {None}
  /\ OpenCanaryConfig # None => \E c \in Accepted : IsRendered(c)

BootProgress ==
  /\ BootNeverRefuses
  /\ main \in {"json", "conf", "publish"} => loaded = Durable
  /\ main \in {"conf", "publish"} => ConfigFile # None
  /\ main = "publish" => IsRendered(loaded)

PutProgress ==
  /\ main = "serving" => ConfigFile = currentConfig \/ IsAhead
  /\ main = "serving" => ConfigFile # None
  /\ DaemonFileIsCurrent
  /\ \A h \in Handlers :
       /\ Writing(h) => /\ wanted[h] = candidate(currentConfig, update[h])
                        /\ validateConfig(wanted[h])
       /\ pc[h] \in {"json", "conf"} => IsRendered(currentConfig)
       /\ pc[h] = "commit" => IsRendered(wanted[h])
       /\ pc[h] \in {"conf", "commit"} => ConfigFile = wanted[h]

Consistent == TypeOK /\ AllAccepted /\ BootProgress /\ PutProgress

-----------------------------------------------------------------------------
\* The process starts with whatever an earlier life has left on disk.
LEMMA InitConsistent == Init => Consistent
BY ConfigStoreAssumption DEF Init, Consistent, TypeOK, Writing, AllAccepted, BootProgress,
   BootNeverRefuses, PutProgress, DaemonFileIsCurrent, IsAhead

\* Accepted configurations are not None.
LEMMA AcceptedIsSome == None \notin Accepted /\ Accepted \subseteq Configs
BY ConfigStoreAssumption DEF Accepted

\* Every step keeps the types; what a PUT wants is built in one.
LEMMA NextTypeOK == Consistent /\ [Next]_vars => TypeOK'
<1> SUFFICES ASSUME TypeOK, AllAccepted, BootProgress, PutProgress, [Next]_vars PROVE TypeOK'
  BY DEF Consistent
<1> USE ConfigStoreAssumption, AcceptedIsSome DEF TypeOK, Writing, AllAccepted, FaultKinds
<1>1. CASE UNCHANGED vars
  BY <1>1 DEF vars, files, mainVars, putVars
<1>2. CASE Boot
  <2>1. CASE BootLoads
    BY <2>1, DefaultIsAccepted DEF BootLoads, files, putVars, BootProgress, Durable
  <2>2. CASE BootWritesJson
    BY <2>2 DEF BootWritesJson, files, putVars
  <2>3. CASE BootWritesConf
    BY <2>3 DEF BootWritesConf, files, putVars
  <2>4. CASE BootPublishes
    BY <2>4 DEF BootPublishes, files, putVars
  <2>5. CASE BootFails
    BY <2>5 DEF BootFails, files, putVars
  <2> QED
    BY <1>2, <2>1, <2>2, <2>3, <2>4, <2>5 DEF Boot
<1>3. CASE Crash
  BY <1>3 DEF Crash, files
<1>4. ASSUME NEW h \in Handlers, PutDecodes(h) \/ PutStep(h) PROVE TypeOK'
  <2>1. CASE PutDecodes(h)
    BY <2>1 DEF PutDecodes, Goto, mainVars, files
  <2>2. CASE PutBuilds(h)
    BY <2>2, CandidateIsAccepted DEF PutBuilds, Goto, LockIsFree, Accepts, mainVars, files
  <2>3. CASE PutIsInvalid(h)
    BY <2>3 DEF PutIsInvalid, Goto, LockIsFree, mainVars, files
  <2>4. CASE PutWritesJson(h)
    BY <2>4 DEF PutWritesJson, Goto, mainVars
  <2>5. CASE PutWritesConf(h)
    BY <2>5 DEF PutWritesConf, Goto, mainVars
  <2>6. CASE PutWriteFails(h)
    BY <2>6 DEF PutWriteFails, Answered, Unlock, Goto, mainVars, files
  <2>7. CASE PutCommits(h)
    BY <2>7 DEF PutCommits, Answered, Goto, mainVars, files
  <2> QED
    BY <1>4, <2>1, <2>2, <2>3, <2>4, <2>5, <2>6, <2>7 DEF PutStep
<1> QED
  BY <1>1, <1>2, <1>3, <1>4 DEF Next

\* Nothing enters memory or disk that validateConfig has not passed.
LEMMA NextAllAccepted == Consistent /\ [Next]_vars => AllAccepted'
<1> SUFFICES ASSUME TypeOK, AllAccepted, BootProgress, PutProgress, [Next]_vars PROVE AllAccepted'
  BY DEF Consistent
<1> USE ConfigStoreAssumption, AcceptedIsSome DEF TypeOK, AllAccepted, IsRendered
<1>1. CASE UNCHANGED vars
  BY <1>1 DEF vars, files, mainVars, putVars
<1>2. CASE Boot
  <2>1. CASE BootLoads
    BY <2>1, DefaultIsAccepted DEF BootLoads, files, putVars
  <2>2. CASE BootWritesJson
    BY <2>2 DEF BootWritesJson, files, putVars
  <2>3. CASE BootWritesConf
    BY <2>3 DEF BootWritesConf, files, putVars
  <2>4. CASE BootPublishes
    BY <2>4 DEF BootPublishes, files, putVars
  <2>5. CASE BootFails
    BY <2>5 DEF BootFails, files, putVars
  <2> QED
    BY <1>2, <2>1, <2>2, <2>3, <2>4, <2>5 DEF Boot
<1>3. CASE Crash
  BY <1>3 DEF Crash, files
<1>4. ASSUME NEW h \in Handlers, PutDecodes(h) \/ PutStep(h) PROVE AllAccepted'
  <2>1. CASE PutDecodes(h)
    BY <2>1 DEF PutDecodes, Goto, mainVars, files
  <2>2. CASE PutBuilds(h)
    BY <2>2, CandidateIsAccepted DEF PutBuilds, Goto, LockIsFree, Accepts, mainVars, files, Writing
  <2>3. CASE PutIsInvalid(h)
    BY <2>3 DEF PutIsInvalid, Goto, LockIsFree, mainVars, files
  <2>4. CASE PutWritesJson(h)
    BY <2>4 DEF PutWritesJson, Goto, mainVars, Writing
  <2>5. CASE PutWritesConf(h)
    BY <2>5 DEF PutWritesConf, Goto, mainVars, Writing
  <2>6. CASE PutWriteFails(h)
    BY <2>6 DEF PutWriteFails, Answered, Unlock, Goto, mainVars, files
  <2>7. CASE PutCommits(h)
    BY <2>7 DEF PutCommits, Answered, Goto, mainVars, files, Writing
  <2> QED
    BY <1>4, <2>1, <2>2, <2>3, <2>4, <2>5, <2>6, <2>7 DEF PutStep
<1> QED
  BY <1>1, <1>2, <1>3, <1>4 DEF Next

\* A boot brings both files to the configuration it found, in order.
LEMMA NextBootProgress == Consistent /\ [Next]_vars => BootProgress'
<1> SUFFICES ASSUME TypeOK, AllAccepted, BootProgress, PutProgress, [Next]_vars PROVE BootProgress'
  BY DEF Consistent
<1> USE ConfigStoreAssumption, AcceptedIsSome DEF TypeOK, Writing, AllAccepted, IsRendered, BootProgress,
        BootNeverRefuses, Durable
<1>1. CASE UNCHANGED vars
  BY <1>1 DEF vars, files, mainVars, putVars
<1>2. CASE Boot
  <2>1. CASE BootLoads
    BY <2>1, DefaultIsAccepted DEF BootLoads, files, putVars, Accepted
  <2>2. CASE BootWritesJson
    BY <2>2 DEF BootWritesJson, files, putVars
  <2>3. CASE BootWritesConf
    BY <2>3 DEF BootWritesConf, files, putVars
  <2>4. CASE BootPublishes
    BY <2>4 DEF BootPublishes, files, putVars
  <2>5. CASE BootFails
    BY <2>5 DEF BootFails, files, putVars
  <2> QED
    BY <1>2, <2>1, <2>2, <2>3, <2>4, <2>5 DEF Boot
<1>3. CASE Crash
  BY <1>3 DEF Crash, files
<1>4. ASSUME NEW h \in Handlers, PutDecodes(h) \/ PutStep(h) PROVE BootProgress'
  <2>1. CASE PutDecodes(h)
    BY <2>1 DEF PutDecodes, Goto, mainVars, files
  <2>2. CASE PutBuilds(h)
    BY <2>2 DEF PutBuilds, Goto, LockIsFree, Accepts, mainVars, files
  <2>3. CASE PutIsInvalid(h)
    BY <2>3 DEF PutIsInvalid, Goto, LockIsFree, mainVars, files
  <2>4. CASE PutWritesJson(h)
    BY <2>4 DEF PutWritesJson, Goto, mainVars
  <2>5. CASE PutWritesConf(h)
    BY <2>5 DEF PutWritesConf, Goto, mainVars
  <2>6. CASE PutWriteFails(h)
    BY <2>6 DEF PutWriteFails, Answered, Unlock, Goto, mainVars, files
  <2>7. CASE PutCommits(h)
    BY <2>7 DEF PutCommits, Answered, Goto, mainVars, files
  <2> QED
    BY <1>4, <2>1, <2>2, <2>3, <2>4, <2>5, <2>6, <2>7 DEF PutStep
<1> QED
  BY <1>1, <1>2, <1>3, <1>4 DEF Next

\* A PUT changes the files under configMu, config.json first.
LEMMA NextPutProgress == Consistent /\ [Next]_vars => PutProgress'
<1> SUFFICES ASSUME TypeOK, AllAccepted, BootProgress, PutProgress, [Next]_vars PROVE PutProgress'
  BY DEF Consistent
<1> USE ConfigStoreAssumption, AcceptedIsSome DEF TypeOK, Writing, IsRendered, PutProgress,
        DaemonFileIsCurrent, IsAhead
<1>1. CASE UNCHANGED vars
  BY <1>1 DEF vars, files, mainVars, putVars
<1>2. CASE Boot
  <2>1. CASE BootLoads
    BY <2>1 DEF BootLoads, files, putVars
  <2>2. CASE BootWritesJson
    BY <2>2 DEF BootWritesJson, files, putVars
  <2>3. CASE BootWritesConf
    BY <2>3 DEF BootWritesConf, files, putVars
  <2>4. CASE BootPublishes
    BY <2>4 DEF BootPublishes, files, putVars, AllAccepted, BootProgress, Durable
  <2>5. CASE BootFails
    BY <2>5 DEF BootFails, files, putVars
  <2> QED
    BY <1>2, <2>1, <2>2, <2>3, <2>4, <2>5 DEF Boot
<1>3. CASE Crash
  BY <1>3 DEF Crash, files
<1>4. ASSUME NEW h \in Handlers, PutDecodes(h) \/ PutStep(h) PROVE PutProgress'
  <2>1. CASE PutDecodes(h)
    BY <2>1 DEF PutDecodes, Goto, mainVars, files
  <2>2. CASE PutBuilds(h)
    BY <2>2 DEF PutBuilds, Goto, LockIsFree, Accepts, mainVars, files
  <2>3. CASE PutIsInvalid(h)
    BY <2>3 DEF PutIsInvalid, Goto, LockIsFree, mainVars, files
  <2>4. CASE PutWritesJson(h)
    BY <2>4 DEF PutWritesJson, Goto, mainVars
  <2>5. CASE PutWritesConf(h)
    BY <2>5 DEF PutWritesConf, Goto, mainVars
  <2>6. CASE PutWriteFails(h)
    BY <2>6 DEF PutWriteFails, Answered, Unlock, Goto, mainVars, files
  <2>7. CASE PutCommits(h)
    BY <2>7 DEF PutCommits, Answered, Goto, mainVars, files
  <2> QED
    BY <1>4, <2>1, <2>2, <2>3, <2>4, <2>5, <2>6, <2>7 DEF PutStep
<1> QED
  BY <1>1, <1>2, <1>3, <1>4 DEF Next

\* The four parts are inductive together.
LEMMA NextConsistent == Consistent /\ [Next]_vars => Consistent'
BY NextTypeOK, NextAllAccepted, NextBootProgress, NextPutProgress DEF Consistent

\* They hold of every behaviour.
LEMMA Consistency == Spec => []Consistent
BY InitConsistent, NextConsistent, PTL DEF Spec

-----------------------------------------------------------------------------
(***************************************************************************)
(* Types hold, and exactly the handler that holds configMu is between its  *)
(* candidate and its reply.                                                *)
(***************************************************************************)
THEOREM TypeCorrect == Spec => []TypeOK
<1>1. Consistent => TypeOK
  BY DEF Consistent
<1> QED
  BY Consistency, <1>1, PTL

(***************************************************************************)
(* Whatever runs or fails when the process dies, initConfig accepts what   *)
(* it finds: only accepted configurations reach config.json.               *)
(***************************************************************************)
THEOREM AlwaysBoots == Spec => []BootNeverRefuses
<1>1. Consistent => BootNeverRefuses
  BY DEF Consistent, BootProgress
<1> QED
  BY Consistency, <1>1, PTL

\* OpenCanary accepts every opencanary.conf the store ever writes.
THEOREM DaemonAlwaysAccepts == Spec => []RenderedIsAccepted
<1>1. Consistent => RenderedIsAccepted
  BY AcceptedIsRendered DEF Consistent, AllAccepted, IsRendered, RenderedIsAccepted
<1> QED
  BY Consistency, <1>1, PTL

\* Between PUTs, opencanary.conf renders what GET /config shows.
THEOREM DaemonFileCurrent == Spec => []DaemonFileIsCurrent
<1>1. Consistent => DaemonFileIsCurrent
  BY DEF Consistent, PutProgress
<1> QED
  BY Consistency, <1>1, PTL

-----------------------------------------------------------------------------
(***************************************************************************)
(* The store implements the register.  What is visible changes when a PUT  *)
(* commits, and when the process dies while config.json is ahead.          *)
(***************************************************************************)
LEMMA RegisterPut ==
  ASSUME NEW u \in Updates, validateConfig(candidate(Visible, u)), Visible' = candidate(Visible, u)
  PROVE  Register!Next
<1>1. Register!candidate(Visible, u) = candidate(Visible, u)
  BY DEF Register!candidate, Register!NextURL, candidate, NextURL
<1>2. ASSUME NEW c, validateConfig(c) PROVE Register!validateConfig(c)
  <2>1. ValidIgnoreIPs(c.IgnoreIPs) => Register!ValidIgnoreIPs(c.IgnoreIPs)
    BY DEF ValidIgnoreIPs, Register!ValidIgnoreIPs, Cardinality, Register!Cardinality
  <2>2. ValidServices(c.Services) => Register!ValidServices(c.Services)
    BY DEF ValidServices, Register!ValidServices, DistinctPorts, Register!DistinctPorts
  <2>3. ValidWebhook(c.Webhook) => Register!ValidWebhook(c.Webhook)
    BY DEF ValidWebhook, Register!ValidWebhook, Kinds, Register!Kinds
  <2> QED
    BY <1>2, <2>1, <2>2, <2>3 DEF validateConfig, Register!validateConfig
<1> QED
  BY <1>1, <1>2 DEF Register!Next, Register!Put

\* Every other step of the store leaves what the clients see alone.
LEMMA NextRegister == Consistent /\ [Next]_vars => [Register!Next]_Visible
<1> SUFFICES ASSUME TypeOK, BootProgress, PutProgress, [Next]_vars
             PROVE  Register!Next \/ Visible' = Visible
  BY DEF Consistent
<1> USE ConfigStoreAssumption DEF TypeOK, Visible, Durable
<1>1. CASE UNCHANGED vars
  BY <1>1 DEF vars, files
<1>2. CASE Boot
  <2>1. CASE BootWritesJson \/ BootPublishes
    BY <2>1 DEF BootWritesJson, BootPublishes, BootProgress, files
  <2>2. CASE ~(BootWritesJson \/ BootPublishes)
    BY <1>2, <2>2 DEF Boot, BootLoads, BootWritesConf, BootFails, files
  <2> QED
    BY <2>1, <2>2
<1>3. CASE Crash
  <2>1. CASE main = "serving" /\ ConfigFile # currentConfig
    <3>1. PICK u \in Updates : /\ validateConfig(candidate(currentConfig, u))
                               /\ ConfigFile = candidate(currentConfig, u)
      BY <2>1 DEF PutProgress, IsAhead
    <3>2. Visible = currentConfig /\ Visible' = candidate(currentConfig, u)
      BY <1>3, <2>1, <3>1 DEF Crash, files, PutProgress
    <3> QED
      BY <3>1, <3>2, RegisterPut
  <2>2. CASE ~(main = "serving" /\ ConfigFile # currentConfig)
    BY <1>3, <2>2 DEF Crash, files, PutProgress
  <2> QED
    BY <2>1, <2>2
<1>4. ASSUME NEW h \in Handlers, PutCommits(h) PROVE Register!Next
  <2>1. /\ Visible = currentConfig /\ Visible' = candidate(currentConfig, update[h])
        /\ validateConfig(candidate(currentConfig, update[h]))
        /\ update[h] \in Updates
    BY <1>4 DEF PutCommits, files, Writing, PutProgress
  <2> QED
    BY <2>1, RegisterPut
<1>5. ASSUME NEW h \in Handlers, PutDecodes(h) \/ PutStep(h), ~PutCommits(h)
      PROVE  Visible' = Visible
  <2>1. CASE PutWritesJson(h)
    BY <2>1 DEF PutWritesJson, Writing
  <2>2. CASE ~PutWritesJson(h)
    BY <1>5, <2>2 DEF PutDecodes, PutStep, PutBuilds, PutIsInvalid, PutWritesConf,
       PutWriteFails, files
  <2> QED
    BY <2>1, <2>2
<1> QED
  BY <1>1, <1>2, <1>3, <1>4, <1>5 DEF Next

\* The store implements the register: no PUT is lost, none is half done.
THEOREM StoreIsRegister == Spec => IsRegister
<1>1. Init => Register!Init
  BY DEF Init, Register!Init, Visible, Durable, defaultConfig, Register!defaultConfig
<1> QED
  BY <1>1, Consistency, NextRegister, PTL DEF Spec, IsRegister, Register!Spec
=============================================================================
