---------------------------- MODULE ConfigStore ----------------------------
(***************************************************************************)
(* The configuration of the control plane (code/config.go): currentConfig  *)
(* in memory, behind configMu, and two files, config.json (what the next   *)
(* boot reads) and opencanary.conf (what the next twistd reads).           *)
(*                                                                         *)
(* PUT handlers run concurrently; applyConfigUpdate holds configMu from    *)
(* before it looks at currentConfig until it returns.  The process may die *)
(* between any two steps (also on SIGTERM: main returns as soon as Serve   *)
(* does, whatever its handlers are doing) and boots again through          *)
(* initConfig, before it serves anybody.                                   *)
(***************************************************************************)
EXTENDS ConfigRules

CONSTANTS
  Handlers,  \* the net/http goroutines that serve PUT /config
  Updates,   \* the bodies they may decode
  Faults,    \* what may go wrong, a subset of FaultKinds
  None       \* no file, no configuration in memory, nobody

(***************************************************************************)
(* "crash"  the process dies                                               *)
(* "json"   atomicWrite of config.json fails                               *)
(* "conf"   atomicWrite of opencanary.conf fails                           *)
(* atomicWrite renames a complete, synced temporary file over its target,  *)
(* or fails and leaves the target alone.                                   *)
(***************************************************************************)
FaultKinds == {"crash", "json", "conf"}

ASSUME ConfigStoreAssumption ==
  /\ None \notin Handlers /\ None \notin Updates /\ None \notin Configs
  /\ \A u \in Updates : IsUpdate(u)
  /\ Faults \subseteq FaultKinds

VARIABLES
  currentConfig,     \* the configuration in memory; None before it is loaded
  configMu,          \* the writer that holds the lock, or None
  ConfigFile,        \* config.json, or None
  OpenCanaryConfig,  \* opencanary.conf, or None
  main,              \* where run() is
  loaded,            \* initConfig's cfg
  pc,                \* where each handler is
  update,            \* what it decoded
  wanted             \* applyConfigUpdate's candidate

files    == <<ConfigFile, OpenCanaryConfig>>
mainVars == <<main, loaded>>
putVars  == <<pc, update, wanted>>
vars     == <<currentConfig, configMu, files, mainVars, putVars>>

Init ==
  /\ currentConfig = None
  /\ configMu = None
  /\ ConfigFile = None
  /\ OpenCanaryConfig = None
  /\ main = "down"
  /\ loaded = None
  /\ pc = [h \in Handlers |-> "idle"]
  /\ update = [h \in Handlers |-> None]
  /\ wanted = [h \in Handlers |-> None]

Goto(h, label) == pc' = [pc EXCEPT ![h] = label]

-----------------------------------------------------------------------------
(***************************************************************************)
(* initConfig, called by run() before the socket exists.                   *)
(* Only the store writes config.json, so that what it finds can be read,   *)
(* parses, and names the kind of its webhook.                              *)
(***************************************************************************)
BootLoads ==
  /\ main = "down"
  /\ loaded' = IF ConfigFile = None THEN defaultConfig ELSE ConfigFile
  /\ main' = IF validateConfig(loaded') THEN "json" ELSE "refused"
  /\ UNCHANGED <<currentConfig, configMu, files, putVars>>

BootWritesJson ==
  /\ main = "json"
  /\ ConfigFile' = loaded
  /\ main' = "conf"
  /\ UNCHANGED <<currentConfig, configMu, OpenCanaryConfig, loaded, putVars>>

BootWritesConf ==
  /\ main = "conf"
  /\ OpenCanaryConfig' = renderOpenCanaryConfig(loaded)
  /\ main' = "publish"
  /\ UNCHANGED <<currentConfig, configMu, ConfigFile, loaded, putVars>>

BootPublishes ==
  /\ main = "publish"
  /\ currentConfig' = loaded
  /\ main' = "serving"
  /\ loaded' = None
  /\ UNCHANGED <<configMu, files, putVars>>

\* A failed write ends the process; it is started again later.
BootFails ==
  /\ main \in Faults
  /\ main' = "down"
  /\ loaded' = None
  /\ UNCHANGED <<currentConfig, configMu, files, putVars>>

-----------------------------------------------------------------------------
(***************************************************************************)
(* PUT /config.  A handler that answers 400 or 200 is idle again.          *)
(***************************************************************************)
PutDecodes(h) ==
  /\ main = "serving"
  /\ pc[h] = "idle"
  /\ \E u \in Updates : update' = [update EXCEPT ![h] = u]
  /\ Goto(h, "lock")
  /\ UNCHANGED <<currentConfig, configMu, files, mainVars, wanted>>

IgnoresLock == TRUE                     \* mutant: no configMu
LockIsFree  == configMu = None

AcceptsAll(c) == TRUE                   \* mutant: validateConfig not called
Accepts(c)    == validateConfig(c)

\* Lock, build the candidate from what is current now, and validate it.
PutBuilds(h) ==
  /\ pc[h] = "lock"
  /\ LockIsFree
  /\ Accepts(candidate(currentConfig, update[h]))
  /\ configMu' = h
  /\ wanted' = [wanted EXCEPT ![h] = candidate(currentConfig, update[h])]
  /\ Goto(h, "json")
  /\ UNCHANGED <<currentConfig, files, mainVars, update>>

PutIsInvalid(h) ==
  /\ pc[h] = "lock"
  /\ LockIsFree
  /\ ~Accepts(candidate(currentConfig, update[h]))
  /\ Goto(h, "idle")
  /\ update' = [update EXCEPT ![h] = None]
  /\ UNCHANGED <<currentConfig, configMu, files, mainVars, wanted>>

PutWritesJson(h) ==
  /\ pc[h] = "json"
  /\ ConfigFile' = wanted[h]
  /\ Goto(h, "conf")
  /\ UNCHANGED <<currentConfig, configMu, OpenCanaryConfig, mainVars, update, wanted>>

PutWritesConf(h) ==
  /\ pc[h] = "conf"
  /\ OpenCanaryConfig' = renderOpenCanaryConfig(wanted[h])
  /\ Goto(h, "commit")
  /\ UNCHANGED <<currentConfig, configMu, ConfigFile, mainVars, update, wanted>>

\* The handler is done: the deferred Unlock, and its reply.
KeepsLock == UNCHANGED configMu         \* mutant: Unlock not deferred
Unlock    == configMu' = None

Answered(h) ==
  /\ Goto(h, "idle")
  /\ update' = [update EXCEPT ![h] = None]
  /\ wanted' = [wanted EXCEPT ![h] = None]

PutWriteFails(h) ==
  /\ pc[h] \in {"json", "conf"} \cap Faults
  /\ Unlock
  /\ Answered(h)
  /\ UNCHANGED <<currentConfig, files, mainVars>>

PutCommits(h) ==
  /\ pc[h] = "commit"
  /\ currentConfig' = wanted[h]
  /\ configMu' = None
  /\ Answered(h)
  /\ UNCHANGED <<files, mainVars>>

-----------------------------------------------------------------------------
\* The process dies at any point; the files are what survives.
Crash ==
  /\ "crash" \in Faults
  /\ main # "down"
  /\ main' = "down"
  /\ loaded' = None
  /\ currentConfig' = None
  /\ configMu' = None
  /\ pc' = [h \in Handlers |-> "idle"]
  /\ update' = [h \in Handlers |-> None]
  /\ wanted' = [h \in Handlers |-> None]
  /\ UNCHANGED files

Boot == BootLoads \/ BootWritesJson \/ BootWritesConf \/ BootPublishes \/ BootFails

PutStep(h) ==
  \/ PutBuilds(h)
  \/ PutIsInvalid(h)
  \/ PutWritesJson(h)
  \/ PutWritesConf(h)
  \/ PutWriteFails(h)
  \/ PutCommits(h)

Next ==
  \/ Boot
  \/ Crash
  \/ \E h \in Handlers : PutDecodes(h) \/ PutStep(h)

Spec == Init /\ [][Next]_vars

(***************************************************************************)
(* Fairness: a handler goes on, and sync.RWMutex hands the lock to waiting *)
(* writers in turn, hence strong fairness.  Nobody has to start the        *)
(* process, and clients need not ask for anything.                         *)
(***************************************************************************)
FairSpec == Spec /\ \A h \in Handlers : SF_vars(PutStep(h))

-----------------------------------------------------------------------------
(***************************************************************************)
(* The shape of the state, with the lock discipline: exactly the handler   *)
(* that holds configMu is between its candidate and its reply.             *)
(***************************************************************************)
Writing(h) == pc[h] \in {"json", "conf", "commit"}

TypeOK ==
  /\ configMu \in Handlers \cup {None}
  /\ main \in {"down", "json", "conf", "publish", "serving", "refused"}
  /\ pc \in [Handlers -> {"idle", "lock", "json", "conf", "commit"}]
  /\ update \in [Handlers -> Updates \cup {None}]
  /\ wanted \in [Handlers -> Configs \cup {None}]
  /\ {currentConfig, ConfigFile, loaded} \subseteq Configs \cup {None}
  /\ \A h \in Handlers : /\ Writing(h) <=> configMu = h
                         /\ pc[h] # "idle" => main = "serving" /\ update[h] # None
                         /\ Writing(h) <=> wanted[h] # None
  /\ currentConfig # None <=> main = "serving"
  /\ loaded # None <=> main \in {"json", "conf", "publish", "refused"}

(***************************************************************************)
(* initConfig never refuses what an earlier run of the program persisted:  *)
(* whatever was running or failing when the process died, it boots again.  *)
(***************************************************************************)
BootNeverRefuses == main # "refused"

(***************************************************************************)
(* OpenCanary never refuses the file it is given: the rules validateConfig *)
(* enforces on a Config are those upstream enforces on the rendered file,  *)
(* the modules that are not in the catalog included (config.go:218).       *)
(***************************************************************************)
RenderedIsAccepted == OpenCanaryConfig # None => OpenCanaryAccepts(OpenCanaryConfig)

(***************************************************************************)
(* Whenever no PUT is being applied, the daemon's file is the rendering of *)
(* the configuration GET /config shows: a restart at that moment brings up *)
(* what the API says, even after failed writes and concurrent PUTs.        *)
(***************************************************************************)
DaemonFileIsCurrent ==
  main = "serving" /\ configMu = None =>
    OpenCanaryConfig = renderOpenCanaryConfig(currentConfig)

(***************************************************************************)
(* README.md:73, "Config writes are atomic": a PUT that was refused leaves *)
(* no trace, so when none is being applied the next boot reads what the    *)
(* API shows.  Fails when only the second of the two writes fails.         *)
(***************************************************************************)
ConfigWritesAreAtomic ==
  main = "serving" /\ configMu = None => ConfigFile = currentConfig

(***************************************************************************)
(* To its clients the store is one register: what GET /config shows, or    *)
(* will show after the next boot, changes only by an accepted update of    *)
(* the value before it.  No update is lost, none is applied to a stale     *)
(* value (a webhook URL that was cleared does not come back), and no fault *)
(* mixes two configurations.  The step is that of the commit; when the     *)
(* process dies with config.json written, it is the crash, even after a    *)
(* PUT that was answered with an error.                                    *)
(***************************************************************************)
Durable  == IF ConfigFile = None THEN defaultConfig ELSE ConfigFile
Visible  == IF currentConfig = None THEN Durable ELSE currentConfig
Register == INSTANCE ConfigRegister WITH config <- Visible
IsRegister == Register!Spec

(***************************************************************************)
(* Every PUT is answered, or the process died: no path keeps configMu.     *)
(***************************************************************************)
PutsAnswered == \A h \in Handlers : pc[h] # "idle" ~> pc[h] = "idle"
=============================================================================
