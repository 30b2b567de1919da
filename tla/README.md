# A formal model of spr-opencanary

spr-opencanary is an SPR plugin that runs an OpenCanary honeypot. A small Go
control plane validates the configuration, writes OpenCanary's file, supervises
the daemon (`twistd`), reads its event log and serves an API; a React dashboard
uses that API and, for LAN presence, the API of SPR's programmable firewall.
This directory holds TLA+ modules that model its components, TLC configurations
that check them on small instances, and TLAPS proofs.

Paths below are relative to the repository (`src/` in `PROJECT.json`).

## 1. Inventory

| Component | State | Operations | Who touches it |
| --- | --- | --- | --- |
| Daemon supervisor, `code/daemon.go` | `cmd`, `done`, `startedAt`, `lastError` behind `mu`; the child process; its PID file | `Start`, `Stop`, `Restart`, `Status`, the goroutine that waits for the child | `main` at boot, one goroutine per PUT /config and POST /daemon, the shutdown goroutine; the child itself |
| TLS pair and SSH host keys, `code/daemon.go` | two certificate files, two key files | `ensureTLSCertificate`, `hardenSSHPrivateKeys` | `Start`, and a goroutine of each Start; the child |
| Configuration rules, `code/config.go` | none | `defaultConfig`, `validateConfig`, the candidate of an update, `renderOpenCanaryConfig` | the store |
| Configuration store, `code/config.go` | `currentConfig` behind `configMu`; `config.json`; `opencanary.conf` | `initConfig`, `applyConfigUpdate`, `persistConfig`, `getConfig` | `main` at boot, one goroutine per PUT and GET; the child reads `opencanary.conf` |
| Event log, `code/events.go` | `events.jsonl`, `.1`, `.2` | `loadAlerts`, `clearAlerts` | the child writes and rotates; goroutines of GET /events, GET /status and DELETE /events; no lock |
| Event statistics, `code/events.go` | none | `queryAlerts` | GET /events, GET /status |
| Webhook filter, `scripts/spr_opencanary_filters.py` | none | `filter` | the child's logging |
| HTTP API and life cycle, `code/server.go` | listener, signal context | the handlers, `run`, shutdown | net/http, signals |
| Topology, `code/topology.go` | none | `buildTopology` | GET /topology |
| LAN presence rules, `frontend/src/lanPresenceRules.js` | none | addresses, ranges, port specifications, conflicts, state of the managed flows | the panel |
| LAN presence panel, `frontend/src/LanPresencePanel.js` | the form and `saving`, gone when the user leaves the panel; the firewall's list of flows | apply, remove, load | each open browser tab, and calls of panels that were left; any other client of the firewall |
| Dashboard, `frontend/src/Plugin.js` | status, events, configuration as last answered; the edited draft | polling, save, daemon actions, clear history | each open browser tab |
| Container, `Dockerfile`, `scripts/startup.sh`, compose files | none | build and start-up | - |

How they interact: a PUT locks the store, writes both files, publishes the new
configuration, unlocks, and only then restarts the daemon, which reads
`opencanary.conf` while it boots. The daemon writes the event log that the
control plane reads and clears. The dashboard and the firewall are reached by
requests only.

What is hard, and what makes each component correct:

* **Supervisor.** The mutex protects two fields, not the calls: `Stop` releases
  it and goes on with a remembered child, `Restart` is two calls, and the
  goroutine that waits for a child runs whenever it gets the mutex. Correct
  means: never a daemon that nobody can stop, never two; a successful restart
  has really replaced what ran; a start is not lost; the PID file and the error
  shown belong to the daemon that runs; every call returns.
* **Store.** Two files and a variable must agree although writes fail and the
  process dies between any two of them, and updates are relative to the current
  value (a URL that is not sent is kept). Correct means: each PUT is one atomic
  step or nothing; what is on disk can always be booted, and OpenCanary always
  accepts what it is given.
* **Event log.** Two processes rename, truncate, remove and read the same three
  paths without a lock. Correct means: a clear forgets all that was there, a
  query neither repeats nor needlessly misses an event, and nothing that was
  logged goes missing but what the history must forget.
* **API and life cycle.** A PUT that answered 200 must have its configuration
  in the daemon that serves, while other PUTs and actions run.
* **LAN presence.** Removal by index against a list that may have changed,
  several requests without a transaction, a panel that its user leaves and opens
  again while its call goes on, 32-bit arithmetic on addresses.
* **TLS pair.** Two files made one after the other on the way to a start that
  may fail or die in between. Correct means: no daemon runs with a certificate
  and without its key.
* **Dashboard.** Several requests are under way at once, their answers arrive in
  any order or not at all, and the user goes on; a draft is made of a
  configuration that may have changed, sent as a whole, and replaced by the
  answer. Correct means: what is shown becomes true; a draft without changes is
  the configuration; a save changes what was edited and nothing else, also of
  what the dashboard is never told (the webhook URL); buttons come back.

`PROJECT.json` lists every hazard at its line, with the properties that cover
it or the reason why none does.

## 2. Plan

| Step | Modules | Status |
| --- | --- | --- |
| 1 | `Supervisor`, `MCSupervisor`, `SupervisorProofs` | done |
| 2 | `ConfigRules`, `ConfigRegister`, `ConfigStore`, `MCConfigStore` | done |
| 3 | `EventLog` | done |
| 4 | `ControlPlane`, `MCControlPlane`: INSTANCEs of `Supervisor` and `ConfigStore` composed, with boot and process end | done |
| 5 | `LanRules`, `LanReference` (pure), `LanPresence`, `MCLanPresence` (panels against the firewall's list), `MCLan` | done |
| 6 | `DashboardRules`, `Dashboard`, `MCDashboard`: one dashboard against a register, a daemon and a log | done |
| 7 | `TLSPair`, composed by `ControlPlane` | done |
| 8 | `EventStats` (`queryAlerts` against a definition without sorting), `MCEventLog` | done |
| 9 | `ConfigRulesProofs`, `ConfigStoreProofs`, `ControlPlaneProofs`: every invariant of the store and of the composition, both as an implementation of `ConfigRegister` | done |
| 10 | `EventLogProofs`, `DashboardProofs`, `LanRulesProofs`, `LanPresenceProofs`: every safety property of the event log, the dashboard and the panel | done |
| 11 | `OneDaemon`, implemented by `Supervisor`; proofs about bits and ranges in `LanRulesProofs`, about sorting and counting in `EventLogProofs`: every safety property of every passing run | done |

Abstract specifications, stated, checked and proved: `ConfigRegister` (one
value, replaced atomically), implemented by the store alone and by the whole
control plane; `OneDaemon` (what a client of Status sees), implemented by the
supervisor.

## 3. Modules and their correspondence to the code

### Supervisor

One variable per field of `DaemonManager` that matters (`cmd`, `lastError`),
the kernel's view of each process (`proc`, `signal`), the PID file, and the
position of each calling goroutine (`pc`, `op`, `target`). `older` is a history
variable. `Start` holds the mutex from its test to its last assignment and is
one step with four outcomes (already running, preparation fails, exec fails,
spawned). `Stop` is a step per system call and receive. `Restart` is `Stop`
followed, unless it failed, by `Start`. A process is

    booting -> serving -> zombie -> reaped -> gone

where `reaped` is the moment `cmd.Wait` has set `cmd.ProcessState` and the
waiting goroutine does not have the mutex yet. `Start` reads `ProcessState`
under the mutex, `Wait` writes it without: a data race, so that a Start in that
moment sees the child running or stopped, and both are modelled. Process slots
are reused once nobody holds the pid or the done channel of the old process, so
behaviours are infinite while the state is finite. Reuse of a pid by an
unrelated process is not modelled.

twistd is external: it writes its PID when it comes up, and may or may not
remove the file when it ends.

`OneDaemon` is what the supervisor promises to a client of Status: one daemon
with a life, which was signalled or was not, and an error. It starts only when
there is none or it has been collected, and it dies only of a signal or on its
own account. `Supervisor` implements it with `life` mapped to the state of the
tracked process (`Life`), `signalled` to whether that one was (`Signalled`) and
`error` to `lastError`; a process that is no longer tracked has no part in it.

### ConfigRules, ConfigRegister, ConfigStore

`ConfigRules` has the pure part of `config.go` as operators: `validateConfig`
rule by rule, the candidate of an update, what is rendered. Ignore lists are
bags, because the code sorts them; names, list entries and URLs are opaque,
after trimming. `OpenCanaryAccepts` states what upstream asks of the file.

`ConfigStore` has a step per file write of `initConfig` and of
`applyConfigUpdate`, whose candidate is built and validated under `configMu`.
`atomicWrite` is a rename that happens or does not. `Crash` forgets everything
but the two files; it also stands for SIGTERM, after which `main` returns
without waiting for its handlers.

`ConfigRegister` is what the store promises: one value, one step per accepted
update. `ConfigStore` implements it with `config` mapped to what a client can
tell (`Visible`): the configuration in memory and, while the process is down or
boots, the content of `config.json` (the default before there is one). Thus the
step of a PUT is its commit; when the process dies with `config.json` written,
it is the crash. After a failed second write (finding 1) that may be a PUT that
was refused: late, but never mixed with another and never applied to a value it
was not made for.

### EventLog

Paths are numbered: 0 is `events.jsonl`, i is `events.jsonl.i`. The handler's
rotation is a step per `exists`, `remove` and `rename`, a query a step per path,
a clear a step per path. A rotation that finds a file gone raises an exception,
which costs the record and closes the file until the next one. The daemon may be
killed between any two steps. What a query has collected is counted per record
(`alerts`), so that a record found twice shows. Two history variables name what
may be missing: `settled` is what a query must have, an alert that was on disk
when it began and has been, at every moment, either collected or on a path yet to
be read; `forgone` is what the history may be without, the records that a clear
or the limit of backups takes and the one that is lost when the daemon dies or
its rotation is broken off. A scan is taken as one step: bytes appended
meanwhile are seen or not, and a line cut by a truncation does not parse.

`EventStats` has the sort of `loadAlerts` and `queryAlerts` as operators over a
list of alerts in the order of the files, in instants of which `Hour` make an
hour. To sort and to filter is to arrange positions of the list (`Arranged`):
the k-th is the one up to which there are k, in the order of the times or, for
a filter, in that of the list. `int(d.Hours())` truncates towards zero, which
is where an alert whose clock is ahead goes. `MCEventLog` checks both modules
in one run: a behaviour is one of `EventLog`, or one question to `queryAlerts`.

### ControlPlane, TLSPair

The components as they are (`Store`, `Super`, `TLS`), and what they do together: a
handler of `PUT /config` leaves the store and calls `Restart` in one step, as
nothing lies between the two; `main` starts the daemon when `initConfig` has
returned, and serves when that Start has returned. `version` counts the
renames of `opencanary.conf`, `has` is the version each twistd has read (a step
of its own, before it serves), `due` the version a PUT must answer for, `told`
whether the PUT that wrote the last version was answered 502. All four are
history variables. `Crash` ends the daemon too: the control plane is the first
process of its container (`scripts/startup.sh` ends in `exec`), so that
`run` returning on SIGTERM, before its shutdown goroutine has stopped the
daemon, kills it. GET handlers change nothing and are not in this module;
DELETE /events is in `EventLog`.

The steps of `Start` are composed with those of `TLSPair`: a spawn comes after
`ensureTLSCertificate`, a failed preparation may have stopped it before either
write. Its two writes are one step, because nobody reads the files between them
and a crash there leaves what a failed write leaves.

### LanRules, LanReference, LanPresence

`LanRules` has the functions of `lanPresenceRules.js` as operators. Texts are
what is left after `trim()`: an address text is a pair of numbers, a port text
a sequence of numbers. JavaScript's bitwise operators are modelled by what they
do on `Width` bits (signed result, shift count modulo `Width`, `>>> 0`), over
the set of positions at which a number has a one (`Bits`) and the number that has
its ones there (`OfBits`); powers of two are a recursive function. The filters
over a list of flows are one recursive function (`Kept`).
`LanReference` states what they must mean over sets, for one question per state.
`MCLan` checks it together with `LanPresence`: a behaviour asks one question, runs
one panel beside other clients, or runs a panel and the one that replaces it.

`LanPresence` has a step per request of `apply`, `remove` and `load`, at the
moment it is answered. The firewall is external: a list from which DELETE
removes an index and to which PUT appends. A request may be refused, or be
carried out while its answer is lost, which the panel notices in the same step;
a GET changes nothing, so only its refusal matters. Other clients add any flows
of `OtherFlows` and delete any flow, managed ones included. The indexes that
`remove` goes through, from the last to the first, are a set (`deletes`) whose
largest element is next.

A panel is a tab and a visit to it. `Plugin.js` mounts the panel of the tab that
is chosen and unmounts it with the next choice (`Mounts`, `Leaves`); its states
are then gone, `saving` with them, but not the call that runs, which ends as it
would have, with its message, while its `load()` sets nothing. So the next visit
starts from a `load()` of its own, with its buttons enabled, beside the call of
the one before. `Visits` bounds how many panels of a tab there are at once, those
left during a call included. `Reloads` ends a page in the middle of whatever it
does. The address of the canary is constant: a panel whose `canaryIP` changes
loads again, as one that is opened again does.

Two history variables say what a panel cannot know. `alone`: since its call read
the list, nobody else has removed a flow or put a managed one. `current`: since
it loaded, nobody else has changed the managed flows. A call of a former panel
is somebody else.

### DashboardRules, Dashboard

`DashboardRules` has the pure part of `Plugin.js`: `formFromConfig`, the edits,
the checks of `save` and the body it PUTs, over the same configurations as
`ConfigRules`. A draft holds texts; a port's text is the number it spells, the
text of the ignore list the bag of its lines.

`Dashboard` is one open page. Its variables are the React states (`tab`,
`status`, `events`, `config`, `form`, `baseline` and the flags) and `net`, the
requests whose promise is not settled. A request knows the function that awaits
it (`for`: `load`, `save`, `clear`, `action`, or `none` for the answers that
only set a state), what it asks and what its function has captured (the draft,
the filter). It is carried out by the control plane in one step (`AnswersGet`,
`AppliesPut`, ...) and its answer arrives in a later one (`TakesStatus`,
`TakesConfig`, ...), so requests are carried out and answered in any order.
`Promise.all` resolves with the last and is rejected with the first
(`Rejects`); what is left of it stays in `net` for nobody and sets its state all
the same, which is what the code does. A request may fail, or be lost before,
after, or long before it is carried out (`IsLost`). The control plane is what a
client can tell of it: a register as in `ConfigRegister`, whether the daemon
runs, and the services that are in the log. `UpdateOf`, `candidate` and
`validateConfig` are composed as they are.

`apart` is a history variable: the configuration may have changed in one of the
ways of which the dashboard cannot know. Alerts (pop-up messages) are not
modelled.

## 4. Runs

| Run | Instance | What it shows |
| --- | --- | --- |
| `supervisor_safety` | 2 callers, 3 process slots, all calls, all faults | the first five properties of section 5, and `IsOneDaemon`: to a client of Status the manager is `OneDaemon` |
| `supervisor_up` | 3 callers, 4 slots, Start and Restart, no faults | once all calls have succeeded a daemon runs that nobody has signalled: a Start answered "already running" by a dying daemon is not lost |
| `supervisor_live` | 2 callers, 2 slots, all calls, crashes | every call returns, a death is noticed |
| `config_store` | 2 handlers, 9 updates, crashes and both write failures | the next boot accepts the disk, OpenCanary accepts its file, file and memory agree, every PUT is answered; `ConfigStore` implements `ConfigRegister` |
| `config_split_write` | only that failure | finding 1 |
| `control_plane` | 2 handlers and `main`, 2 process slots, PUTs and starts, all faults of both components, crashes, 3 versions of the file | after a 200 nothing serves an older file than the one the PUT wrote; a daemon that serves an outdated file is about to be replaced, or the last PUT's client was told 502; what runs has a certificate and its key |
| `event_rotation` | 2 backups, 1 record per file, 4 records, 1 query, 1 clear, daemon killed, I/O errors | a clear forgets what was there, queries do not repeat or needlessly miss, nothing is lost but what a clear, the limit or a broken-off rotation takes |
| | the same run, hours of 2 instants, days of 3 hours, lists of 2 and 3 alerts from two hours ahead to more than a day old, limits below, at and above the bounds, filters and searches | counts, bars and pages agree with definitions that neither sort nor truncate |
| `lan_presence` | one tab, one panel at a time, left, opened again and reloaded, 3 drafts (one refused), 4 initial lists, other clients add and delete flows, managed ones included, requests fail, answers are lost | a reported success is real, the panel shows what it manages, an undisturbed call touches no flow of others |
| | the same run, one tab whose panel is left during a call and opened again, so that two calls run at once; one draft beside what is loaded, requests fail, answers are lost, the page is reloaded, no other client | the same of the panel that is open and of the call it replaced |
| | the same run, addresses of 4 bits, 4 ports: all pairs of address texts, 1372 foreign flows against 18 mappings, lists that the panel wrote and lists with one field or flow changed | ranges, overlaps, conflicts and the state shown agree with definitions over sets |
| `dashboard_draft` | 2 services, 4 ports, 2 edits, one PUT of another client, one request that fails or is lost, the settings and services tabs, clearing the history | a draft without changes is the configuration, a save changes only what was edited, the checks refuse nothing that is valid, every flag has a request behind it |
| `dashboard_live` | one service in the log and one that is attacked, filters, polls, refreshes, daemon actions, a daemon that dies | once nothing changes the overview becomes true and stays so |
| `lan_stale_index` | one tab, two visits, nothing fails, no other client | finding 3 |
| `webhook_filter` | the event log with unstructured records | finding 2 |

Bounds, and why they are enough. Two callers give every interleaving of a
remembered child with another call; the third of `supervisor_up` lets a Start
observe a Restart that races with another. At most one process is uncollected,
so a third slot is only needed for a waiter that is late while another child has
already come and gone. The nine updates contain each way to be refused and each
way a URL is given, kept and cleared; two of them in flight are what the lock is
for. In `control_plane` one update is enough, because versions
tell the files apart, and three versions (boot and two PUTs) let one PUT
overtake another; the instance with stops instead of starts was checked too.
In `dashboard_draft` two edits let one be made while the other is saved, and
one fault and one foreign PUT suffice for each of the three ways to be `apart`;
instances with two faults (3.5 million states) and with three edits (2.9
million) were checked too. In `dashboard_live` no request is lost, and clearing
the history is left out; an instance with a lost request but without daemon
actions, and one with clearing, were checked too, and take some minutes. The
log has a service that is not the one filtered by, or answers to different
filters would not differ.
Four bits make every case of JavaScript's shifts: sign bit, prefix 0, full
width, touching ranges. In `lan_presence` lists of three flows before an apply
let every managed flow have a neighbour on each side; no apply is begun on a
longer list. Where two calls of a tab run at once an apply is begun on at most
two flows, and a panel that was left is forgotten, once its call has ended,
before another is opened; instances with longer lists and with another draft of
two rows (some 450 thousand states) were checked too. With one record per file
every record rotates, and four records make the oldest file be dropped while a
query or a clear is under way.

Fairness. `supervisor_live` assumes that goroutines run and that Go's mutex is
handed to the one that has waited longest (its starvation mode), hence strong
fairness of a caller's steps, and that the kernel ends a signalled process. It
has no hanging daemon: with one, the timers of `Stop` end every call by
themselves. `config_store` assumes the same of `sync.RWMutex`. `dashboard_live`
assumes that the timer ticks, that requests that are awaited are carried out and
answered, and that of the others those of one kind are not all left unanswered
for ever: with polling every few seconds and a browser that gives requests up,
each is answered or replaced. None assumes that anybody makes a call, that the
process is started again, or that a daemon boots.

## 5. Properties and proofs

What is proved holds for every value of the constants: any number of callers,
handlers, processes, records, panels, and any subset of the faults. Each module
has one inductive invariant, whose parts say at every point of a call how far it
has got; the properties of the runs are consequences of it. The named
assumptions on constants are evaluated by TLC on every run of the module that
declares them:

| Assumption | What it says |
| --- | --- |
| `SupervisorAssumption` | nil is no process; calls and faults are among those of the code |
| `ConfigRulesAssumption` | `catalog.go`: default ports are distinct, in range and not LLMNR's, something is on by default; the limits are numbers |
| `ConfigStoreAssumption` | no-value is not a configuration, an update or a handler; updates have the types that JSON decoding yields |
| `ControlPlaneAssumption` | those of the two components; `main` is not a handler; more than two serials |
| `EventStatsAssumption` | an hour and a day are positive, the default limit is within the bounds, Go's zero time is more than a day ago; histories are lists with times |
| `EventLogAssumption` | at least one backup and one record per file; no-value is no file |
| `DashboardRulesAssumption` | a blank line is no address; presets are sets of services; service names differ from the other fields of a draft |
| `DashboardAssumption` | the configuration at the start is one the control plane accepts; a reply is not a failure |
| `LanRulesAssumption` | addresses have at least one bit |
| `LanReferenceAssumption` | address texts are what the code can read; the firewall holds addresses, or none; the mappings asked about pass the panel's validators; the lists asked about are lists of flow records |
| `LanPresenceAssumption` | lists are lists |

### Supervisor

| Theorem | Property | Meaning |
| --- | --- | --- |
| `TypeCorrect` | `TypeOK` | types; a Stop that released the mutex never holds nil |
| `NeverOrphans` | `NoOrphan` | a process that is not collected is the tracked one |
| `PidFileOwned` | `PidFileIsFresh` | a booting twistd finds no PID file; the file never names another process than the one that serves |
| `ErrorsAreCurrent` | `ErrorMeansDown` | no former error beside a live daemon |
| `RestartsReplace` | `RestartReplaces` | a Stop or Restart that returned nil has outlived what ran when it was called |
| `StartedIsUp` | `StartedMeansUp` | without Stop calls and faults, once all calls have returned a daemon runs that nobody has signalled |
| `ManagerIsOneDaemon` | `IsOneDaemon` | the supervisor implements `OneDaemon` |

`TypeOK /\ NoOrphan` is inductive, because a child is spawned only when the
tracked one was collected, and then nothing else is uncollected
(`StoppedMeansCollected`), and because a late waiter forgets only its own child.
The PID file and `lastError` are reset by a spawn and can otherwise be disturbed
only by the one uncollected process. `RestartReplaces` is not inductive: nothing
in it says what a Stop in progress has achieved. `StopProgress` adds that:
between its snapshot and the receive from done, whatever is left of the old
daemons is the child it waits for; after the receive nothing is.

`StartedIsUp` is the one theorem with hypotheses (`Ops` has only Start and
Restart, `Faults` is empty): with a Stop or a crash the daemon may be down, and
rightly so. They are the constants of `supervisor_up`. `Upkeep` accounts for
each daemon that is on its way out by a Restart that waits for it and will start
another.

For `ManagerIsOneDaemon` each step maps to a step of `OneDaemon` or to a stutter:
a call's spawn is its start, a signal reaches the tracked process because nothing
else is left to signal (`NoOrphan`), and a late waiter stutters. `Slots` adds
that a slot is clean when a child is spawned in it, so that no daemon begins with
the signal of a former one, and that the tracked child is never one whose waiter
is done, so that whatever Status shows has somebody to collect it.

### Store and control plane

| Theorem | Property | Meaning |
| --- | --- | --- |
| `ConfigStoreProofs!TypeCorrect` | `TypeOK` | types; the holder of the lock is the one handler between its candidate and its reply |
| `AlwaysBoots` | `BootNeverRefuses` | initConfig accepts what it finds on disk, whenever the process died |
| `DaemonAlwaysAccepts` | `RenderedIsAccepted` | OpenCanary accepts every file the store writes |
| `DaemonFileCurrent` | `DaemonFileIsCurrent` | between PUTs the file renders what GET shows |
| `StoreIsRegister` | `IsRegister` | the store implements `ConfigRegister` |
| `ControlPlaneProofs!TypeCorrect` | `TypeOK` | types; a goroutine is in one component at a time |
| `AppliedServed` | `AppliedIsServed` | after a 200 nothing serves an older file |
| `OutdatedKnown` | `OutdatedIsKnown` | an outdated daemon is about to be replaced, or the client was told 502 |
| `PairsMatch` | `PairMatches` | what runs has a certificate and its key |
| `PlaneIsRegister`, `PlaneNeverOrphans` | (`IsRegister`, `NoOrphan` of the components) | what the components promise, they promise within the composition |

The two files and the variable are written one after the other. `Consistent`
says at each point of a boot and of a PUT which are already new: every
configuration held or stored is an accepted one (`AllAccepted`), a boot has
loaded what is durable (`BootProgress`), and between PUTs `config.json` is the
configuration in memory or one accepted update ahead of it (`PutProgress`); that
last case is finding 1. The lemmas of `ConfigRulesProofs` say that the default
is accepted, that an update which passes `validateConfig` gives a configuration,
and that what is rendered of an accepted one is a file OpenCanary takes. For the
refinement each step maps to an accepted update or to a stutter; a PUT happens
when `config` is assigned, or at the crash that leaves `config.json` ahead.

`ControlPlaneProofs` proves that every step of the composition is a step of the
store, and of the supervisor unless the process dies, so the invariants of both
carry over instead of being proved again. `Meeting` adds what concerns the file
in which they meet: while a PUT waits for its Restart, a daemon that did not run
when the Restart was called has read nothing yet, or the version of that PUT or
a later one (`ReadsWhatIsDue`); a daemon that has read anything but the last
version implies a handler that answers for that version, or has answered 502
(`OldIsKnown`). `AppliedIsServed` is then `RestartReplaces` of the supervisor,
applied to the daemons that did run.

### Event log

| Theorem | Property | Meaning |
| --- | --- | --- |
| `TypeCorrect` | `TypeOK` | no file exceeds its limit; a record waits exactly while files are moved up |
| `ClearsForget` | `ClearForgets` | what a DELETE that returned 200 removed never shows again |
| `QueriesCountOnce` | `NoDuplicates` | no query counts an alert twice |
| `QueriesSeeSettled` | `SettledAreSeen` | a query finds what has been ahead of it or read since it began, moved or not |
| `NothingElseLost` | `NothingElseIsLost` | what was logged is on disk, waits for a rotation, or was given up in one of the four ways `forgone` records |
| `BarsCount` | `BarsAreTheDay` | for any history, bars and day count what they say |
| `NewestAreShown` | `NothingNewerIsLeftOut` | for any history, filter and limit, a page shows the newest of what matches |

The argument (`History`) is about directions. A record is on disk at most once
and a step moves it, if at all, to an older path. A query reads from the oldest
path to the newest, so what it has collected is behind it or gone; a clear goes
from the newest to the oldest, so what it has not removed yet is ahead of it.

The last two are about `queryAlerts`, for every question in `Queries`. A place
in an arranged list is the number of positions up to one's own, so that places
and positions correspond one to one (`Arranges`): the sorted list has the
alerts of the history (`SortedSame`), the newest first (`Sorted`), a filtered
one those that pass (`Selected`), and each count of the answer is the
cardinality of a set of positions of the history (`HowMany`).
What remains is arithmetic: which ages truncate to h hours (`OneBar`), and that
the bars together are the day (`OneDay`).

### LAN presence

| Theorem | Property | Meaning |
| --- | --- | --- |
| `RangesExact` | `RangesAreExact` | the arithmetic of `parseAddress` gives the addresses that share the prefix, for any width and prefix length |
| `ConflictsNotMissed` | `NoConflictIsMissed` | a flow that takes a packet of the mapping is reported |
| `ConflictsReal` | `ConflictsAreReal` | a conflict that is reported has such a packet, but for the two ways in which the code errs on this side |
| `OwnFlowsRecognized` | `RecognizesItsOwn` | "published" is shown of exactly the lists the panel would write, for any width of addresses |
| `LanPresenceProofs!TypeCorrect` | `TypeOK` | types; nothing is planned outside a call |
| `SuccessesAreTrue` | `SuccessIsTrue` | a success message of an undisturbed call is true, for any number of panels |
| `UndisturbedDeletes` | `UndisturbedDeletesOnlyManaged` | an undisturbed call deletes no flow of others, and moves none (an action property) |
| `NothingHidden` | `NothingIsHidden` | what a panel shows at rest is what the firewall has, for any number of tabs and panels, but for what others have changed since it loaded |

`Undisturbed` is the invariant of a call that nobody disturbs: what it has yet
to delete is all that is managed, or the managed flows followed by those it has
yet to put are those of its mapping. `RemoveAt` shifts the rest of a list;
because the largest index goes first, the indexes still to be deleted keep their
meaning (`LastManagedRemoved`). `LanRulesProofs` has the lemmas about `Kept`
under appending and removing, by induction over a set of indexes (`UpTo`), which
needs no operator parameter.

`RangesExact` goes from bits to arithmetic and back. A number is known by its
bits, because numbers with the same bits above a position have the same quotient
there; q * 2^k + r has the bits of r below k and those of q above it. So a mask
is 2^w - 2^k, an address under it is a multiple of 2^k, with the host bits it is
the last before the next multiple, and in between are the addresses with the same
quotient. That signed results order wrongly is repaired by `>>> 0`, which the
lemmas show to cancel. Two intervals meet exactly if neither ends before the
other begins, from which both directions of a conflict follow, source,
destination and port in turn.

`NothingHidden` has an invariant per panel (`Shown`): from its `load()` until the
next GET of its call the list it keeps has the managed flows of the firewall, as
long as it is `current`. Its own requests come between that GET and a `load()`,
which ends a call whether it failed or not; all others either leave the managed
flows as they are (`ForeignPut`) or end `current`.

### Dashboard

| Theorem | Property | Meaning |
| --- | --- | --- |
| `TypeCorrect` | `TypeOK` | each flag is set exactly as long as a request behind it is under way; every draft can be sent |
| `CleanCurrent` | `CleanIsCurrent` | without unsaved changes, saving would change nothing |
| `SavesOnlyEdits` | `SavesChangeOnlyEdits` | a save changes what was edited and nothing else (an action property) |
| `ChecksNotStricter` | `ChecksAreNotStricter` | `save` refuses no draft that the control plane accepts |

`Coherence` has five parts: what each request in flight knows and who awaits it
(`Requests`), the flags as functions of that (`Flags`), the draft and its
baseline (`Draft`), and, as long as it is not `apart`, that at most the awaited
PUT is under way and the dashboard shows the configuration or will be told it by
that PUT's answer (`Knowledge`); for each PUT on its way, the parts the user left
alone are those of the register (`Bodies`).

`CleanIsCurrent` is the central invariant of the dashboard. It names what it
cannot promise, in `apart`: another client's PUT, a PUT that took effect
although its answer was lost (or a 502, or that was carried out after a later
one), and a late answer to a `GET /config` that a failed load left behind.
`SavesChangeOnlyEdits` is about a step of the control plane and the draft that
was sent some time before: every part the user did not touch stays as it is, the
URL that the dashboard does not know even when it is `apart`.

### Only model-checked

Liveness: `CallsReturn`, `CrashIsReported`, `PutsAnswered`,
`ShownBecomesTrue`. Fairness is a matter of ENABLED, which the prover does not
handle. `ShownBecomesTrue` is the reason for polling: older answers do
overwrite newer ones, but not for ever.

Each property of a passing run is shown to depend on the code by a mutant: an
operator marked `mutant` beside the definition it replaces, such as the waiting
goroutine without its test of `m.cmd`, or a clear that goes from the oldest file
to the newest.

## 6. Findings

1. `config_split_write` (`code/config.go:375`): when writing `opencanary.conf`
   fails after `config.json` was replaced, the PUT is answered 400 and memory
   keeps the old configuration, but the next boot applies the refused one.
   README.md:73 says that config writes are atomic. (Each file is.)
   `DaemonFileIsCurrent` still holds.
2. `webhook_filter` (`scripts/spr_opencanary_filters.py:17`): what is not
   OpenCanary's JSON passes the filter, on purpose and tested, while
   README.md:16 says that webhooks send attacker events only.

3. `lan_stale_index` (`frontend/src/LanPresencePanel.js:62`): the flows to
   remove are named by their index in a list read before. When another call
   removes a flow in between, a flow that is not managed is deleted. One tab is
   enough: press remove, leave the panel, come back (the buttons are enabled
   again, `Plugin.js:680`, while the old call goes on) and press remove again.
   Another tab, or any client of the firewall, does it as well. README.md:48
   says that removing LAN presence deletes only the flows managed by this
   plugin. `lan_presence` shows that this is the only way: a call nobody
   disturbs touches nothing else, whatever fails.

Met on the way, with no statement to hold against them: `lanPresenceState`
skips blank addresses, so that a managed flow without a source counts as
configured (`lanPresenceRules.js:136`; `RecognizesItsOwn` excuses it), the
removal that ends a `Stop` may hit the PID file of the next daemon
(`daemon.go:231`; in the model, and harmless, since only the next twistd reads
it and wants none), and after a failed apply `load()` replaces the form, so
that a second attempt publishes what was left of the first
(`LanPresencePanel.js:279`).
In the dashboard, a save that was applied is reported as "Could not apply
configuration" when only the refresh after it fails (`Plugin.js:438`); after a
502 or a lost answer `baseline` is old, so that taking the edits back disables
Save while the control plane has the new configuration (`Plugin.js:374`); and of
an alert exactly a day old, or an hour ahead, `Last24Hours` counts what `Hourly`
has no bar for (`events.go:234`; `BarsAreTheDay` says so).

## 7. Not modelled

Rendering and the alerts of the dashboard, static files, logging, HTTP headers,
the text of summaries and errors, certificate contents, the topology view (a
pure function without state), the container build, the spelling of numbers in
the panels' fields (`080` counts as 80). Power failures (a crash is the death
of the process; what was renamed stays renamed), reuse of pids, and the size of
a log line. `hardenSSHPrivateKeys`: it changes modes of files for up to two
seconds after a start and reports nothing. What `initConfig` does with a file
that cannot be read, does not parse or has no webhook kind: nobody but the store
writes `config.json`. Two dashboards at once are one
dashboard and `OtherPuts`.
