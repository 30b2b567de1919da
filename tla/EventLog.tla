------------------------------ MODULE EventLog ------------------------------
(***************************************************************************)
(* The event history: the files events.jsonl (path 0), events.jsonl.1, ... *)
(* that OpenCanary's RotatingFileHandler writes and rotates in the daemon, *)
(* and that loadAlerts reads and clearAlerts empties in the control plane  *)
(* (code/events.go).  The two processes share no lock: every system call   *)
(* of the rotation, every file a query reads and every file a clear        *)
(* removes is a step of its own.                                           *)
(*                                                                         *)
(* A record is a line of the log.  It is an attack (logtype >= 2000), a    *)
(* lifecycle record (below), or odd (not OpenCanary's JSON at all).        *)
(***************************************************************************)
EXTENDS Integers, Sequences, SequencesExt

CONSTANTS
  Backups,     \* eventLogBackups
  Capacity,    \* records that fit in eventLogBytes
  MaxRecords,  \* bound: records logged in a behaviour
  Kinds,       \* the kinds of record this instance logs, a subset of AllKinds
  Readers,     \* goroutines that serve GET /events and GET /status
  Clearers,    \* goroutines that serve DELETE /events
  Faults,      \* subset of FaultKinds
  None         \* no file, no record

AllKinds == {"attack", "lifecycle", "odd"}

\* "kill": the daemon dies; "io": a system call of the control plane fails.
FaultKinds == {"kill", "io"}

Paths   == 0 .. Backups
Records == [id : 1 .. MaxRecords, kind : Kinds]

ASSUME EventLogAssumption ==
  /\ Backups \in Nat \ {0} /\ Capacity \in Nat \ {0} /\ MaxRecords \in Nat
  /\ Kinds \subseteq AllKinds /\ Faults \subseteq FaultKinds
  /\ None \notin Records \cup BoundedSeq(Records, Capacity) \cup (0 .. Backups + 1)

VARIABLES
  file,     \* what each path holds, a sequence of records, or None
  stream,   \* the handler's open file: "attached" to path 0, "closed", "orphan"
  writer,   \* where the daemon is in emit and doRollover
  slot,     \* the path doRollover is moving up by one
  pending,  \* the record that waits for the rollover
  logged,   \* how many records were logged
  sent,     \* the records posted to the webhook
  reading,  \* how many paths each query has read; None when there is no query
  alerts,   \* how often loadAlerts has collected each record (queryAlerts sorts them)
  settled,  \* history: alerts each query has collected, or has ahead of it all along
  clearing, \* how many paths each clear has done; None when there is none
  doomed,   \* history: the records on disk when the clear began
  cleared,  \* history: the records that finished clears have promised away
  forgone   \* history: the records that the history may be without

writerVars == <<stream, writer, slot, pending, logged, sent>>
readVars   == <<reading, alerts>>
clearVars  == <<clearing, doomed, cleared>>
vars       == <<file, writerVars, readVars, settled, clearVars, forgone>>

Lines(f, p) == IF f[p] = None THEN <<>> ELSE f[p]
OnDisk(f)   == UNION {ToSet(Lines(f, p)) : p \in Paths}

\* alertFromLine keeps attacks only; so does what a query can see.
IsAlert(r) == r.kind = "attack"

NoAlerts    == [e \in Records |-> 0]
Count(s, e) == Cardinality({i \in DOMAIN s : s[i] = e})

Init ==
  /\ file = [p \in Paths |-> IF p = 0 THEN <<>> ELSE None]
  /\ stream = "attached"
  /\ writer = "idle"
  /\ slot = 0
  /\ pending = None
  /\ logged = 0
  /\ sent = {}
  /\ reading = [r \in Readers |-> None]
  /\ alerts = [r \in Readers |-> NoAlerts]
  /\ settled = [r \in Readers |-> {}]
  /\ clearing = [c \in Clearers |-> None]
  /\ doomed = [c \in Clearers |-> {}]
  /\ cleared = {}
  /\ forgone = {}

\* The paths a query has yet to read.
Unread(r) == {p \in Paths : p <= Backups - reading[r]}

\* The files become f; an alert that a query can no longer find is not settled any more.
Files(f) ==
  /\ file' = f
  /\ settled' = [r \in Readers |->
       {e \in settled[r] : alerts[r][e] # 0 \/ \E p \in Unread(r) : e \in ToSet(Lines(f, p))}]

\* The record that waits for the rollover, if there is one.
Waiting == {pending} \ {None}

-----------------------------------------------------------------------------
(***************************************************************************)
(* The daemon.  Each handler gets every record: the file handler stores    *)
(* it, the webhook handler posts what WebhookAlertFilter lets through.     *)
(***************************************************************************)
WebhookAlertFilter(r) == r.kind # "lifecycle"

NeverFull    == stream # "orphan"             \* mutant: no shouldRollover
FileWithRoom == stream # "orphan" /\ Len(Lines(file, 0)) < Capacity

\* FileHandler.emit: to the file at path 0, unless that is no longer ours.
Store(r) ==
  IF stream = "orphan"
  THEN UNCHANGED <<file, settled, stream>>
  ELSE /\ Files([file EXCEPT ![0] = Append(Lines(file, 0), r)])
       /\ stream' = "attached"

Logs(kind) ==
  /\ writer = "idle"
  /\ logged < MaxRecords
  /\ logged' = logged + 1
  /\ LET r == [id |-> logged + 1, kind |-> kind]
     IN  /\ sent' = IF WebhookAlertFilter(r) THEN sent \cup {r} ELSE sent
         /\ \/ /\ FileWithRoom \/ stream = "orphan"
               /\ Store(r)
               /\ UNCHANGED <<writer, slot, pending>>
            \/ /\ ~FileWithRoom /\ stream # "orphan"
               /\ writer' = "shift"
               /\ slot' = Backups - 1
               /\ pending' = r
               /\ stream' = "closed"
               /\ UNCHANGED <<file, settled>>
  /\ UNCHANGED <<readVars, clearVars, forgone>>

\* doRollover, from the oldest path down: is there a file to move up?
RolloverLooks ==
  /\ writer = "shift"
  /\ IF file[slot] # None
     THEN writer' = "look" /\ UNCHANGED slot
     ELSE IF slot = 0 THEN writer' = "open" /\ UNCHANGED slot
                      ELSE slot' = slot - 1 /\ UNCHANGED writer
  /\ UNCHANGED <<file, stream, pending, logged, sent, readVars, settled, clearVars, forgone>>

\* Is there one in its way?
RolloverLooksAhead ==
  /\ writer = "look"
  /\ writer' = IF file[slot + 1] = None THEN "rename" ELSE "remove"
  /\ UNCHANGED <<file, stream, slot, pending, logged, sent, readVars, settled, clearVars, forgone>>

\* An exception: logging drops the record, and opens the file again later.
Aborts ==
  /\ writer' = "idle"
  /\ pending' = None
  /\ UNCHANGED <<file, settled, slot, forgone>>

\* Only the oldest file is meant to go.
RolloverRemoves ==
  /\ writer = "remove"
  /\ IF file[slot + 1] = None
     THEN Aborts
     ELSE /\ Files([file EXCEPT ![slot + 1] = None])
          /\ forgone' = IF slot + 1 = Backups THEN forgone \cup ToSet(file[Backups]) ELSE forgone
          /\ writer' = "rename"
          /\ UNCHANGED <<slot, pending>>
  /\ UNCHANGED <<stream, logged, sent, readVars, clearVars>>

RolloverRenames ==
  /\ writer = "rename"
  /\ IF file[slot] = None
     THEN Aborts
     ELSE /\ Files([file EXCEPT ![slot + 1] = file[slot], ![slot] = None])
          /\ IF slot = 0 THEN writer' = "open" /\ UNCHANGED slot
                         ELSE writer' = "shift" /\ slot' = slot - 1
          /\ UNCHANGED <<pending, forgone>>
  /\ UNCHANGED <<stream, logged, sent, readVars, clearVars>>

RolloverStores ==
  /\ writer = "open"
  /\ Store(pending)
  /\ writer' = "idle"
  /\ pending' = None
  /\ forgone' = forgone \ {pending}
  /\ UNCHANGED <<slot, logged, sent, readVars, clearVars>>

\* SIGKILL or a crash, between any two system calls.
DaemonDies ==
  /\ "kill" \in Faults
  /\ writer # "dead"
  /\ writer' = "dead"
  /\ stream' = "closed"
  /\ pending' = None
  /\ forgone' = forgone \cup Waiting
  /\ UNCHANGED <<file, slot, logged, sent, readVars, settled, clearVars>>

\* prepareEventLog creates path 0 when it is missing; twistd opens it.
DaemonStarts ==
  /\ writer = "dead"
  /\ Files([file EXCEPT ![0] = Lines(file, 0)])
  /\ writer' = "idle"
  /\ stream' = "attached"
  /\ UNCHANGED <<slot, pending, logged, sent, readVars, clearVars, forgone>>

-----------------------------------------------------------------------------
(***************************************************************************)
(* loadAlerts: open and scan the paths, the oldest one first.  A scan sees *)
(* what its file held at one moment: what is appended meanwhile is either  *)
(* seen or not, and a line cut short by a truncation does not parse.       *)
(***************************************************************************)
NewestFirst(k) == k                          \* mutant: the other direction
SkipsOne(k)   == IF k = Backups - 1 THEN 0 ELSE Backups - k  \* mutant: index > 1
PathRead(k)   == Backups - k

LoadStarts(r) ==
  /\ reading[r] = None
  /\ reading' = [reading EXCEPT ![r] = 0]
  /\ alerts' = [alerts EXCEPT ![r] = NoAlerts]
  /\ settled' = [settled EXCEPT ![r] = {e \in OnDisk(file) : IsAlert(e)}]
  /\ UNCHANGED <<file, writerVars, clearVars, forgone>>

LoadReads(r) ==
  /\ reading[r] \in Paths
  /\ reading' = [reading EXCEPT ![r] = @ + 1]
  /\ alerts' = [alerts EXCEPT ![r] =
                  [e \in Records |->
                     @[e] + IF IsAlert(e) THEN Count(Lines(file, PathRead(reading[r])), e) ELSE 0]]
  /\ UNCHANGED <<file, writerVars, settled, clearVars, forgone>>

Loaded(r) == reading[r] = Backups + 1

\* The reply, or the error of a file that cannot be read.
LoadReturns(r) ==
  /\ Loaded(r) \/ (reading[r] # None /\ "io" \in Faults)
  /\ reading' = [reading EXCEPT ![r] = None]
  /\ alerts' = [alerts EXCEPT ![r] = NoAlerts]
  /\ settled' = [settled EXCEPT ![r] = {}]
  /\ UNCHANGED <<file, writerVars, clearVars, forgone>>

(***************************************************************************)
(* clearAlerts: truncate path 0, which the daemon keeps open, and remove   *)
(* the others, the newest one first.                                       *)
(***************************************************************************)
OldestFirst(k) == Backups - k                \* mutant: the other direction
PathCleared(k) == k

Unlinks(p)   == TRUE                         \* mutant: os.Remove of every path
IsRemoved(p) == p # 0

ClearStarts(c) ==
  /\ clearing[c] = None
  /\ clearing' = [clearing EXCEPT ![c] = 0]
  /\ doomed' = [doomed EXCEPT ![c] = OnDisk(file)]
  /\ UNCHANGED <<file, writerVars, readVars, settled, cleared, forgone>>

ClearEmpties(c) ==
  /\ clearing[c] \in Paths
  /\ LET p == PathCleared(clearing[c])
     IN  /\ Files([file EXCEPT ![p] = IF @ = None \/ IsRemoved(p) THEN None ELSE <<>>])
         /\ stream' = IF p = 0 /\ IsRemoved(p) /\ stream = "attached" THEN "orphan" ELSE stream
         /\ forgone' = forgone \cup ToSet(Lines(file, p))
                              \cup IF IsRemoved(p) /\ file[p] # None THEN Waiting ELSE {}
  /\ clearing' = [clearing EXCEPT ![c] = @ + 1]
  /\ UNCHANGED <<writer, slot, pending, logged, sent, readVars, doomed, cleared>>

ClearReturns(c) ==
  /\ clearing[c] # None
  /\ \/ clearing[c] = Backups + 1 /\ cleared' = cleared \cup doomed[c]
     \/ clearing[c] # Backups + 1 /\ "io" \in Faults /\ UNCHANGED cleared
  /\ clearing' = [clearing EXCEPT ![c] = None]
  /\ doomed' = [doomed EXCEPT ![c] = {}]
  /\ UNCHANGED <<file, writerVars, readVars, settled, forgone>>

-----------------------------------------------------------------------------
DaemonStep ==
  \/ \E kind \in Kinds : Logs(kind)
  \/ RolloverLooks
  \/ RolloverLooksAhead
  \/ RolloverRemoves
  \/ RolloverRenames
  \/ RolloverStores
  \/ DaemonDies
  \/ DaemonStarts

Next ==
  \/ DaemonStep
  \/ \E r \in Readers : LoadStarts(r) \/ LoadReads(r) \/ LoadReturns(r)
  \/ \E c \in Clearers : ClearStarts(c) \/ ClearEmpties(c) \/ ClearReturns(c)

Spec == Init /\ [][Next]_vars

-----------------------------------------------------------------------------
(***************************************************************************)
(* The shape of the state: a record waits exactly during a rollover, and   *)
(* the daemon has no file open then.                                       *)
(***************************************************************************)
InRollover == writer \in {"shift", "look", "remove", "rename", "open"}

TypeOK ==
  /\ file \in [Paths -> {None} \cup BoundedSeq(Records, Capacity)]
  /\ stream \in {"attached", "closed", "orphan"}
  /\ InRollover \/ writer \in {"idle", "dead"}
  /\ slot \in 0 .. Backups - 1
  /\ pending \in {None} \cup Records
  /\ logged \in 0 .. MaxRecords
  /\ reading \in [Readers -> {None} \cup (0 .. Backups + 1)]
  /\ alerts \in [Readers -> [Records -> Nat]]
  /\ settled \in [Readers -> SUBSET Records]
  /\ clearing \in [Clearers -> {None} \cup (0 .. Backups + 1)]
  /\ doomed \in [Clearers -> SUBSET Records]
  /\ cleared \subseteq Records /\ forgone \subseteq Records
  /\ InRollover <=> pending # None
  /\ InRollover => stream = "closed"

(***************************************************************************)
(* A clear that returned nil has removed everything that was on disk when  *)
(* it was called, although the daemon may have rotated files past it, and  *)
(* nothing of it ever comes back.                                          *)
(***************************************************************************)
ClearForgets == cleared \cap OnDisk(file) = {}

(***************************************************************************)
(* A query never counts an alert twice, even when the daemon rotates while *)
(* it reads: Total, ByService and Hourly are not inflated.                 *)
(***************************************************************************)
NoDuplicates == \A r \in Readers : \A e \in Records : alerts[r][e] <= 1

(***************************************************************************)
(* A query misses no alert that was on disk when it began, unless a clear  *)
(* or the limit of Backups takes it off the disk, or a rotation moves it   *)
(* from the path the query is about to read to the one it has just read.   *)
(* In particular it finds what is moved to a path it has yet to read.      *)
(***************************************************************************)
SettledAreSeen ==
  \A r \in Readers : Loaded(r) => \A e \in settled[r] : alerts[r][e] # 0

(***************************************************************************)
(* Every record ever logged is in the history or about to be written to    *)
(* it, except those that a clear or the limit of Backups has taken, and    *)
(* the one whose rollover was broken off because the daemon died or a      *)
(* clear removed a file under it.  So nothing is written into a file that  *)
(* the control plane has unlinked, and no rename covers an older file.     *)
(***************************************************************************)
NothingElseIsLost ==
  \A n \in 1 .. logged : \E e \in OnDisk(file) \cup Waiting \cup forgone : e.id = n

(***************************************************************************)
(* README.md:16, "Webhooks send attacker events only".  Fails: the filter  *)
(* lets through whatever is not OpenCanary's JSON.                         *)
(***************************************************************************)
WebhooksSendAttackerEventsOnly == \A r \in sent : r.kind = "attack"
=============================================================================
