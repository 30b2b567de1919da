--------------------------- MODULE EventLogProofs ---------------------------
(***************************************************************************)
(* Proofs about EventLog, for any number of backups, any capacity, any     *)
(* number of records and of concurrent queries and clears, and any subset  *)
(* of the failures.                                                        *)
(*                                                                         *)
(* Everything rests on two facts about the files: a record is on disk once *)
(* at most (Unique), and a step moves it, if at all, to an older path      *)
(* (Moves).  A query reads the paths from the oldest down, so what it has  *)
(* collected is behind it; a clear goes the other way, so what it has not  *)
(* removed is ahead of it.                                                 *)
(*                                                                         *)
(* And about EventStats, for histories of any length: places in a sorted   *)
(* or filtered list correspond one to one to positions of the history      *)
(* (Arranges), so that what is counted there is counted here.              *)
(***************************************************************************)
EXTENDS EventLog, EventStats, FiniteSetTheorems, SequenceTheorems, TLAPS

\* The records at a path, and those that were logged and are not in doRollover's hands.
On(p)     == ToSet(Lines(file, p))
Stored(e) == e \in Records /\ e.id <= logged /\ e # pending

Unique ==
  \A p, q \in Paths : \A i \in DOMAIN Lines(file, p), j \in DOMAIN Lines(file, q) :
    Lines(file, p)[i] = Lines(file, q)[j] => p = q /\ i = j

AllStored ==
  /\ \A e \in OnDisk(file) \cup cleared : Stored(e)
  /\ \A c \in Clearers : \A e \in doomed[c] : Stored(e)
  /\ \A r \in Readers : \A e \in Records : alerts[r][e] # 0 => Stored(e)

\* A clear has left nothing behind it of what it is to remove.
ClearProgress ==
  \A c \in Clearers : clearing[c] # None =>
    \A p \in Paths : p < clearing[c] => On(p) \cap doomed[c] = {}

(***************************************************************************)
(* What a query has collected and is still on disk, is at a path the query *)
(* has read; what is settled was collected, or is at a path it has yet to  *)
(* read.                                                                   *)
(***************************************************************************)
IsBehind(r, p) == p > Backups - reading[r]

InSight(r, e) == alerts[r][e] # 0 \/ \E p \in Paths : ~IsBehind(r, p) /\ e \in On(p)

LoadProgress ==
  \A r \in Readers : reading[r] # None =>
    /\ \A p \in Paths : \A e \in On(p) : alerts[r][e] # 0 => IsBehind(r, p)
    /\ \A e \in settled[r] : IsAlert(e) /\ InSight(r, e)

Shape ==
  /\ TypeOK /\ stream # "orphan"
  /\ writer = "open" => file[0] = None
  /\ pending # None => pending.id <= logged

History ==
  Shape /\ Unique /\ AllStored /\ ClearForgets /\ ClearProgress /\ NoDuplicates /\ LoadProgress

-----------------------------------------------------------------------------
\* A file holds a sequence of records, at most as many as fit.
LEMMA FilesAreShort ==
  \A s : s \in BoundedSeq(Records, Capacity) <=> s \in Seq(Records) /\ Len(s) <= Capacity
<1> USE EventLogAssumption DEF BoundedSeq, SeqOf
<1>1. ASSUME NEW n \in 0 .. Capacity, NEW s \in [1 .. n -> Records]
      PROVE  s \in Seq(Records) /\ Len(s) <= Capacity
  BY IsASeq
<1>2. ASSUME NEW s \in Seq(Records), Len(s) <= Capacity
      PROVE  s \in BoundedSeq(Records, Capacity)
  <2>1. Len(s) \in 0 .. Capacity /\ s \in [1 .. Len(s) -> Records]
    BY <1>2, LenProperties
  <2> QED
    BY <2>1
<1> QED
  BY <1>1, <1>2

LEMMA EmptyIsShort == <<>> \in BoundedSeq(Records, Capacity)
<1>1. <<>> \in Seq(Records) /\ Len(<<>>) <= Capacity
  BY EventLogAssumption
<1> QED
  BY <1>1, FilesAreShort

LEMMA LinesType ==
  ASSUME TypeOK, NEW p \in Paths
  PROVE  Lines(file, p) \in Seq(Records) /\ Len(Lines(file, p)) <= Capacity
BY FilesAreShort, EventLogAssumption DEF TypeOK, Lines

LEMMA LinesAreRecords ==
  ASSUME TypeOK, NEW p \in Paths
  PROVE  ToSet(Lines(file, p)) \subseteq Records
BY LinesType, LenProperties DEF ToSet

\* What Append makes of a file.
LEMMA AppendedLines ==
  ASSUME TypeOK, NEW p \in Paths, NEW r \in Records
  PROVE  LET s == Append(Lines(file, p), r)
         IN  /\ Len(Lines(file, p)) < Capacity => s \in BoundedSeq(Records, Capacity)
             /\ Len(Lines(file, p)) \in Nat
             /\ DOMAIN Lines(file, p) = 1 .. Len(Lines(file, p))
             /\ DOMAIN s = 1 .. Len(Lines(file, p)) + 1
             /\ \A i \in 1 .. Len(Lines(file, p)) : s[i] = Lines(file, p)[i]
             /\ s[Len(Lines(file, p)) + 1] = r
<1> DEFINE s == Append(Lines(file, p), r)
<1>1. Lines(file, p) \in Seq(Records)
  BY LinesType
<1>2. /\ s \in Seq(Records) /\ Len(s) = Len(Lines(file, p)) + 1
      /\ \A i \in 1 .. Len(Lines(file, p)) : s[i] = Lines(file, p)[i]
      /\ s[Len(Lines(file, p)) + 1] = r
  BY <1>1, AppendProperties
<1>3. /\ Len(Lines(file, p)) \in Nat /\ DOMAIN Lines(file, p) = 1 .. Len(Lines(file, p))
      /\ DOMAIN s = 1 .. Len(s)
  BY <1>1, <1>2, LenProperties
<1> HIDE DEF s
<1>4. Len(Lines(file, p)) < Capacity => s \in BoundedSeq(Records, Capacity)
  BY <1>2, <1>3, FilesAreShort, EventLogAssumption
<1> QED
  BY <1>2, <1>3, <1>4 DEF s

\* How often a record is in a file.
LEMMA CountIsNat ==
  ASSUME TypeOK, NEW p \in Paths, NEW e
  PROVE  Count(Lines(file, p), e) \in Nat
<1>1. DOMAIN Lines(file, p) = 1 .. Len(Lines(file, p)) /\ Len(Lines(file, p)) \in Nat
  BY LinesType, LenProperties
<1>2. IsFiniteSet(1 .. Len(Lines(file, p)))
  BY <1>1, FS_Interval
<1> QED
  BY <1>1, <1>2, FS_Subset, FS_CardinalityType DEF Count

-----------------------------------------------------------------------------
\* The daemon finds an empty log, and nobody has asked for it.
LEMMA InitHistory == Init => History
<1> SUFFICES ASSUME Init PROVE History
  OBVIOUS
<1> USE EventLogAssumption DEF Init, Paths
<1>1. \A p \in Paths : Lines(file, p) = <<>>
  BY DEF Lines
<1>2. TypeOK
  BY EmptyIsShort DEF TypeOK, InRollover, NoAlerts
<1>3. \A p \in Paths : On(p) = {}
  <2>1. ToSet(<<>>) = {}
    BY DEF ToSet
  <2> QED
    BY <1>1, <2>1 DEF On
<1>4. OnDisk(file) = {}
  BY <1>3 DEF OnDisk, On
<1>5. Shape
  BY <1>2 DEF Shape
<1>6. Unique
  BY <1>1 DEF Unique
<1>7. AllStored /\ ClearForgets /\ NoDuplicates
  BY <1>4 DEF AllStored, ClearForgets, NoDuplicates, NoAlerts
<1> QED
  BY <1>5, <1>6, <1>7 DEF History, ClearProgress, LoadProgress

\* What changes the files keeps the types when it keeps that of the files.
LEMMA FilesType ==
  ASSUME TypeOK, NEW f \in [Paths -> {None} \cup BoundedSeq(Records, Capacity)], Files(f)
  PROVE  /\ file' = f
         /\ settled' \in [Readers -> SUBSET Records]
BY DEF TypeOK, Files

\* Every step keeps the types, the handler its file, and the room at path 0 for a record that waits.
LEMMA NextShape == Shape /\ [Next]_vars => Shape'
<1> SUFFICES ASSUME Shape, [Next]_vars PROVE Shape'
  OBVIOUS
<1> USE EventLogAssumption DEF Shape, TypeOK, InRollover
<1>1. CASE UNCHANGED vars
  BY <1>1 DEF vars, writerVars, readVars, clearVars
<1>2. ASSUME DaemonStep PROVE Shape'
  <2> USE DEF Paths, readVars, clearVars, writerVars
  <2>1. ASSUME NEW kind \in Kinds, Logs(kind) PROVE Shape'
    <3> DEFINE r == [id |-> logged + 1, kind |-> kind]
    <3>1. r \in Records /\ r # None
      BY <2>1 DEF Logs, Records
    <3>2. CASE FileWithRoom /\ Store(r) /\ UNCHANGED <<writer, slot, pending>>
      <4> DEFINE f == [file EXCEPT ![0] = Append(Lines(file, 0), r)]
      <4>1. f \in [Paths -> {None} \cup BoundedSeq(Records, Capacity)]
        BY <3>1, <3>2, AppendedLines DEF FileWithRoom
      <4>2. Files(f) /\ stream' = "attached"
        BY <3>2 DEF Store, FileWithRoom
      <4> HIDE DEF f
      <4>3. file' = f /\ settled' \in [Readers -> SUBSET Records]
        BY <4>1, <4>2, FilesType
      <4> QED
        BY <2>1, <3>1, <3>2, <4>1, <4>2, <4>3 DEF Logs
    <3>3. CASE /\ ~FileWithRoom /\ stream # "orphan" /\ writer' = "shift"
               /\ slot' = Backups - 1 /\ pending' = r /\ stream' = "closed"
               /\ UNCHANGED <<file, settled>>
      BY <2>1, <3>1, <3>3 DEF Logs
    <3> QED
      BY <2>1, <3>2, <3>3 DEF Logs
  <2>2. CASE RolloverLooks
    BY <2>2 DEF RolloverLooks
  <2>3. CASE RolloverLooksAhead
    BY <2>3 DEF RolloverLooksAhead
  <2>4. CASE RolloverRemoves
    <3> DEFINE f == [file EXCEPT ![slot + 1] = None]
    <3>1. f \in [Paths -> {None} \cup BoundedSeq(Records, Capacity)]
      OBVIOUS
    <3>2. CASE file[slot + 1] = None
      BY <2>4, <3>2 DEF RolloverRemoves, Aborts
    <3>3. CASE file[slot + 1] # None
      <4>1. Files(f) /\ writer = "remove" /\ writer' = "rename" /\ UNCHANGED <<slot, pending>>
        BY <2>4, <3>3 DEF RolloverRemoves
      <4>4. forgone' \subseteq Records
        <5>1. slot + 1 = Backups => ToSet(file[Backups]) \subseteq Records
          BY <3>3, LinesAreRecords DEF Lines
        <5> QED
          BY <2>4, <3>3, <5>1 DEF RolloverRemoves
      <4> HIDE DEF f
      <4>2. file' = f /\ settled' \in [Readers -> SUBSET Records]
        BY <3>1, <4>1, FilesType
      <4> QED
        BY <2>4, <3>1, <4>1, <4>2, <4>4 DEF RolloverRemoves
    <3> QED
      BY <3>2, <3>3
  <2>5. CASE RolloverRenames
    <3> DEFINE f == [file EXCEPT ![slot + 1] = file[slot], ![slot] = None]
    <3>1. f \in [Paths -> {None} \cup BoundedSeq(Records, Capacity)]
      OBVIOUS
    <3>2. CASE file[slot] = None
      BY <2>5, <3>2 DEF RolloverRenames, Aborts
    <3>3. CASE file[slot] # None
      <4>1. /\ Files(f) /\ writer = "rename" /\ UNCHANGED <<pending, forgone>>
            /\ \/ slot = 0 /\ writer' = "open" /\ UNCHANGED slot
               \/ slot # 0 /\ writer' = "shift" /\ slot' = slot - 1
        BY <2>5, <3>3 DEF RolloverRenames
      <4>2. slot = 0 => f[0] = None
        OBVIOUS
      <4> HIDE DEF f
      <4>3. file' = f /\ settled' \in [Readers -> SUBSET Records]
        BY <3>1, <4>1, FilesType
      <4> QED
        BY <2>5, <3>1, <4>1, <4>2, <4>3 DEF RolloverRenames
    <3> QED
      BY <3>2, <3>3
  <2>6. CASE RolloverStores
    <3> DEFINE f == [file EXCEPT ![0] = Append(Lines(file, 0), pending)]
    <3>1. Lines(file, 0) = <<>> /\ pending \in Records
      BY <2>6 DEF RolloverStores, Lines
    <3>2. f \in [Paths -> {None} \cup BoundedSeq(Records, Capacity)]
      BY <3>1, AppendedLines
    <3>3. Files(f) /\ stream' = "attached" /\ forgone' \subseteq Records
      BY <2>6 DEF RolloverStores, Store
    <3> HIDE DEF f
    <3>4. file' = f /\ settled' \in [Readers -> SUBSET Records]
      BY <3>2, <3>3, FilesType
    <3> QED
      BY <2>6, <3>2, <3>3, <3>4 DEF RolloverStores
  <2>7. CASE DaemonDies
    BY <2>7 DEF DaemonDies, Waiting
  <2>8. CASE DaemonStarts
    <3>1. Lines(file, 0) \in BoundedSeq(Records, Capacity)
      BY LinesType, FilesAreShort
    <3> DEFINE f == [file EXCEPT ![0] = Lines(file, 0)]
    <3>2. f \in [Paths -> {None} \cup BoundedSeq(Records, Capacity)]
      BY <3>1
    <3>3. Files(f)
      BY <2>8 DEF DaemonStarts
    <3> HIDE DEF f
    <3>4. file' = f /\ settled' \in [Readers -> SUBSET Records]
      BY <3>2, <3>3, FilesType
    <3> QED
      BY <2>8, <3>2, <3>4 DEF DaemonStarts
  <2> QED
    BY <1>2, <2>1, <2>2, <2>3, <2>4, <2>5, <2>6, <2>7, <2>8 DEF DaemonStep
<1>3. ASSUME NEW r \in Readers, LoadStarts(r) \/ LoadReads(r) \/ LoadReturns(r)
      PROVE  Shape'
  <2>1. CASE LoadStarts(r)
    <3>1. OnDisk(file) \subseteq Records
      BY LinesType, LenProperties DEF OnDisk, ToSet
    <3> QED
      BY <2>1, <3>1 DEF LoadStarts, NoAlerts, writerVars, clearVars
  <2>2. CASE LoadReads(r)
    <3>1. \A p \in Paths, e \in Records : Count(Lines(file, p), e) \in Nat
      BY CountIsNat
    <3>2. PathRead(reading[r]) \in Paths /\ reading[r] + 1 \in 0 .. Backups + 1
      BY <2>2 DEF LoadReads, PathRead, Paths
    <3> QED
      BY <2>2, <3>1, <3>2 DEF LoadReads, writerVars, clearVars
  <2>3. CASE LoadReturns(r)
    BY <2>3 DEF LoadReturns, NoAlerts, writerVars, clearVars
  <2> QED
    BY <1>3, <2>1, <2>2, <2>3
<1>4. ASSUME NEW c \in Clearers, ClearStarts(c) \/ ClearEmpties(c) \/ ClearReturns(c)
      PROVE  Shape'
  <2>1. CASE ClearStarts(c)
    <3>1. OnDisk(file) \subseteq Records
      BY LinesType, LenProperties DEF OnDisk, ToSet
    <3> QED
      BY <2>1, <3>1 DEF ClearStarts, writerVars, readVars
  <2>2. CASE ClearEmpties(c)
    <3> DEFINE p == PathCleared(clearing[c])
               f == [file EXCEPT ![p] = IF @ = None \/ IsRemoved(p) THEN None ELSE <<>>]
    <3>1. p = clearing[c] /\ p \in Paths
      BY <2>2 DEF ClearEmpties, PathCleared
    <3>2. f \in [Paths -> {None} \cup BoundedSeq(Records, Capacity)]
      BY <3>1, EmptyIsShort
    <3>3. file[0] = None => f[0] = None
      BY <3>1 DEF Paths
    <3>4. Files(f) /\ stream' = stream /\ forgone' \subseteq Records
      <4>1. ToSet(Lines(file, p)) \subseteq Records /\ Waiting \subseteq Records
        BY <3>1, LinesAreRecords DEF Waiting
      <4> QED
        BY <2>2, <4>1 DEF ClearEmpties, IsRemoved
    <3> HIDE DEF f
    <3>5. file' = f /\ settled' \in [Readers -> SUBSET Records]
      BY <3>2, <3>4, FilesType
    <3>6. clearing' = [clearing EXCEPT ![c] = @ + 1] /\ clearing[c] + 1 \in 0 .. Backups + 1
      BY <2>2 DEF ClearEmpties, Paths
    <3> QED
      BY <2>2, <3>2, <3>3, <3>4, <3>5, <3>6 DEF ClearEmpties, readVars
  <2>3. CASE ClearReturns(c)
    BY <2>3 DEF ClearReturns, writerVars, readVars
  <2> QED
    BY <1>4, <2>1, <2>2, <2>3
<1> QED
  BY <1>1, <1>2, <1>3, <1>4 DEF Next

-----------------------------------------------------------------------------
(***************************************************************************)
(* What every step makes of the files.  What is at a path afterwards was   *)
(* at that path or at a newer one, or is logged only now; and what is      *)
(* still settled is where its query finds it.                              *)
(***************************************************************************)
Moves ==
  \A q \in Paths : \A e \in On(q)' :
    (\E p \in 0 .. q : e \in On(p)) \/ (~Stored(e) /\ Stored(e)')

Keeps ==
  \A r \in Readers : reading[r] # None => \A e \in settled'[r] :
    /\ e \in settled[r]
    /\ file' = file \/ alerts[r][e] # 0 \/ \E p \in Paths : ~IsBehind(r, p) /\ e \in On(p)'

StaysStored == \A e : Stored(e) => Stored(e)'

\* No record is at two paths.
LEMMA OnlyOnce ==
  ASSUME Unique, NEW p \in Paths, NEW q \in Paths, NEW e \in On(p), e \in On(q)
  PROVE  p = q
BY DEF Unique, On, ToSet

\* Files records what is still settled.
LEMMA FilesKeep ==
  ASSUME TypeOK, NEW f, Files(f)
  PROVE  Keeps
<1>1. \A r \in Readers : reading[r] # None => \A p \in Unread(r) : p \in Paths /\ ~IsBehind(r, p)
  BY EventLogAssumption DEF Unread, IsBehind, TypeOK, Paths
<1> QED
  BY <1>1 DEF TypeOK, Files, Keeps, On

\* When files only lose what they hold, nothing moves.
LEMMA LossMovesNothing ==
  ASSUME Unique, \A p \in Paths : Lines(file, p)' \in {Lines(file, p), <<>>}
  PROVE  Moves /\ Unique'
<1>1. \A p \in Paths : On(p)' \subseteq On(p)
  BY DEF On, ToSet
<1>2. Moves
  BY <1>1, EventLogAssumption DEF Moves, Paths
<1>3. Unique'
  BY DEF Unique
<1> QED
  BY <1>2, <1>3

\* A rename moves a file up by one.
LEMMA RenameMovesUp ==
  ASSUME Unique, NEW s \in 0 .. Backups - 1,
         Lines(file, s + 1)' = Lines(file, s), Lines(file, s)' = <<>>,
         \A p \in Paths \ {s, s + 1} : Lines(file, p)' = Lines(file, p)
  PROVE  Moves /\ Unique'
<1> USE EventLogAssumption DEF Paths
<1>1. On(s + 1)' = On(s) /\ On(s)' = {} /\ \A p \in Paths \ {s, s + 1} : On(p)' = On(p)
  BY DEF On, ToSet
<1>2. Moves
  BY <1>1 DEF Moves
<1>3. Unique'
  BY DEF Unique
<1> QED
  BY <1>2, <1>3

\* An append adds a record that was nowhere.
LEMMA AppendAddsOne ==
  ASSUME Shape, Unique, AllStored, NEW r \in Records, ~Stored(r), Stored(r)',
         Len(Lines(file, 0)) < Capacity,
         file' = [file EXCEPT ![0] = Append(Lines(file, 0), r)]
  PROVE  Moves /\ Unique'
<1> USE EventLogAssumption
<1> DEFINE old == Lines(file, 0)
           new == Lines(file, 0)'
<1>1. 0 \in Paths
  BY DEF Paths
<1>2. /\ Len(old) \in Nat /\ DOMAIN old = 1 .. Len(old) /\ DOMAIN new = 1 .. Len(old) + 1
      /\ \A i \in 1 .. Len(old) : new[i] = old[i]
      /\ new[Len(old) + 1] = r
  <2>1. new = Append(old, r)
    <3>1. Append(old, r) \in BoundedSeq(Records, Capacity)
      BY <1>1, AppendedLines DEF Shape
    <3>2. file'[0] = Append(old, r)
      BY <1>1 DEF Shape, TypeOK
    <3> QED
      BY <3>1, <3>2 DEF Lines
  <2> HIDE DEF new
  <2> QED
    BY <1>1, <2>1, AppendedLines DEF Shape
<1>3. \A p \in Paths \ {0} : Lines(file, p)' = Lines(file, p)
  BY DEF Lines, Shape, TypeOK
<1>4. \A p \in Paths : r \notin On(p)
  BY DEF AllStored, OnDisk, On
<1> HIDE DEF old, new
<1>5. On(0)' = On(0) \cup {r} /\ \A p \in Paths \ {0} : On(p)' = On(p)
  <2>1. On(0) = {old[i] : i \in 1 .. Len(old)} /\ On(0)' = {new[i] : i \in 1 .. Len(old) + 1}
    BY <1>2 DEF On, ToSet, old, new
  <2>2. \A i \in 1 .. Len(old) + 1 : new[i] \in {old[k] : k \in 1 .. Len(old)} \cup {r}
    BY <1>2
  <2>3. \A i \in 1 .. Len(old) : i \in 1 .. Len(old) + 1 /\ old[i] = new[i]
    BY <1>2
  <2>4. Len(old) + 1 \in 1 .. Len(old) + 1
    BY <1>2
  <2>5. On(0)' = On(0) \cup {r}
    BY <1>2, <2>1, <2>2, <2>3, <2>4
  <2> QED
    BY <1>3, <2>5 DEF On
<1>6. Moves
  BY <1>1, <1>5 DEF Moves, Paths
<1>7. Unique'
  <2>1. \A p \in Paths : \A i \in DOMAIN Lines(file, p) : Lines(file, p)[i] # r
    BY <1>4 DEF On, ToSet
  <2> QED
    <3>1. SUFFICES ASSUME NEW p \in Paths, NEW q \in Paths,
                          NEW i \in DOMAIN Lines(file, p)', NEW j \in DOMAIN Lines(file, q)',
                          Lines(file, p)'[i] = Lines(file, q)'[j]
                   PROVE  p = q /\ i = j
      BY DEF Unique
    <3>2. CASE p # 0 /\ q # 0
      BY ONLY Unique, <1>3, <3>1, <3>2 DEF Unique
    <3>3. CASE p = 0 /\ q # 0
      BY ONLY Unique, <1>1, <1>2, <1>3, <2>1, <3>1, <3>3 DEF Unique, old, new
    <3>4. CASE p # 0 /\ q = 0
      BY ONLY Unique, <1>1, <1>2, <1>3, <2>1, <3>1, <3>4 DEF Unique, old, new
    <3>5. CASE p = 0 /\ q = 0
      BY ONLY Unique, <1>1, <1>2, <2>1, <3>1, <3>5 DEF Unique, old, new
    <3> QED
      BY <3>2, <3>3, <3>4, <3>5
<1> QED
  BY <1>6, <1>7

\* Every step of the daemon moves records up, adds the one it has just logged, or loses some.
LEMMA DaemonMoves ==
  ASSUME History, Shape', DaemonStep
  PROVE  Moves /\ Unique' /\ Keeps /\ StaysStored
<1> USE EventLogAssumption DEF History
<1>0. None \notin Records
  OBVIOUS
<1>1. TypeOK /\ Shape /\ Unique /\ AllStored
  BY DEF Shape
<1>2. ASSUME UNCHANGED <<file, settled>> PROVE Moves /\ Unique' /\ Keeps
  <2>1. \A p \in Paths : Lines(file, p)' = Lines(file, p)
    BY <1>2 DEF Lines
  <2>2. Moves /\ Unique'
    BY <1>1, <2>1, LossMovesNothing
  <2> QED
    BY <1>2, <2>2 DEF Keeps
<1>3. ASSUME logged' = logged, pending' \in {pending, None} PROVE StaysStored
  BY <1>0, <1>3 DEF StaysStored, Stored
<1>4. ASSUME NEW kind \in Kinds, Logs(kind) PROVE Moves /\ Unique' /\ Keeps /\ StaysStored
  <2>1. PICK r : r = [id |-> logged + 1, kind |-> kind]
    OBVIOUS
  <2>2. r \in Records /\ ~Stored(r) /\ pending = None /\ r.id = logged + 1 /\ logged' = logged + 1
    BY <1>1, <1>4, <2>1 DEF Logs, Records, Stored, TypeOK, InRollover
  <2>3. \A e : Stored(e) => e # r /\ e.id <= logged'
    BY <1>1, <2>2 DEF Stored, TypeOK, Records
  <2>4. CASE FileWithRoom /\ Store(r) /\ UNCHANGED pending
    <3>1. Stored(r)' /\ StaysStored
      BY <1>0, <2>2, <2>3, <2>4 DEF Stored, StaysStored
    <3>2. Files([file EXCEPT ![0] = Append(Lines(file, 0), r)]) /\ Len(Lines(file, 0)) < Capacity
      BY <2>4 DEF Store, FileWithRoom
    <3>3. file' = [file EXCEPT ![0] = Append(Lines(file, 0), r)]
      BY <3>2 DEF Files
    <3>4. Moves /\ Unique'
      BY <1>1, <2>2, <3>1, <3>2, <3>3, AppendAddsOne
    <3> QED
      BY <1>1, <3>1, <3>2, <3>4, FilesKeep
  <2>5. CASE pending' = r /\ UNCHANGED <<file, settled>>
    BY <1>1, <1>2, <2>3, <2>5 DEF StaysStored, Stored
  <2> QED
    BY <1>1, <1>4, <2>1, <2>4, <2>5 DEF Logs, Shape
<1>5. CASE RolloverLooks \/ RolloverLooksAhead \/ DaemonDies
  BY <1>2, <1>3, <1>5 DEF RolloverLooks, RolloverLooksAhead, DaemonDies
<1>6. CASE RolloverRemoves
  <2>1. StaysStored
    BY <1>3, <1>6 DEF RolloverRemoves, Aborts
  <2>2. CASE Aborts
    BY <1>2, <2>1, <2>2 DEF Aborts
  <2>3. CASE Files([file EXCEPT ![slot + 1] = None])
    <3>1. \A p \in Paths : Lines(file, p)' \in {Lines(file, p), <<>>}
      BY <1>1, <2>3 DEF Files, Lines, TypeOK
    <3> QED
      BY <1>1, <2>1, <2>3, <3>1, FilesKeep, LossMovesNothing
  <2> QED
    BY <1>6, <2>2, <2>3 DEF RolloverRemoves
<1>7. CASE RolloverRenames
  <2>1. StaysStored
    BY <1>3, <1>7 DEF RolloverRenames, Aborts
  <2>2. CASE Aborts
    BY <1>2, <2>1, <2>2 DEF Aborts
  <2>3. CASE Files([file EXCEPT ![slot + 1] = file[slot], ![slot] = None])
    <3>1. PICK s \in 0 .. Backups - 1 : s = slot
      BY <1>1 DEF TypeOK
    <3>2. s \in Paths /\ s + 1 \in Paths /\ s # s + 1
      BY DEF Paths
    <3>3. file' = [file EXCEPT ![s + 1] = file[s], ![s] = None]
      BY <2>3, <3>1 DEF Files
    <3>4. /\ Lines(file, s + 1)' = Lines(file, s) /\ Lines(file, s)' = <<>>
          /\ \A p \in Paths \ {s, s + 1} : Lines(file, p)' = Lines(file, p)
      BY <1>1, <3>2, <3>3 DEF Lines, TypeOK
    <3>5. Moves /\ Unique'
      BY <1>1, <3>4, RenameMovesUp
    <3> QED
      BY <1>1, <2>1, <2>3, <3>5, FilesKeep
  <2> QED
    BY <1>7, <2>2, <2>3 DEF RolloverRenames
<1>8. CASE RolloverStores
  <2>1. PICK r : r = pending
    OBVIOUS
  <2>2. r \in Records /\ ~Stored(r) /\ r.id <= logged /\ pending' = None /\ logged' = logged
    BY <1>1, <1>8, <2>1 DEF RolloverStores, Stored, Shape, TypeOK, InRollover
  <2>3. Stored(r)' /\ StaysStored
    BY <1>0, <1>3, <2>2 DEF Stored
  <2>4. Files([file EXCEPT ![0] = Append(Lines(file, 0), r)])
    BY <1>1, <1>8, <2>1 DEF RolloverStores, Store, Shape
  <2>5. Len(Lines(file, 0)) < Capacity
    BY <1>1, <1>8 DEF RolloverStores, Shape, Lines
  <2>6. file' = [file EXCEPT ![0] = Append(Lines(file, 0), r)]
    BY <2>4 DEF Files
  <2>7. Moves /\ Unique'
    BY <1>1, <2>2, <2>3, <2>5, <2>6, AppendAddsOne
  <2> QED
    BY <1>1, <2>3, <2>4, <2>7, FilesKeep
<1>9. CASE DaemonStarts
  <2>1. \A p \in Paths : Lines(file, p)' \in {Lines(file, p), <<>>}
    BY <1>1, <1>9 DEF DaemonStarts, Files, Lines, TypeOK
  <2> QED
    BY <1>1, <1>3, <1>9, <2>1, FilesKeep, LossMovesNothing DEF DaemonStarts
<1> QED
  BY <1>4, <1>5, <1>6, <1>7, <1>8, <1>9 DEF DaemonStep

\* Of what moves like this, a query loses nothing that is settled, and a clear gains nothing.
LEMMA MovesKeepHistory ==
  ASSUME History, Moves, Unique', Keeps, StaysStored, Shape',
         UNCHANGED <<reading, alerts, doomed, cleared>>
  PROVE  /\ AllStored' /\ ClearForgets' /\ NoDuplicates' /\ LoadProgress'
         /\ UNCHANGED clearing => ClearProgress'
<1> USE EventLogAssumption DEF History
<1>1. \A q \in Paths : \A e \in On(q)' : ~Stored(e) => Stored(e)'
  BY DEF Moves, AllStored, OnDisk, On, StaysStored, Paths
<1>2. AllStored'
  <2>1. \A e \in OnDisk(file)' : \E q \in Paths : e \in On(q)'
    BY DEF OnDisk, On
  <2> QED
    BY <1>1, <2>1 DEF AllStored, StaysStored
<1>3. \A q \in Paths : \A e \in On(q)' : Stored(e) => \E p \in Paths : p <= q /\ e \in On(p)
  BY DEF Moves, Paths
<1>4. ClearForgets'
  BY <1>3 DEF ClearForgets, AllStored, OnDisk, On
<1>5. NoDuplicates'
  BY DEF NoDuplicates
<1>6. UNCHANGED clearing => ClearProgress'
  <2> SUFFICES ASSUME UNCHANGED clearing, NEW c \in Clearers, clearing[c] # None,
                      NEW p \in Paths, p < clearing[c], NEW e \in On(p)', e \in doomed[c]
               PROVE  FALSE
    BY DEF ClearProgress
  <2>1. PICK q \in Paths : q <= p /\ e \in On(q)
    BY <1>3 DEF AllStored
  <2>2. clearing[c] \in 0 .. Backups + 1
    BY DEF Shape, TypeOK
  <2> QED
    BY <2>1, <2>2 DEF ClearProgress, Paths
<1>7. LoadProgress'
  <2> SUFFICES ASSUME NEW r \in Readers, reading[r] # None
               PROVE  /\ \A p \in Paths : \A e \in On(p)' : alerts[r][e] # 0 => IsBehind(r, p)
                      /\ \A e \in settled'[r] : IsAlert(e) /\ InSight(r, e)'
    BY DEF LoadProgress, IsBehind
  <2>1. ASSUME NEW p \in Paths, NEW e \in On(p)', alerts[r][e] # 0 PROVE IsBehind(r, p)
    <3>1. e \in Records
      BY <1>1, <1>2 DEF AllStored, OnDisk, On, Stored
    <3>2. Stored(e)
      BY <2>1, <3>1 DEF AllStored
    <3>3. PICK q \in Paths : q <= p /\ e \in On(q)
      BY <1>3, <3>2
    <3> QED
      BY <2>1, <3>3 DEF LoadProgress, IsBehind, Paths, Shape, TypeOK
  <2>2. ASSUME NEW e \in settled'[r]
        PROVE  IsAlert(e) /\ InSight(r, e)'
    <3>1. /\ e \in settled[r]
          /\ \/ file' = file
             \/ alerts[r][e] # 0
             \/ \E p \in Paths : ~IsBehind(r, p) /\ e \in On(p)'
      BY DEF Keeps
    <3>2. IsAlert(e) /\ InSight(r, e)
      BY <3>1 DEF LoadProgress
    <3>3. file' = file => \A p \in Paths : On(p)' = On(p)
      BY DEF On, Lines
    <3> QED
      BY <3>1, <3>2, <3>3 DEF InSight, IsBehind
  <2> QED
    BY <2>1, <2>2
<1> QED
  BY <1>2, <1>4, <1>5, <1>6, <1>7

-----------------------------------------------------------------------------
\* A record is found in a file once or not at all.
LEMMA CountsOnce ==
  ASSUME Shape, Unique, NEW p \in Paths, NEW e
  PROVE  Count(Lines(file, p), e) = IF e \in On(p) THEN 1 ELSE 0
<1> DEFINE found == {i \in DOMAIN Lines(file, p) : Lines(file, p)[i] = e}
<1>1. CASE e \in On(p)
  <2>1. PICK i \in DOMAIN Lines(file, p) : Lines(file, p)[i] = e
    BY <1>1 DEF On, ToSet
  <2>2. found = {i}
    BY <2>1 DEF Unique
  <2> QED
    BY <1>1, <2>2, FS_Singleton DEF Count
<1>2. CASE e \notin On(p)
  <2>1. found = {}
    BY <1>2 DEF On, ToSet
  <2> QED
    BY <1>2, <2>1, FS_EmptySet DEF Count
<1> QED
  BY <1>1, <1>2

\* A query goes on to the next newer path, and counts what it finds there.
LEMMA LoadReadsOn ==
  ASSUME History, Shape', NEW r \in Readers, LoadReads(r)
  PROVE  History'
<1> USE EventLogAssumption DEF History
<1> DEFINE p == Backups - reading[r]
           got(e) == IF IsAlert(e) /\ e \in On(p) THEN 1 ELSE 0
<1>1. /\ p \in Paths /\ reading[r] \in 0 .. Backups /\ reading[r] # None
      /\ reading' = [reading EXCEPT ![r] = @ + 1]
      /\ UNCHANGED <<file, writerVars, settled, clearVars>>
  BY DEF LoadReads, Paths
<1>2. /\ \A q \in Paths : On(q)' = On(q)
      /\ \A e : Stored(e)' <=> Stored(e)
      /\ OnDisk(file)' = OnDisk(file) /\ Unique'
  BY <1>1 DEF On, Stored, OnDisk, Unique, writerVars
<1>3. /\ \A e \in Records : alerts'[r][e] = alerts[r][e] + got(e) /\ alerts[r][e] \in Nat
      /\ \A o \in Readers \ {r} : alerts'[o] = alerts[o] /\ reading'[o] = reading[o]
      /\ reading'[r] = reading[r] + 1
  <2>1. alerts' = [alerts EXCEPT ![r] = [e \in Records |->
                     @[e] + IF IsAlert(e) THEN Count(Lines(file, p), e) ELSE 0]]
    BY DEF LoadReads, PathRead
  <2>2. \A e \in Records : Count(Lines(file, p), e) = IF e \in On(p) THEN 1 ELSE 0
    BY <1>1, CountsOnce
  <2> QED
    BY <1>1, <2>1, <2>2 DEF Shape, TypeOK
<1>4. \A e \in On(p) : e \in Records /\ Stored(e) /\ alerts[r][e] = 0
  BY <1>1, <1>3 DEF AllStored, OnDisk, On, Stored, LoadProgress, IsBehind, Paths
<1> HIDE DEF p
<1>5. AllStored'
  BY <1>1, <1>2, <1>3, <1>4 DEF AllStored, clearVars
<1>6. ClearForgets' /\ ClearProgress'
  BY <1>1, <1>2 DEF ClearForgets, ClearProgress, clearVars
<1>7. NoDuplicates'
  BY <1>3, <1>4 DEF NoDuplicates
<1>8. LoadProgress'
  <2> SUFFICES ASSUME NEW o \in Readers, reading'[o] # None
               PROVE  /\ \A q \in Paths : \A e \in On(q) : alerts'[o][e] # 0 => IsBehind(o, q)'
                      /\ \A e \in settled[o] : IsAlert(e) /\ InSight(o, e)'
    BY <1>1, <1>2 DEF LoadProgress
  <2>1. CASE o # r
    BY <1>2, <1>3, <2>1 DEF LoadProgress, IsBehind, InSight
  <2>2. CASE o = r
    <3>1. \A q \in Paths : IsBehind(r, q)' <=> q >= p
      BY <1>1, <1>3 DEF IsBehind, Paths, p
    <3>2. \A q \in Paths : IsBehind(r, q) <=> q > p
      BY DEF IsBehind, p
    <3>3. ASSUME NEW q \in Paths, NEW e \in On(q), alerts'[r][e] # 0 PROVE IsBehind(r, q)'
      <4>1. e \in Records
        BY DEF AllStored, OnDisk, On, Stored
      <4>2. CASE alerts[r][e] # 0
        BY <1>1, <3>1, <3>2, <4>2 DEF LoadProgress, Paths
      <4>3. CASE e \in On(p)
        BY <1>1, <3>1, <4>3, OnlyOnce DEF Paths
      <4> QED
        BY <1>3, <3>3, <4>1, <4>2, <4>3
    <3>4. ASSUME NEW e \in settled[r]
          PROVE  IsAlert(e) /\ InSight(r, e)'
      <4>1. IsAlert(e) /\ e \in Records /\ InSight(r, e)
        BY <1>1 DEF LoadProgress, Shape, TypeOK
      <4>2. CASE alerts[r][e] # 0
        BY <1>3, <4>1, <4>2 DEF InSight
      <4>3. ASSUME NEW q \in Paths, ~IsBehind(r, q), e \in On(q)
            PROVE  InSight(r, e)'
        <5>1. q = p \/ ~IsBehind(r, q)'
          BY <1>1, <3>1, <3>2, <4>3 DEF Paths
        <5>2. q = p => alerts'[r][e] # 0
          BY <1>3, <4>1, <4>3
        <5> QED
          BY <1>2, <4>3, <5>1, <5>2 DEF InSight
      <4> QED
        BY <4>1, <4>2, <4>3 DEF InSight
    <3> QED
      BY <2>2, <3>3, <3>4
  <2> QED
    BY <2>1, <2>2
<1> QED
  BY <1>2, <1>5, <1>6, <1>7, <1>8

\* A query begins with what is on disk, and leaves nothing behind.
LEMMA LoadBeginsOrEnds ==
  ASSUME History, Shape', NEW r \in Readers, LoadStarts(r) \/ LoadReturns(r)
  PROVE  History'
<1> USE EventLogAssumption DEF History
<1>1. /\ UNCHANGED <<file, writerVars, clearVars, forgone>>
      /\ \A o \in Readers \ {r} :
           alerts'[o] = alerts[o] /\ reading'[o] = reading[o] /\ settled'[o] = settled[o]
      /\ alerts'[r] = NoAlerts
      /\ \/ reading'[r] = 0 /\ settled'[r] = {e \in OnDisk(file) : IsAlert(e)}
         \/ reading'[r] = None
  BY DEF LoadStarts, LoadReturns, Shape, TypeOK
<1>2. /\ \A q \in Paths : On(q)' = On(q)
      /\ \A e : Stored(e)' <=> Stored(e)
      /\ OnDisk(file)' = OnDisk(file) /\ Unique'
  BY <1>1 DEF On, Stored, OnDisk, Unique, writerVars
<1>3. AllStored'
  BY <1>1, <1>2 DEF AllStored, NoAlerts, clearVars
<1>4. ClearForgets' /\ ClearProgress'
  BY <1>1, <1>2 DEF ClearForgets, ClearProgress, clearVars
<1>5. NoDuplicates'
  BY <1>1 DEF NoDuplicates, NoAlerts
<1>6. LoadProgress'
  <2> SUFFICES ASSUME NEW o \in Readers, reading'[o] # None
               PROVE  /\ \A q \in Paths : \A e \in On(q) : alerts'[o][e] # 0 => IsBehind(o, q)'
                      /\ \A e \in settled'[o] : IsAlert(e) /\ InSight(o, e)'
    BY <1>1, <1>2 DEF LoadProgress
  <2>1. CASE o # r
    BY <1>1, <1>2, <2>1 DEF LoadProgress, IsBehind, InSight
  <2>2. CASE o = r
    <3>1. \A q \in Paths : ~IsBehind(r, q)'
      BY <1>1, <2>2 DEF IsBehind, Paths
    <3>2. \A q \in Paths : \A e \in On(q) : alerts'[r][e] = 0
      BY <1>1 DEF NoAlerts, AllStored, OnDisk, On, Stored
    <3> QED
      BY <1>1, <1>2, <2>2, <3>1, <3>2 DEF OnDisk, On, InSight
  <2> QED
    BY <2>1, <2>2
<1> QED
  BY <1>2, <1>3, <1>4, <1>5, <1>6

\* A clear goes on to the next older path, and leaves this one empty.
LEMMA ClearEmptiesOn ==
  ASSUME History, Shape', NEW c \in Clearers, ClearEmpties(c)
  PROVE  History'
<1> USE EventLogAssumption DEF History
<1>1. PICK p \in Paths : p = clearing[c]
  BY DEF ClearEmpties
<1>2. /\ Files([file EXCEPT ![p] = IF @ = None \/ IsRemoved(p) THEN None ELSE <<>>])
      /\ clearing' = [clearing EXCEPT ![c] = @ + 1]
      /\ UNCHANGED <<writer, slot, pending, logged, sent, readVars, doomed, cleared>>
  BY <1>1 DEF ClearEmpties, PathCleared
<1>3. Lines(file, p)' = <<>> /\ \A q \in Paths \ {p} : Lines(file, q)' = Lines(file, q)
  BY <1>2 DEF Files, Lines, Shape, TypeOK
<1>4. Moves /\ Unique' /\ Keeps
  <2>1. \A q \in Paths : Lines(file, q)' \in {Lines(file, q), <<>>}
    BY <1>3
  <2> QED
    BY <1>2, <2>1, LossMovesNothing, FilesKeep DEF Shape
<1>5. StaysStored /\ UNCHANGED <<reading, alerts, doomed, cleared>>
  BY <1>2 DEF StaysStored, Stored, readVars
<1>6. AllStored' /\ ClearForgets' /\ NoDuplicates' /\ LoadProgress'
  BY <1>4, <1>5, MovesKeepHistory
<1>7. ClearProgress'
  <2>1. On(p)' = {} /\ \A q \in Paths : On(q)' \subseteq On(q)
    BY <1>3 DEF On, ToSet
  <2>2. /\ clearing'[c] = p + 1
        /\ \A d \in Clearers \ {c} : clearing'[d] = clearing[d]
        /\ clearing[c] # None
    BY <1>1, <1>2 DEF Shape, TypeOK, Paths
  <2>3. \A q \in Paths : q < p + 1 => q < p \/ q = p
    BY DEF Paths
  <2> QED
    BY <1>1, <1>5, <2>1, <2>2, <2>3 DEF ClearProgress
<1> QED
  BY <1>4, <1>6, <1>7

\* A clear is told of what is on disk, and answers when it is through.
LEMMA ClearBeginsOrEnds ==
  ASSUME History, Shape', NEW c \in Clearers, ClearStarts(c) \/ ClearReturns(c)
  PROVE  History'
<1> USE EventLogAssumption DEF History
<1>1. /\ UNCHANGED <<file, writerVars, readVars, settled>>
      /\ \A d \in Clearers \ {c} : clearing'[d] = clearing[d] /\ doomed'[d] = doomed[d]
      /\ \/ clearing'[c] = 0 /\ doomed'[c] = OnDisk(file) /\ cleared' = cleared
         \/ /\ clearing'[c] = None /\ doomed'[c] = {}
            /\ \/ clearing[c] = Backups + 1 /\ cleared' = cleared \cup doomed[c]
               \/ cleared' = cleared
  BY DEF ClearStarts, ClearReturns, Shape, TypeOK
<1>2. /\ \A q \in Paths : On(q)' = On(q)
      /\ \A e : Stored(e)' <=> Stored(e)
      /\ OnDisk(file)' = OnDisk(file) /\ Unique'
  BY <1>1 DEF On, Stored, OnDisk, Unique, writerVars
<1>3. AllStored'
  BY <1>1, <1>2 DEF AllStored, readVars
<1>4. ClearForgets'
  <2>1. clearing[c] = Backups + 1 => doomed[c] \cap OnDisk(file) = {}
    BY DEF ClearProgress, OnDisk, On, Paths
  <2> QED
    BY <1>1, <1>2, <2>1 DEF ClearForgets
<1>5. ClearProgress'
  BY <1>1, <1>2 DEF ClearProgress, Paths
<1>6. NoDuplicates' /\ LoadProgress'
  BY <1>1, <1>2 DEF NoDuplicates, LoadProgress, InSight, IsBehind, readVars
<1> QED
  BY <1>2, <1>3, <1>4, <1>5, <1>6

-----------------------------------------------------------------------------
\* The parts are inductive together.
LEMMA NextHistory == History /\ [Next]_vars => History'
<1> SUFFICES ASSUME History, [Next]_vars PROVE History'
  OBVIOUS
<1>1. Shape'
  BY NextShape DEF History
<1>2. CASE UNCHANGED vars
  <2>1. /\ UNCHANGED <<file, logged, pending, reading, alerts, settled>>
        /\ UNCHANGED <<clearing, doomed, cleared>>
    BY <1>2 DEF vars, writerVars, readVars, clearVars
  <2> QED
    BY <1>1, <2>1 DEF History, Unique, AllStored, Stored, OnDisk, On, ClearForgets,
       ClearProgress, NoDuplicates, LoadProgress, InSight, IsBehind
<1>3. CASE DaemonStep
  <2>1. UNCHANGED <<reading, alerts, clearing, doomed, cleared>>
    BY <1>3 DEF DaemonStep, Logs, RolloverLooks, RolloverLooksAhead, RolloverRemoves,
       RolloverRenames, RolloverStores, DaemonDies, DaemonStarts, readVars, clearVars
  <2> QED
    BY <1>1, <1>3, <2>1, DaemonMoves, MovesKeepHistory DEF History
<1>4. ASSUME NEW r \in Readers, LoadStarts(r) \/ LoadReads(r) \/ LoadReturns(r)
      PROVE  History'
  BY <1>1, <1>4, LoadBeginsOrEnds, LoadReadsOn
<1>5. ASSUME NEW c \in Clearers, ClearStarts(c) \/ ClearEmpties(c) \/ ClearReturns(c)
      PROVE  History'
  BY <1>1, <1>5, ClearBeginsOrEnds, ClearEmptiesOn
<1> QED
  BY <1>2, <1>3, <1>4, <1>5 DEF Next

\* They hold of every behaviour.
LEMMA AlwaysHistory == Spec => []History
BY InitHistory, NextHistory, PTL DEF Spec

(***************************************************************************)
(* Types hold: no file grows beyond its limit, and a record waits exactly  *)
(* while the files are moved up.                                           *)
(***************************************************************************)
THEOREM TypeCorrect == Spec => []TypeOK
<1>1. History => TypeOK
  BY DEF History, Shape
<1> QED
  BY <1>1, AlwaysHistory, PTL

\* What a DELETE /events that returned 200 has promised away never shows again.
THEOREM ClearsForget == Spec => []ClearForgets
<1>1. History => ClearForgets
  BY DEF History
<1> QED
  BY <1>1, AlwaysHistory, PTL

\* No query counts an alert twice, however often the daemon rotates meanwhile.
THEOREM QueriesCountOnce == Spec => []NoDuplicates
<1>1. History => NoDuplicates
  BY DEF History
<1> QED
  BY <1>1, AlwaysHistory, PTL

\* Every query finds what has stayed in its file since it began.
THEOREM QueriesSeeSettled == Spec => []SettledAreSeen
<1>1. History => SettledAreSeen
  <2> SUFFICES ASSUME History, NEW r \in Readers, Loaded(r), NEW e \in settled[r]
               PROVE  alerts[r][e] # 0
    BY DEF SettledAreSeen
  <2>1. reading[r] = Backups + 1 /\ reading[r] # None
    BY EventLogAssumption DEF Loaded
  <2>2. InSight(r, e)
    BY <2>1 DEF History, LoadProgress
  <2> QED
    BY <2>1, <2>2, EventLogAssumption DEF InSight, IsBehind, Paths
<1> QED
  BY <1>1, AlwaysHistory, PTL

-----------------------------------------------------------------------------
(***************************************************************************)
(* What the history keeps.  Nothing lies above the file that doRollover    *)
(* moves, but the oldest one that it removes (NothingAbove); and when the   *)
(* file it is about to move or to remove is gone, a clear was there first  *)
(* (Robbed).  A step then keeps every record it does not forgo.            *)
(***************************************************************************)
NothingAbove ==
  /\ writer \in {"shift", "look"} /\ slot + 1 < Backups => file[slot + 1] = None
  /\ writer = "remove" => slot + 1 = Backups
  /\ writer = "rename" => file[slot + 1] = None

Robbed ==
  /\ writer \in {"look", "rename"} /\ file[slot] = None => pending \in forgone
  /\ writer = "remove" /\ None \in {file[slot], file[slot + 1]} => pending \in forgone

Known == OnDisk(file) \cup Waiting \cup forgone

Lossless == Shape /\ NothingAbove /\ Robbed /\ NothingElseIsLost

\* When no record is forgotten, and a new one is known, nothing else is lost.
LEMMA KnownIsKept ==
  ASSUME NothingElseIsLost, TypeOK, Known \subseteq Known',
         \/ logged' = logged
         \/ logged' = logged + 1 /\ \E e \in Known' : e.id = logged + 1
  PROVE  NothingElseIsLost'
<1>1. \A n \in 1 .. logged : \E e \in Known' : e.id = n
  BY DEF NothingElseIsLost, Known
<1>2. \A n \in 1 .. logged' : n \in 1 .. logged \/ (logged' = logged + 1 /\ n = logged + 1)
  BY DEF TypeOK
<1> QED
  BY <1>1, <1>2 DEF NothingElseIsLost, Known

\* A record is appended to path 0, and what was there stays.
LEMMA AppendKeeps ==
  ASSUME Shape, NEW r \in Records, Len(Lines(file, 0)) < Capacity,
         file' = [file EXCEPT ![0] = Append(Lines(file, 0), r)]
  PROVE  OnDisk(file) \cup {r} \subseteq OnDisk(file)'
<1> DEFINE old == Lines(file, 0)
           new == Lines(file, 0)'
<1>1. 0 \in Paths
  BY EventLogAssumption DEF Paths
<1>2. new = Append(old, r)
  <2>1. Append(old, r) \in BoundedSeq(Records, Capacity)
    BY <1>1, AppendedLines DEF Shape
  <2>2. file'[0] = Append(old, r)
    BY <1>1 DEF Shape, TypeOK
  <2> QED
    BY <2>1, <2>2, EventLogAssumption DEF Lines
<1> HIDE DEF new
<1>3. /\ Len(old) \in Nat /\ DOMAIN old = 1 .. Len(old) /\ DOMAIN new = 1 .. Len(old) + 1
      /\ \A i \in 1 .. Len(old) : new[i] = old[i]
      /\ new[Len(old) + 1] = r
  BY <1>1, <1>2, AppendedLines DEF Shape
<1> HIDE DEF old
<1>4. ToSet(old) \cup {r} \subseteq ToSet(new)
  <2>1. Len(old) + 1 \in DOMAIN new /\ DOMAIN old \subseteq DOMAIN new
    BY <1>3
  <2> QED
    BY <1>3, <2>1 DEF ToSet
<1>5. \A p \in Paths \ {0} : Lines(file, p)' = Lines(file, p)
  BY DEF Lines, Shape, TypeOK
<1> QED
  BY <1>1, <1>4, <1>5 DEF OnDisk, old, new

\* Each step of the daemon knows afterwards what was known, and the record it logs.
LEMMA DaemonLosesNothing ==
  ASSUME Lossless, Shape', DaemonStep
  PROVE  Lossless'
<1> USE EventLogAssumption DEF Lossless
<1> SUFFICES NothingAbove' /\ Robbed' /\ NothingElseIsLost'
  OBVIOUS
<1>1. /\ TypeOK /\ slot \in 0 .. Backups - 1 /\ DOMAIN file = Paths
      /\ \A p \in Paths : Lines(file, p) \in Seq(Records)
  BY LinesType DEF Shape, TypeOK
<1>2. ASSUME UNCHANGED <<file, logged>>, Waiting \cup forgone \subseteq Waiting' \cup forgone'
      PROVE  NothingElseIsLost'
  <2>1. Known \subseteq Known'
    BY <1>2 DEF Known, OnDisk, Lines
  <2> QED
    BY <1>1, <1>2, <2>1, KnownIsKept
<1>3. ASSUME NEW kind \in Kinds, Logs(kind) PROVE NothingAbove' /\ Robbed' /\ NothingElseIsLost'
  <2>1. PICK r : r = [id |-> logged + 1, kind |-> kind]
    OBVIOUS
  <2>2. r \in Records /\ pending = None /\ r # None /\ r.id = logged + 1 /\ logged' = logged + 1
    BY <1>1, <1>3, <2>1 DEF Logs, Records, TypeOK, InRollover
  <2>3. CASE FileWithRoom /\ Store(r) /\ UNCHANGED <<writer, slot, pending>>
    <3>1. OnDisk(file) \cup {r} \subseteq OnDisk(file)'
      <4>1. /\ file' = [file EXCEPT ![0] = Append(Lines(file, 0), r)]
            /\ Len(Lines(file, 0)) < Capacity
        BY <2>3 DEF Store, FileWithRoom, Files
      <4> QED
        BY <2>2, <4>1, AppendKeeps
    <3>2. writer' = "idle" /\ forgone' = forgone /\ pending' = pending
      BY <1>3, <2>3 DEF Logs
    <3>3. Known \cup {r} \subseteq Known'
      BY <3>1, <3>2 DEF Known, Waiting
    <3>4. NothingElseIsLost'
      BY <1>1, <2>2, <3>3, KnownIsKept
    <3> QED
      BY <3>2, <3>4 DEF NothingAbove, Robbed
  <2>4. CASE /\ writer' = "shift" /\ slot' = Backups - 1 /\ pending' = r
             /\ UNCHANGED <<file, settled>>
    <3>1. forgone' = forgone
      BY <1>3 DEF Logs
    <3>2. Known \cup {r} \subseteq Known'
      BY <2>2, <2>4, <3>1 DEF Known, Waiting, OnDisk, Lines
    <3>3. NothingElseIsLost'
      BY <1>1, <2>2, <3>2, KnownIsKept
    <3> QED
      BY <2>4, <3>3 DEF NothingAbove, Robbed
  <2> QED
    BY <1>3, <2>1, <2>3, <2>4 DEF Logs, Shape
<1>4. ASSUME RolloverLooks \/ RolloverLooksAhead
      PROVE  NothingAbove' /\ Robbed' /\ NothingElseIsLost'
  <2>1. UNCHANGED <<file, logged, pending, forgone>>
    BY <1>4 DEF RolloverLooks, RolloverLooksAhead
  <2>2. NothingElseIsLost'
    BY <1>2, <2>1 DEF Waiting
  <2>3. NothingAbove' /\ Robbed'
    BY <1>1, <1>4, <2>1 DEF RolloverLooks, RolloverLooksAhead, NothingAbove, Robbed
  <2> QED
    BY <2>2, <2>3
<1>5. ASSUME Aborts, UNCHANGED logged, pending \in forgone
      PROVE  NothingAbove' /\ Robbed' /\ NothingElseIsLost'
  BY <1>2, <1>5 DEF Aborts, NothingAbove, Robbed, Waiting
<1>6. ASSUME RolloverRemoves PROVE NothingAbove' /\ Robbed' /\ NothingElseIsLost'
  <2>1. slot + 1 = Backups /\ UNCHANGED logged /\ writer = "remove"
    BY <1>6 DEF RolloverRemoves, NothingAbove
  <2>2. CASE file[slot + 1] = None
    BY <1>5, <1>6, <2>1, <2>2 DEF RolloverRemoves, Robbed
  <2>3. CASE file[slot + 1] # None
    <3>1. /\ file' = [file EXCEPT ![Backups] = None] /\ writer' = "rename"
          /\ forgone' = forgone \cup ToSet(file[Backups])
          /\ UNCHANGED <<slot, pending>>
      BY <1>6, <2>1, <2>3 DEF RolloverRemoves, Files
    <3>2. \A p \in Paths \ {Backups} : Lines(file, p)' = Lines(file, p)
      BY <1>1, <3>1 DEF Lines
    <3>3. Lines(file, Backups) = file[Backups]
      BY <2>1, <2>3 DEF Lines
    <3>4. Known \subseteq Known'
      BY <3>1, <3>2, <3>3 DEF Known, OnDisk, Waiting
    <3>5. NothingElseIsLost'
      BY <1>1, <2>1, <3>4, KnownIsKept
    <3>6. NothingAbove' /\ Robbed'
      BY <1>1, <2>1, <3>1 DEF NothingAbove, Robbed, Paths
    <3> QED
      BY <3>5, <3>6
  <2> QED
    BY <2>2, <2>3
<1>7. ASSUME RolloverRenames PROVE NothingAbove' /\ Robbed' /\ NothingElseIsLost'
  <2>1. UNCHANGED logged /\ writer = "rename"
    BY <1>7 DEF RolloverRenames
  <2>2. CASE file[slot] = None
    BY <1>5, <1>7, <2>1, <2>2 DEF RolloverRenames, Robbed
  <2>3. CASE file[slot] # None
    <3>1. /\ file' = [file EXCEPT ![slot + 1] = file[slot], ![slot] = None]
          /\ UNCHANGED <<pending, forgone>>
          /\ \/ writer' = "open" /\ UNCHANGED slot
             \/ slot # 0 /\ writer' = "shift" /\ slot' = slot - 1
      BY <1>7, <2>3 DEF RolloverRenames, Files
    <3>2. slot \in Paths /\ slot + 1 \in Paths /\ slot # slot + 1 /\ file[slot + 1] = None
      BY <1>1, <2>1 DEF Paths, NothingAbove
    <3>3. /\ Lines(file, slot + 1) = <<>>
          /\ \A p \in Paths \ {slot, slot + 1} : file'[p] = file[p]
          /\ file'[slot + 1] = file[slot] /\ file'[slot] = None
      BY <1>1, <3>1, <3>2 DEF Lines
    <3>4. OnDisk(file) \subseteq UNION {ToSet(IF file'[p] = None THEN <<>> ELSE file'[p]) : p \in Paths}
      <4>1. ToSet(<<>>) = {}
        BY DEF ToSet
      <4> QED
        BY <3>2, <3>3, <4>1 DEF OnDisk, Lines
    <3>5. Known \subseteq Known'
      BY <3>1, <3>4 DEF Known, OnDisk, Lines, Waiting
    <3>6. NothingElseIsLost'
      BY <1>1, <2>1, <3>5, KnownIsKept
    <3>7. NothingAbove' /\ Robbed'
      <4>1. CASE writer' = "open"
        BY <4>1 DEF NothingAbove, Robbed
      <4>2. CASE writer' = "shift" /\ slot' = slot - 1
        <5>1. slot' + 1 = slot
          BY <1>1, <4>2
        <5> QED
          BY <3>3, <4>2, <5>1 DEF NothingAbove, Robbed
      <4> QED
        BY <3>1, <4>1, <4>2
    <3> QED
      BY <3>6, <3>7
  <2> QED
    BY <2>2, <2>3
<1>8. ASSUME RolloverStores PROVE NothingAbove' /\ Robbed' /\ NothingElseIsLost'
  <2>1. PICK r : r = pending
    OBVIOUS
  <2>2. /\ r \in Records /\ UNCHANGED logged /\ writer' = "idle" /\ forgone' = forgone \ {r}
        /\ file' = [file EXCEPT ![0] = Append(Lines(file, 0), r)]
        /\ Len(Lines(file, 0)) < Capacity
    BY <1>8, <2>1 DEF RolloverStores, Store, Files, Shape, TypeOK, InRollover, Lines
  <2>3. OnDisk(file) \cup {r} \subseteq OnDisk(file)'
    BY <2>2, AppendKeeps
  <2>4. Known \subseteq Known'
    BY <2>1, <2>2, <2>3 DEF Known, Waiting
  <2>5. NothingElseIsLost'
    BY <1>1, <2>2, <2>4, KnownIsKept
  <2> QED
    BY <2>2, <2>5 DEF NothingAbove, Robbed
<1>9. ASSUME DaemonDies PROVE NothingAbove' /\ Robbed' /\ NothingElseIsLost'
  BY <1>2, <1>9 DEF DaemonDies, NothingAbove, Robbed, Waiting
<1>10. ASSUME DaemonStarts PROVE NothingAbove' /\ Robbed' /\ NothingElseIsLost'
  <2>1. /\ file' = [file EXCEPT ![0] = Lines(file, 0)] /\ writer' = "idle"
        /\ UNCHANGED <<pending, forgone, logged>>
    BY <1>10 DEF DaemonStarts, Files
  <2>2. \A p \in Paths : Lines(file, p)' = Lines(file, p)
    BY <1>1, <2>1 DEF Lines
  <2>3. Known \subseteq Known'
    BY <2>1, <2>2 DEF Known, OnDisk, Waiting
  <2>4. NothingElseIsLost'
    BY <1>1, <2>1, <2>3, KnownIsKept
  <2> QED
    BY <2>1, <2>4 DEF NothingAbove, Robbed
<1> QED
  BY <1>3, <1>4, <1>6, <1>7, <1>8, <1>9, <1>10 DEF DaemonStep

\* A clear forgoes what it empties, and the record whose rollover it robs of a file.
LEMMA ClearForgoes ==
  ASSUME Lossless, Shape', NEW c \in Clearers, ClearEmpties(c)
  PROVE  Lossless'
<1> USE EventLogAssumption DEF Lossless
<1>1. PICK p \in Paths : p = clearing[c]
  BY DEF ClearEmpties
<1>2. /\ file' = [file EXCEPT ![p] = IF file[p] = None \/ IsRemoved(p) THEN None ELSE <<>>]
      /\ forgone' = forgone \cup ToSet(Lines(file, p))
                      \cup IF IsRemoved(p) /\ file[p] # None THEN Waiting ELSE {}
      /\ UNCHANGED <<writer, slot, pending, logged>>
  BY <1>1 DEF ClearEmpties, PathCleared, Files
<1>3. /\ DOMAIN file = Paths /\ file'[p] = IF file[p] = None \/ IsRemoved(p) THEN None ELSE <<>>
      /\ \A q \in Paths \ {p} : file'[q] = file[q]
      /\ slot \in 0 .. Backups - 1 /\ TypeOK /\ (InRollover => pending # None)
  BY <1>2 DEF Shape, TypeOK
<1>4. NothingElseIsLost'
  <2>1. \A q \in Paths \ {p} : Lines(file, q)' = Lines(file, q)
    BY <1>2, <1>3 DEF Lines
  <2>2. Known \subseteq Known'
    <3>1. ToSet(Lines(file, p)) \subseteq forgone' /\ forgone \subseteq forgone' /\ Waiting' = Waiting
      BY <1>2 DEF Waiting
    <3> QED
      BY <2>1, <3>1 DEF Known, OnDisk
  <2> QED
    BY <1>2, <1>3, <2>2, KnownIsKept
<1>5. /\ \A q \in Paths : file[q] = None => file'[q] = None
      /\ \A q \in Paths : file'[q] = None /\ file[q] # None => q = p /\ IsRemoved(p)
  <2>1. <<>> # None
    BY EmptyIsShort
  <2> QED
    BY <1>3, <2>1, Zenon
<1>6. slot \in Paths /\ slot + 1 \in Paths
  BY <1>3 DEF Paths
<1>7. NothingAbove'
  BY <1>2, <1>5, <1>6 DEF NothingAbove
<1>8. Robbed'
  <2>1. ASSUME NEW q \in Paths, file'[q] = None, file[q] # None, InRollover
        PROVE  pending \in forgone'
    BY <1>2, <1>3, <1>5, <2>1 DEF Waiting
  <2>2. forgone \subseteq forgone'
    BY <1>2
  <2> QED
    BY <1>2, <1>6, <2>1, <2>2 DEF Robbed, InRollover
<1> QED
  BY <1>4, <1>7, <1>8

\* Together they are inductive.
LEMMA NextLossless == Lossless /\ [Next]_vars => Lossless'
<1> SUFFICES ASSUME Lossless, [Next]_vars PROVE Lossless'
  OBVIOUS
<1>1. Shape'
  BY NextShape DEF Lossless
<1>2. ASSUME UNCHANGED <<file, writer, slot, pending, logged, forgone>> PROVE Lossless'
  BY <1>1, <1>2 DEF Lossless, NothingAbove, Robbed, NothingElseIsLost, OnDisk, Lines, Waiting
<1>3. CASE UNCHANGED vars
  BY <1>2, <1>3 DEF vars, writerVars
<1>4. CASE DaemonStep
  BY <1>1, <1>4, DaemonLosesNothing
<1>5. ASSUME NEW r \in Readers, LoadStarts(r) \/ LoadReads(r) \/ LoadReturns(r)
      PROVE  Lossless'
  BY <1>2, <1>5 DEF LoadStarts, LoadReads, LoadReturns, writerVars
<1>6. ASSUME NEW c \in Clearers, ClearStarts(c) \/ ClearReturns(c)
      PROVE  Lossless'
  BY <1>2, <1>6 DEF ClearStarts, ClearReturns, writerVars
<1>7. ASSUME NEW c \in Clearers, ClearEmpties(c)
      PROVE  Lossless'
  BY <1>1, <1>7, ClearForgoes
<1> QED
  BY <1>3, <1>4, <1>5, <1>6, <1>7 DEF Next

(***************************************************************************)
(* For any number of backups, of concurrent clears and of records: every   *)
(* record logged is on disk or waits for the rollover, unless a clear, the *)
(* limit of Backups or the death of the daemon accounts for it.            *)
(***************************************************************************)
THEOREM NothingElseLost == Spec => []NothingElseIsLost
<1>1. Init => Lossless
  <2> SUFFICES ASSUME Init PROVE Lossless
    OBVIOUS
  <2>1. Shape
    BY InitHistory DEF History
  <2>2. logged = 0 /\ writer = "idle"
    BY DEF Init
  <2> QED
    BY <2>1, <2>2 DEF Lossless, NothingAbove, Robbed, NothingElseIsLost
<1>2. Lossless => NothingElseIsLost
  BY DEF Lossless
<1> QED
  BY <1>1, <1>2, NextLossless, PTL DEF Spec

-----------------------------------------------------------------------------
(***************************************************************************)
(* The answers of EventStats.  Sorting and filtering both arrange a set of *)
(* positions: an alert's place is the number of positions up to its own.   *)
(***************************************************************************)
IsFunctionOn(f, S) == f = [x \in S |-> f[x]]

IsOneToOne(f, S, T) ==
  /\ f \in [S -> T]
  /\ \A x, y \in S : f[x] = f[y] => x = y
  /\ \A t \in T : \E x \in S : f[x] = t

\* Sets matched one to one have as many elements.
LEMMA SameSize ==
  ASSUME NEW S, IsFiniteSet(S), NEW T, NEW f, IsOneToOne(f, S, T)
  PROVE  IsFiniteSet(T) /\ Cardinality(T) = Cardinality(S)
<1>1. f \in Bijection(S, T)
  BY DEF IsOneToOne, Bijection, Injection, Surjection, IsInjective
<1> QED
  BY <1>1, FS_Bijection DEF ExistsBijection

\* The part of S that f sends into A.
Into(A, f, S) == {x \in S : f[x] \in A}

\* A part of T has as many elements as what is sent into it.
LEMMA SameCount ==
  ASSUME NEW S, IsFiniteSet(S), NEW T, NEW f, IsOneToOne(f, S, T), NEW A \in SUBSET T
  PROVE  Cardinality(Into(A, f, S)) = Cardinality(A)
<1> DEFINE R == Into(A, f, S)
           g == [x \in R |-> f[x]]
<1>1. IsOneToOne(g, R, A)
  <2> USE DEF Into
  <2>1. g \in [R -> A]
    OBVIOUS
  <2>2. ASSUME NEW t \in A
        PROVE  \E x \in R : g[x] = t
    <3>1. PICK x \in S : f[x] = t
      BY DEF IsOneToOne
    <3>2. x \in R /\ g[x] = t
      BY <3>1
    <3> QED
      BY <3>2
  <2>3. \A x, y \in R : g[x] = g[y] => x = y
    BY DEF IsOneToOne
  <2> HIDE DEF g, R
  <2> QED
    BY <2>1, <2>2, <2>3 DEF IsOneToOne
<1>2. IsFiniteSet(R)
  BY FS_Subset DEF Into
<1> HIDE DEF g, R
<1>3. Cardinality(A) = Cardinality(R)
  BY <1>1, <1>2, SameSize
<1> QED
  BY <1>3 DEF R

\* upTo[i] holds the places up to i in some total order of these places.
IsOrder(upTo, places) ==
  /\ \A i \in places : i \in upTo[i]
  /\ \A i, j \in places : i # j => (i \in upTo[j] <=> j \notin upTo[i])
  /\ \A i, j, k \in places : i \in upTo[j] /\ j \in upTo[k] => i \in upTo[k]

\* t holds what s has at the places, once each and in that order.
Follows(t, s, places, upTo, m, at) ==
  /\ IsOneToOne(at, 1 .. m, places)
  /\ \A k, l \in 1 .. m : k <= l => at[k] \in upTo[at[l]]
  /\ IsFunctionOn(t, 1 .. m) /\ \A k \in 1 .. m : t[k] = s[at[k]]

\* Arranged takes every place once, in that order.
LEMMA Arranges ==
  ASSUME NEW n \in Nat, NEW places \in SUBSET (1 .. n), NEW upTo, IsOrder(upTo, places), NEW s
  PROVE  /\ Cardinality(places) \in Nat
         /\ \E at : Follows(Arranged(s, places, upTo), s, places, upTo, Cardinality(places), at)
<1> DEFINE m == Cardinality(places)
           Up(i) == upTo[i] \cap places
           rank == [i \in places |-> Cardinality(Up(i))]
           pick(k) == CHOOSE i \in places : Cardinality(Up(i)) = k
           at == [k \in 1 .. m |-> pick(k)]
<1>1. /\ IsFiniteSet(places) /\ m \in Nat
      /\ \A i \in places : IsFiniteSet(Up(i)) /\ Cardinality(Up(i)) \in 0 .. m
  <2>1. IsFiniteSet(1 .. n)
    BY FS_Interval
  <2>2. IsFiniteSet(places) /\ m \in Nat
    BY <2>1, FS_Subset, FS_CardinalityType
  <2>3. ASSUME NEW i \in places
        PROVE  IsFiniteSet(Up(i)) /\ Cardinality(Up(i)) \in 0 .. m
    <3>1. Up(i) \in SUBSET places
      OBVIOUS
    <3> HIDE DEF Up
    <3>2. IsFiniteSet(Up(i)) /\ Cardinality(Up(i)) <= m
      BY <2>2, <3>1, FS_Subset
    <3>3. Cardinality(Up(i)) \in Nat
      BY <3>2, FS_CardinalityType
    <3> HIDE DEF m
    <3> QED
      BY <2>2, <3>2, <3>3
  <2> QED
    BY <2>2, <2>3
<1>2. \A i \in places : rank[i] \in 1 .. m
  <2> SUFFICES ASSUME NEW i \in places
               PROVE  rank[i] \in 1 .. m
    OBVIOUS
  <2>1. Up(i) # {}
    BY DEF IsOrder
  <2>2. Cardinality(Up(i)) # 0
    BY <1>1, <2>1, FS_EmptySet
  <2> HIDE DEF m, Up
  <2> QED
    BY <1>1, <2>2
<1>3. ASSUME NEW i \in places, NEW j \in places, i # j, i \in upTo[j]
      PROVE  rank[i] < rank[j]
  <2>1. Up(i) \in SUBSET Up(j) /\ j \in Up(j) \ Up(i)
    BY <1>3 DEF IsOrder
  <2> HIDE DEF Up
  <2>2. Cardinality(Up(i)) <= Cardinality(Up(j)) /\ Cardinality(Up(i)) # Cardinality(Up(j))
    BY <1>1, <2>1, FS_Subset
  <2> HIDE DEF m
  <2> QED
    BY <1>1, <2>2
<1>4. ASSUME NEW i \in places, NEW j \in places, rank[i] = rank[j]
      PROVE  i = j
  <2>1. rank[i] \in Int /\ rank[j] \in Int
    BY <1>1, <1>2
  <2>2. i # j => i \in upTo[j] \/ j \in upTo[i]
    BY DEF IsOrder
  <2> HIDE DEF rank
  <2> QED
    BY <1>3, <1>4, <2>1, <2>2
<1>5. \A k \in 1 .. m : \E i \in places : rank[i] = k
  <2>1. rank \in Injection(places, 1 .. m)
    <3>1. rank \in [places -> 1 .. m]
      BY <1>2
    <3> HIDE DEF rank, m
    <3> QED
      BY <1>4, <3>1 DEF Injection, IsInjective
  <2>2. IsFiniteSet(1 .. m) /\ Cardinality(1 .. m) = m
    BY <1>1, FS_Interval
  <2> HIDE DEF rank
  <2>3. rank \in Surjection(places, 1 .. m)
    BY <2>1, <2>2, FS_Injection
  <2> QED
    BY <2>3 DEF Surjection
<1>6. \A k \in 1 .. m : at[k] \in places /\ rank[at[k]] = k
  <2> SUFFICES ASSUME NEW k \in 1 .. m
               PROVE  at[k] \in places /\ rank[at[k]] = k
    OBVIOUS
  <2>1. \E i \in places : Cardinality(Up(i)) = k
    BY <1>5
  <2> HIDE DEF Up
  <2>2. at[k] \in places /\ Cardinality(Up(at[k])) = k
    BY <2>1
  <2> HIDE DEF at
  <2> QED
    BY <2>2
<1>7. Arranged(s, places, upTo) = [k \in 1 .. m |-> s[at[k]]]
  <2>1. Arranged(s, places, upTo) =
          [k \in 1 .. m |-> s[CHOOSE i \in places : Cardinality(Up(i)) = k]]
    BY Zenon DEF Arranged
  <2> QED
    BY <2>1
<1>8. at = [k \in 1 .. m |-> at[k]]
  <2> HIDE DEF pick, m
  <2> QED
    OBVIOUS
<1> HIDE DEF at, rank, m
<1>9. IsOneToOne(at, 1 .. m, places)
  <2>1. at \in [1 .. m -> places]
    BY <1>6, <1>8
  <2>2. \A k, l \in 1 .. m : at[k] = at[l] => k = l
    BY <1>6
  <2>3. \A i \in places : at[rank[i]] = i
    BY <1>2, <1>4, <1>6
  <2> QED
    BY <1>2, <2>1, <2>2, <2>3 DEF IsOneToOne
<1>10. ASSUME NEW k \in 1 .. m, NEW l \in 1 .. m, k <= l
       PROVE  at[k] \in upTo[at[l]]
  <2>1. CASE k = l
    BY <1>6, <2>1 DEF IsOrder
  <2>2. CASE k < l
    <3>1. at[k] # at[l]
      BY <1>9, <2>2 DEF IsOneToOne
    <3>2. at[l] \in upTo[at[k]] => l < k
      BY <1>3, <1>6, <3>1
    <3>3. at[l] \notin upTo[at[k]]
      BY <1>1, <2>2, <3>2
    <3> QED
      BY <1>6, <3>1, <3>3 DEF IsOrder
  <2> QED
    BY <1>1, <1>10, <2>1, <2>2
<1>11. /\ IsFunctionOn(Arranged(s, places, upTo), 1 .. m)
       /\ \A k \in 1 .. m : Arranged(s, places, upTo)[k] = s[at[k]]
  BY <1>7 DEF IsFunctionOn
<1>12. Follows(Arranged(s, places, upTo), s, places, upTo, m, at)
  BY <1>9, <1>10, <1>11 DEF Follows
<1> QED
  BY <1>1, <1>12 DEF m

\* What is known of a list that was loaded.
LEMMA HistoryFacts ==
  ASSUME NEW s, IsHistory(s)
  PROVE  /\ Len(s) \in Nat /\ DOMAIN s = 1 .. Len(s)
         /\ \A i \in 1 .. Len(s) : s[i] \in ToSet(s) /\ s[i].time \in Int
<1>1. s \in Seq(ToSet(s))
  BY DEF IsHistory
<1>2. Len(s) \in Nat /\ DOMAIN s = 1 .. Len(s)
  BY <1>1, LenProperties
<1>3. \A i \in 1 .. Len(s) : s[i] \in ToSet(s)
  BY <1>2 DEF ToSet
<1> QED
  BY <1>2, <1>3 DEF IsHistory

\* A function on 1 .. m is a list.
LEMMA Listed ==
  ASSUME NEW m \in Nat, NEW T, NEW t, IsFunctionOn(t, 1 .. m), \A k \in 1 .. m : t[k] \in T
  PROVE  t \in Seq(T) /\ Len(t) = m /\ DOMAIN t = 1 .. m
<1>1. t \in [1 .. m -> T]
  BY DEF IsFunctionOn
<1>2. t \in Seq(T)
  BY <1>1
<1>3. DOMAIN t = 1 .. Len(t) /\ Len(t) \in Nat
  BY <1>2, LenProperties
<1>4. DOMAIN t = 1 .. m
  BY <1>1
<1>5. Len(t) = m
  <2> DEFINE size == Len(t)
  <2> HIDE DEF size
  <2>1. size \in Nat /\ 1 .. size = 1 .. m
    BY <1>3, <1>4 DEF size
  <2>2. (m = 0 \/ m \in 1 .. size) /\ (size = 0 \/ size \in 1 .. m)
    BY <2>1
  <2>3. size = m
    BY <2>1, <2>2
  <2> QED
    BY <2>3 DEF size
<1> QED
  BY <1>2, <1>4, <1>5

\* SortedByTime holds every alert once, the newest first.
LEMMA Sorted ==
  ASSUME NEW s, IsHistory(s)
  PROVE  /\ SortedByTime(s) \in Seq(ToSet(s)) /\ Len(SortedByTime(s)) = Len(s)
         /\ \E at : /\ IsOneToOne(at, 1 .. Len(s), 1 .. Len(s))
                    /\ \A k \in 1 .. Len(s) : SortedByTime(s)[k] = s[at[k]]
                    /\ \A k, l \in 1 .. Len(s) : k <= l => s[at[k]].time >= s[at[l]].time
<1> DEFINE n == Len(s)
           upTo == [i \in DOMAIN s |->
                      {j \in DOMAIN s : s[j].time > s[i].time \/ (s[j].time = s[i].time /\ j <= i)}]
<1>1. /\ n \in Nat /\ DOMAIN s = 1 .. n
      /\ \A i \in 1 .. n : s[i] \in ToSet(s) /\ s[i].time \in Int
  BY HistoryFacts
<1>2. Cardinality(1 .. n) = n
  BY <1>1, FS_Interval
<1>3. SortedByTime(s) = Arranged(s, 1 .. n, upTo)
  <2>1. SortedByTime(s) = Arranged(s, DOMAIN s, upTo)
    BY Zenon DEF SortedByTime
  <2> HIDE DEF n, upTo
  <2> QED
    BY <1>1, <2>1
<1>4. \A i, j \in 1 .. n : j \in upTo[i] <=> s[j].time > s[i].time \/ (s[j].time = s[i].time /\ j <= i)
  <2>1. \A i, j \in DOMAIN s :
          j \in upTo[i] <=> s[j].time > s[i].time \/ (s[j].time = s[i].time /\ j <= i)
    OBVIOUS
  <2> HIDE DEF n, upTo
  <2> QED
    BY <1>1, <2>1
<1> DEFINE all == 1 .. n
<1> HIDE DEF n, upTo
<1>5. IsOrder(upTo, all)
  <2>1. \A i \in 1 .. n : i \in upTo[i]
    BY <1>1, <1>4
  <2>2. \A i, j \in 1 .. n : i # j => (i \in upTo[j] <=> j \notin upTo[i])
    BY <1>1, <1>4
  <2>3. \A i, j, k \in 1 .. n : i \in upTo[j] /\ j \in upTo[k] => i \in upTo[k]
    BY <1>1, <1>4
  <2> QED
    BY <2>1, <2>2, <2>3, Zenon DEF IsOrder
<1>6. PICK at : /\ IsOneToOne(at, 1 .. n, 1 .. n)
                /\ \A k, l \in 1 .. n : k <= l => at[k] \in upTo[at[l]]
                /\ IsFunctionOn(Arranged(s, 1 .. n, upTo), 1 .. n)
                /\ \A k \in 1 .. n : Arranged(s, 1 .. n, upTo)[k] = s[at[k]]
  <2>1. all \in SUBSET (1 .. n) /\ Cardinality(all) = n
    BY <1>2
  <2> HIDE DEF all
  <2>2. PICK at : Follows(Arranged(s, all, upTo), s, all, upTo, n, at)
    BY <1>1, <1>5, <2>1, Arranges
  <2> QED
    BY <2>2, Zenon DEF Follows, all
<1>7. at \in [1 .. n -> 1 .. n]
  BY <1>6 DEF IsOneToOne
<1>8. SortedByTime(s) \in Seq(ToSet(s)) /\ Len(SortedByTime(s)) = n
  <2>1. \A k \in 1 .. n : at[k] \in 1 .. n
    BY <1>7
  <2>2. IsFunctionOn(SortedByTime(s), 1 .. n) /\ \A k \in 1 .. n : SortedByTime(s)[k] \in ToSet(s)
    BY <1>1, <1>3, <1>6, <2>1
  <2> QED
    BY <1>1, <2>2, Listed
<1>9. ASSUME NEW k \in 1 .. n, NEW l \in 1 .. n, k <= l
      PROVE  s[at[k]].time >= s[at[l]].time
  <2>1. at[k] \in 1 .. n /\ at[l] \in 1 .. n
    BY <1>7
  <2>2. at[k] \in upTo[at[l]]
    BY <1>6, <1>9
  <2>3. s[at[k]].time > s[at[l]].time \/ s[at[k]].time = s[at[l]].time
    BY <1>4, <2>1, <2>2
  <2> QED
    BY <1>1, <2>1, <2>3
<1>10. \A k \in 1 .. n : SortedByTime(s)[k] = s[at[k]]
  BY <1>3, <1>6
<1> QED
  BY <1>6, <1>8, <1>9, <1>10 DEF n

\* t holds what s has of the wanted, each at its position at, the newest first.
Selects(t, s, wanted, at) ==
  /\ IsOneToOne(at, 1 .. Len(t), {i \in 1 .. Len(s) : s[i] \in wanted})
  /\ \A k \in 1 .. Len(t) : t[k] = s[at[k]]
  /\ \A k, l \in 1 .. Len(t) : k <= l => s[at[k]].time >= s[at[l]].time

\* Filtering the sorted list keeps what is wanted once each, and the order.
LEMMA Selected ==
  ASSUME NEW s, IsHistory(s), NEW wanted
  PROVE  /\ Kept(SortedByTime(s), wanted) \in Seq(ToSet(s))
         /\ \E at : Selects(Kept(SortedByTime(s), wanted), s, wanted, at)
<1> DEFINE n == Len(s)
           t == SortedByTime(s)
           places == {i \in 1 .. n : t[i] \in wanted}
           upTo == [i \in DOMAIN t |-> 1 .. i]
           m == Cardinality(places)
<1>1. n \in Nat /\ \A i \in 1 .. n : s[i] \in ToSet(s) /\ s[i].time \in Int
  BY HistoryFacts
<1>2. PICK f : /\ IsOneToOne(f, 1 .. n, 1 .. n)
               /\ \A k \in 1 .. n : t[k] = s[f[k]]
               /\ \A k, l \in 1 .. n : k <= l => s[f[k]].time >= s[f[l]].time
  BY Sorted
<1>3. t \in Seq(ToSet(s)) /\ DOMAIN t = 1 .. n
  <2>1. t \in Seq(ToSet(s)) /\ Len(t) = n
    BY Sorted
  <2> HIDE DEF t, n
  <2> QED
    BY <2>1, LenProperties
<1>4. Kept(t, wanted) = Arranged(t, places, upTo)
  <2> HIDE DEF t, n
  <2>1. {i \in DOMAIN t : t[i] \in wanted} = places
    BY <1>3
  <2> QED
    BY <2>1, Zenon DEF Kept
<1> HIDE DEF t, n
<1>5. \A i, j \in 1 .. n : j \in upTo[i] <=> j <= i
  BY <1>1, <1>3
<1>6. places \in SUBSET (1 .. n)
  OBVIOUS
<1> HIDE DEF upTo
<1>7. IsOrder(upTo, places)
  BY <1>1, <1>5 DEF IsOrder
<1>8. m \in Nat /\ \E g : Follows(Arranged(t, places, upTo), t, places, upTo, m, g)
  <2> HIDE DEF places
  <2> QED
    BY <1>1, <1>6, <1>7, Arranges
<1>9. PICK g : /\ IsOneToOne(g, 1 .. m, places)
               /\ \A k, l \in 1 .. m : k <= l => g[k] \in upTo[g[l]]
               /\ IsFunctionOn(Arranged(t, places, upTo), 1 .. m)
               /\ \A k \in 1 .. m : Arranged(t, places, upTo)[k] = t[g[k]]
  BY <1>8, Zenon DEF Follows
<1> DEFINE at == [k \in 1 .. m |-> f[g[k]]]
<1>10. \A k \in 1 .. m : g[k] \in 1 .. n /\ t[g[k]] \in wanted
  BY <1>9 DEF IsOneToOne
<1> HIDE DEF m
<1>11. \A k \in 1 .. m : at[k] \in 1 .. n /\ at[k] = f[g[k]] /\ s[at[k]] = t[g[k]]
  BY <1>2, <1>10 DEF IsOneToOne
<1>12. IsOneToOne(at, 1 .. m, {i \in 1 .. n : s[i] \in wanted})
  <2>1. at \in [1 .. m -> {i \in 1 .. n : s[i] \in wanted}]
    <3>1. at = [k \in 1 .. m |-> at[k]]
      OBVIOUS
    <3> HIDE DEF at
    <3> QED
      BY <1>10, <1>11, <3>1
  <2> HIDE DEF at
  <2>2. \A k, l \in 1 .. m : at[k] = at[l] => k = l
    BY <1>2, <1>9, <1>10, <1>11 DEF IsOneToOne
  <2>3. ASSUME NEW i \in 1 .. n, s[i] \in wanted
        PROVE  \E k \in 1 .. m : at[k] = i
    <3>1. PICK x \in 1 .. n : f[x] = i
      BY <1>2 DEF IsOneToOne
    <3>2. x \in places
      BY <1>2, <2>3, <3>1
    <3>3. PICK k \in 1 .. m : g[k] = x
      BY <1>9, <3>2 DEF IsOneToOne
    <3> QED
      BY <1>11, <3>1, <3>3
  <2> QED
    BY <2>1, <2>2, <2>3 DEF IsOneToOne
<1>13. \A k, l \in 1 .. m : k <= l => s[at[k]].time >= s[at[l]].time
  <2> HIDE DEF at
  <2>1. \A k, l \in 1 .. m : k <= l => g[k] <= g[l]
    BY <1>5, <1>9, <1>10
  <2> QED
    BY <1>2, <1>10, <1>11, <2>1
<1>14. /\ IsFunctionOn(Kept(t, wanted), 1 .. m)
       /\ \A k \in 1 .. m : Kept(t, wanted)[k] = s[at[k]]
  <2> HIDE DEF at
  <2> QED
    BY <1>4, <1>9, <1>11
<1>15. at \in [1 .. m -> 1 .. n]
  BY <1>12 DEF IsOneToOne
<1> HIDE DEF at
<1>16. Kept(t, wanted) \in Seq(ToSet(s)) /\ Len(Kept(t, wanted)) = m
  <2>1. \A k \in 1 .. m : Kept(t, wanted)[k] \in ToSet(s)
    BY <1>1, <1>14, <1>15
  <2> QED
    BY <1>8, <1>14, <2>1, Listed
<1>17. Selects(Kept(t, wanted), s, wanted, at)
  BY <1>12, <1>13, <1>14, <1>16 DEF Selects, n
<1> QED
  BY <1>16, <1>17 DEF t

\* How many were kept, and the lists an answer is made of.
LEMMA HowMany ==
  ASSUME NEW s, IsHistory(s), NEW wanted
  PROVE  Len(Kept(SortedByTime(s), wanted)) = Cardinality({i \in 1 .. Len(s) : s[i] \in wanted})
<1> DEFINE K == Kept(SortedByTime(s), wanted)
           P == {i \in 1 .. Len(s) : s[i] \in wanted}
<1>1. K \in Seq(ToSet(s)) /\ \E at : IsOneToOne(at, 1 .. Len(K), P)
  BY Selected DEF Selects
<1> HIDE DEF K, P
<1> DEFINE m == Len(K)
<1>2. m \in Nat /\ \E at : IsOneToOne(at, 1 .. m, P)
  BY <1>1, LenProperties
<1> HIDE DEF m
<1>3. IsFiniteSet(1 .. m) /\ Cardinality(1 .. m) = m
  BY <1>2, FS_Interval
<1>4. Cardinality(P) = Cardinality(1 .. m)
  BY <1>2, <1>3, SameSize
<1> QED
  BY <1>3, <1>4 DEF K, P, m

\* Sorting neither loses nor invents an alert.
LEMMA SortedSame ==
  ASSUME NEW s, IsHistory(s)
  PROVE  ToSet(SortedByTime(s)) = ToSet(s)
<1>1. Len(s) \in Nat /\ DOMAIN s = 1 .. Len(s)
  BY HistoryFacts
<1>2. SortedByTime(s) \in Seq(ToSet(s)) /\ Len(SortedByTime(s)) = Len(s)
  BY Sorted
<1>3. DOMAIN SortedByTime(s) = 1 .. Len(s)
  BY <1>2, LenProperties
<1>4. PICK at : /\ IsOneToOne(at, 1 .. Len(s), 1 .. Len(s))
                /\ \A k \in 1 .. Len(s) : SortedByTime(s)[k] = s[at[k]]
  BY Sorted
<1>5. ASSUME NEW k \in 1 .. Len(s)
      PROVE  SortedByTime(s)[k] \in ToSet(s)
  <2>1. at[k] \in 1 .. Len(s)
    BY <1>4 DEF IsOneToOne
  <2> QED
    BY <1>1, <1>4, <2>1 DEF ToSet
<1>6. ASSUME NEW i \in 1 .. Len(s)
      PROVE  s[i] \in ToSet(SortedByTime(s))
  <2>1. PICK k \in 1 .. Len(s) : at[k] = i
    BY <1>4 DEF IsOneToOne
  <2> QED
    BY <1>3, <1>4, <2>1 DEF ToSet
<1> QED
  BY <1>1, <1>3, <1>5, <1>6 DEF ToSet

\* Quotients, and hours that fit into a day.
LEMMA Within ==
  ASSUME NEW a \in Nat, NEW b \in Nat \ {0}, NEW h \in Nat
  PROVE  a \div b = h <=> h * b <= a /\ a < (h + 1) * b
<1> DEFINE q == a \div b
           r == a % b
<1>1. q \in Nat /\ r \in 0 .. b - 1 /\ a = (b * q) + r
  OBVIOUS
<1> HIDE DEF q, r
<1>2. q = h => h * b <= a /\ a < (h + 1) * b
  BY <1>1
<1>3. q < h => h * b > a
  <2> SUFFICES ASSUME q + 1 <= h
               PROVE  h * b > a
    BY <1>1
  <2>1. (q + 1) * b <= h * b
    BY <1>1
  <2> QED
    BY <1>1, <2>1
<1>4. q > h => a >= (h + 1) * b
  <2> SUFFICES ASSUME h + 1 <= q
               PROVE  a >= (h + 1) * b
    BY <1>1
  <2>1. (h + 1) * b <= q * b
    BY <1>1
  <2> QED
    BY <1>1, <2>1
<1> QED
  BY <1>1, <1>2, <1>3, <1>4 DEF q

\* A bar is within the day (a product of two unknowns, which is not for the leaves below).
LEMMA HoursFit ==
  ASSUME NEW h \in 0 .. Hours - 1
  PROVE  /\ (h + 1) * Hour \in Int /\ h * Hour \in Int /\ Hours * Hour \in Int
         /\ 0 <= h * Hour /\ (h + 1) * Hour <= Hours * Hour
BY EventStatsAssumption

\* One alert: which bar counts it, and whether it is counted at all.
LEMMA OneBar ==
  ASSUME NEW a, a.time \in Int, NEW h \in 0 .. Hours - 1
  PROVE  IsRecent(a) /\ hoursAgo(a) = h <=>
           Age(a) < (h + 1) * Hour /\ (Age(a) >= h * Hour \/ h = 0) /\ ~(Age(a) <= -Hour)
<1> DEFINE d == Now - a.time
           day == Hours * Hour
           low == h * Hour
           high == (h + 1) * Hour
<1>1. /\ Age(a) = d /\ d \in Int /\ a.time \in Int /\ h \in Nat
      /\ Hour \in Nat \ {0} /\ Now \in Int /\ Never < Now - day
  BY EventStatsAssumption DEF Age
<1>2. day \in Int /\ low \in Int /\ high \in Int /\ 0 <= low /\ high <= day
  BY HoursFit
<1>3. hoursAgo(a) = Truncated(d)
  BY DEF hoursAgo
<1>4. IsRecent(a) <=> a.time # Never /\ a.time >= Now - day
  BY DEF IsRecent
<1>5. IsRecent(a) <=> d <= day
  <2>1. d = Now - a.time
    OBVIOUS
  <2> HIDE DEF day, d
  <2> QED
    BY <1>1, <1>2, <1>4, <2>1 DEF Never
<1>6. d >= 0 => (Truncated(d) = h <=> low <= d /\ d < high)
  BY <1>1, Within DEF Truncated
<1>7. d < 0 => (Truncated(d) = h <=> h = 0 /\ -d < Hour)
  <2> SUFFICES ASSUME d < 0
               PROVE  Truncated(d) = h <=> h = 0 /\ -d < Hour
    OBVIOUS
  <2> DEFINE e == -d
             q == e \div Hour
  <2>1. e \in Nat /\ Truncated(d) = -q
    BY <1>1 DEF Truncated
  <2> HIDE DEF d, e
  <2>2. q \in Nat /\ (q = 0 <=> e < Hour)
    BY <1>1, <2>1, Within
  <2> HIDE DEF q
  <2>3. -q = h <=> h = 0 /\ q = 0
    BY <1>1, <2>2
  <2> QED
    BY <2>1, <2>2, <2>3 DEF e
<1>8. h = 0 => low = 0 /\ high = Hour
  BY <1>1
<1> HIDE DEF d, day, low, high
<1>9. IsRecent(a) /\ hoursAgo(a) = h <=> d < high /\ (d >= low \/ h = 0) /\ ~(d <= -Hour)
  BY <1>1, <1>2, <1>3, <1>5, <1>6, <1>7, <1>8
<1> QED
  BY <1>1, <1>9 DEF low, high

\* An alert is counted for the day if some bar holds it, or it is one of the two kinds without.
LEMMA OneDay ==
  ASSUME NEW a, a.time \in Int
  PROVE  IsRecent(a) <=>
           \/ \E h \in 0 .. Hours - 1 : Age(a) < (h + 1) * Hour /\ (Age(a) >= h * Hour \/ h = 0)
           \/ Age(a) <= -Hour
           \/ Age(a) = Hours * Hour
<1> DEFINE d == Now - a.time
           day == Hours * Hour
<1>1. /\ Age(a) = d /\ d \in Int /\ a.time \in Int
      /\ Hour \in Nat \ {0} /\ Hours \in Nat \ {0} /\ Now \in Int /\ Never < Now - day
      /\ day \in Int /\ 0 <= day
  BY EventStatsAssumption DEF Age
<1>2. IsRecent(a) <=> d <= day
  <2>1. d = Now - a.time /\ (IsRecent(a) <=> a.time # Never /\ a.time >= Now - day)
    BY DEF IsRecent
  <2> HIDE DEF day, d
  <2> QED
    BY <1>1, <2>1 DEF Never
<1>3. ASSUME d < day
      PROVE  \E h \in 0 .. Hours - 1 : d < (h + 1) * Hour /\ (d >= h * Hour \/ h = 0)
  <2>1. CASE d < 0
    <3>1. 0 \in 0 .. Hours - 1 /\ d < (0 + 1) * Hour
      BY <1>1, <2>1
    <3> QED
      BY <3>1
  <2>2. CASE d >= 0
    <3> DEFINE q == d \div Hour
    <3>1. q \in Nat /\ q * Hour <= d /\ d < (q + 1) * Hour
      BY <1>1, <2>2, Within
    <3> HIDE DEF q
    <3>2. q < Hours
      <4> SUFFICES ASSUME Hours <= q
                   PROVE  FALSE
        BY <1>1, <3>1
      <4>1. Hours * Hour <= q * Hour
        BY <1>1, <3>1
      <4> QED
        BY <1>1, <1>3, <3>1, <4>1
    <3>3. q \in 0 .. Hours - 1
      BY <1>1, <3>1, <3>2
    <3> QED
      BY <3>1, <3>3
  <2> QED
    BY <1>1, <2>1, <2>2
<1>4. ASSUME NEW h \in 0 .. Hours - 1, d < (h + 1) * Hour
      PROVE  d <= day
  BY <1>1, <1>4, HoursFit
<1>5. d <= -Hour => d <= day
  BY <1>1
<1> HIDE DEF d, day
<1>6. d <= day <=> d < day \/ d = day
  BY <1>1
<1>7. IsRecent(a) <=>
        \/ \E h \in 0 .. Hours - 1 : d < (h + 1) * Hour /\ (d >= h * Hour \/ h = 0)
        \/ d <= -Hour
        \/ d = day
  BY <1>2, <1>3, <1>4, <1>5, <1>6, Zenon
<1> QED
  BY <1>1, <1>7, Zenon DEF day

\* What an answer is made of.
LEMMA AnswerIs ==
  ASSUME query \in Queries, query.about = "alerts"
  PROVE  /\ IsHistory(query.alerts) /\ query.limit \in Int
         /\ queryAlerts(query).Hourly =
              Hourly(Kept(SortedByTime(query.alerts),
                          {a \in ToSet(query.alerts) : IsRecent(a)}))
         /\ queryAlerts(query).Last24Hours =
              Len(Kept(SortedByTime(query.alerts),
                       {a \in ToSet(query.alerts) : IsRecent(a)}))
         /\ queryAlerts(query).LastEvent =
              IF SortedByTime(query.alerts) = <<>>
              THEN Never ELSE SortedByTime(query.alerts)[1].time
         /\ queryAlerts(query).Events =
              LET filtered == Kept(SortedByTime(query.alerts),
                                   {a \in ToSet(query.alerts) : Matches(a, query)})
              IN IF Len(filtered) > Limit(query.limit)
                 THEN Newest(filtered, Limit(query.limit)) ELSE filtered
<1>1. query.alerts \in Histories /\ query.limit \in Limits
  BY DEF Queries
<1>2. IsHistory(query.alerts) /\ query.limit \in Int
  BY <1>1, EventStatsAssumption
<1> DEFINE t == SortedByTime(query.alerts)
<1>3. ToSet(t) = ToSet(query.alerts)
  BY <1>2, SortedSame
<1>4. /\ queryAlerts(query).Hourly = Hourly(Kept(t, {a \in ToSet(t) : IsRecent(a)}))
      /\ queryAlerts(query).Last24Hours = Len(Kept(t, {a \in ToSet(t) : IsRecent(a)}))
      /\ queryAlerts(query).LastEvent = IF t = <<>> THEN Never ELSE t[1].time
      /\ queryAlerts(query).Events =
           LET filtered == Kept(t, {a \in ToSet(t) : Matches(a, query)})
           IN IF Len(filtered) > Limit(query.limit)
              THEN Newest(filtered, Limit(query.limit)) ELSE filtered
  BY Zenon DEF queryAlerts
<1> QED
  BY <1>2, <1>3, <1>4, Zenon

(***************************************************************************)
(* For histories of any length, hours of any number of instants and days   *)
(* of any number of hours: the bars and the count of the day, which the    *)
(* code takes from two different tests, are what BarsAreTheDay says.       *)
(***************************************************************************)
THEOREM BarsCount == query \in Queries => BarsAreTheDay
<1> SUFFICES ASSUME query \in Queries, query.about = "alerts"
             PROVE  BarsAreTheDay
  BY DEF BarsAreTheDay
<1> DEFINE s == query.alerts
           n == Len(s)
           R == {a \in ToSet(s) : IsRecent(a)}
           K == Kept(SortedByTime(s), R)
           m == Len(K)
           P == {i \in 1 .. n : s[i] \in R}
           InBar(h) == {i \in DOMAIN s : /\ Age(s[i]) < (h + 1) * Hour
                                         /\ Age(s[i]) >= h * Hour \/ h = 0}
           Ahead == {i \in DOMAIN s : Age(s[i]) <= -Hour}
           ADay == {i \in DOMAIN s : Age(s[i]) = Hours * Hour}
           All == UNION {InBar(h) : h \in 0 .. Hours - 1}
<1>1. IsHistory(s) /\ queryAlerts(query).Hourly = Hourly(K) /\ queryAlerts(query).Last24Hours = m
  BY AnswerIs, Zenon
<1>2. /\ n \in Nat /\ DOMAIN s = 1 .. n
      /\ \A i \in 1 .. n : s[i] \in ToSet(s) /\ s[i].time \in Int
  BY <1>1, HistoryFacts
<1>3. PICK at : IsOneToOne(at, 1 .. m, P) /\ \A k \in 1 .. m : K[k] = s[at[k]]
  <2>1. \E at : Selects(K, s, R, at)
    BY <1>1, Selected
  <2> HIDE DEF K, R, s
  <2> QED
    BY <2>1 DEF Selects
<1>4. m = Cardinality(P)
  BY <1>1, HowMany
<1>5. m \in Nat /\ DOMAIN K = 1 .. m
  BY <1>1, Selected, LenProperties
<1>6. IsFiniteSet(1 .. m)
  BY <1>5, FS_Interval
<1>7. \A i \in 1 .. n : i \in P <=> IsRecent(s[i])
  BY <1>2
<1> HIDE DEF s, n, K, m
<1>8. ASSUME NEW bar \in 1 .. Hours
      PROVE  Hourly(K)[bar] = Cardinality(InBar(Hours - bar) \ Ahead)
  <2> DEFINE h == Hours - bar
             A == {i \in P : hoursAgo(s[i]) = h}
  <2>1. Hourly(K)[bar] = Cardinality({k \in DOMAIN K : hoursAgo(K[k]) = h})
    BY DEF Hourly
  <2>2. h \in 0 .. Hours - 1
    BY EventStatsAssumption
  <2> HIDE DEF h
  <2>3. {k \in DOMAIN K : hoursAgo(K[k]) = h} = Into(A, at, 1 .. m)
    <3> HIDE DEF P
    <3>1. \A k \in 1 .. m : at[k] \in P /\ K[k] = s[at[k]]
      BY <1>3 DEF IsOneToOne
    <3> QED
      BY <1>5, <3>1 DEF Into
  <2>4. Cardinality(Into(A, at, 1 .. m)) = Cardinality(A)
    <3>1. A \in SUBSET P
      OBVIOUS
    <3> HIDE DEF A, P
    <3> QED
      BY <1>3, <1>6, <3>1, SameCount
  <2>5. A = InBar(h) \ Ahead
    <3>1. ASSUME NEW i \in 1 .. n
          PROVE  i \in A <=> i \in InBar(h) \ Ahead
      <4>1. IsRecent(s[i]) /\ hoursAgo(s[i]) = h <=>
              Age(s[i]) < (h + 1) * Hour /\ (Age(s[i]) >= h * Hour \/ h = 0) /\ ~(Age(s[i]) <= -Hour)
        BY <1>2, <2>2, OneBar
      <4>2. i \in A <=> IsRecent(s[i]) /\ hoursAgo(s[i]) = h
        BY <1>7
      <4>3. i \in DOMAIN s
        BY <1>2
      <4> QED
        BY <4>1, <4>2, <4>3, Zenon
    <3>2. A \subseteq 1 .. n /\ InBar(h) \ Ahead \subseteq 1 .. n
      BY <1>2
    <3> HIDE DEF A, Ahead, InBar
    <3> QED
      BY <3>1, <3>2
  <2> HIDE DEF A, Ahead, InBar, P
  <2> QED
    BY <2>1, <2>3, <2>4, <2>5 DEF h
<1>9. P = All \cup Ahead \cup ADay
  <2>1. ASSUME NEW i \in 1 .. n
        PROVE  i \in P <=> i \in All \cup Ahead \cup ADay
    <3>1. IsRecent(s[i]) <=>
            \/ \E h \in 0 .. Hours - 1 :
                 Age(s[i]) < (h + 1) * Hour /\ (Age(s[i]) >= h * Hour \/ h = 0)
            \/ Age(s[i]) <= -Hour
            \/ Age(s[i]) = Hours * Hour
      BY <1>2, OneDay
    <3>2. i \in DOMAIN s
      BY <1>2
    <3>3. i \in All <=> \E h \in 0 .. Hours - 1 :
                         Age(s[i]) < (h + 1) * Hour /\ (Age(s[i]) >= h * Hour \/ h = 0)
      <4>1. i \in All <=> \E h \in 0 .. Hours - 1 : i \in InBar(h)
        <5> HIDE DEF InBar
        <5> QED
          OBVIOUS
      <4>2. \A h : i \in InBar(h) <=> Age(s[i]) < (h + 1) * Hour /\ (Age(s[i]) >= h * Hour \/ h = 0)
        BY <3>2, Zenon
      <4> HIDE DEF All, InBar
      <4> QED
        BY <4>1, <4>2, Zenon
    <3>4. (i \in Ahead <=> Age(s[i]) <= -Hour) /\ (i \in ADay <=> Age(s[i]) = Hours * Hour)
      BY <3>2, Zenon
    <3> HIDE DEF P, All, Ahead, ADay
    <3> QED
      BY <1>7, <3>1, <3>3, <3>4, Zenon
  <2>2. P \subseteq 1 .. n /\ All \subseteq 1 .. n /\ Ahead \subseteq 1 .. n /\ ADay \subseteq 1 .. n
    BY <1>2
  <2> HIDE DEF P, All, Ahead, ADay
  <2> QED
    BY <2>1, <2>2
<1> HIDE DEF P
<1>10. /\ \A bar \in 1 .. Hours :
            queryAlerts(query).Hourly[bar] = Cardinality(InBar(Hours - bar) \ Ahead)
       /\ queryAlerts(query).Last24Hours = Cardinality(All \cup Ahead \cup ADay)
  BY <1>1, <1>4, <1>8, <1>9, Zenon
<1> QED
  BY <1>10, Zenon DEF BarsAreTheDay, s

(***************************************************************************)
(* For histories of any length, any filter and any limit, the page holds   *)
(* as much as it may of what matches, and what it leaves out is not newer. *)
(***************************************************************************)
THEOREM NewestAreShown == query \in Queries => NothingNewerIsLeftOut
<1> SUFFICES ASSUME query \in Queries, query.about = "alerts"
             PROVE  NothingNewerIsLeftOut
  BY DEF NothingNewerIsLeftOut
<1> DEFINE s == query.alerts
           n == Len(s)
           R == {a \in ToSet(s) : Matches(a, query)}
           K == Kept(SortedByTime(s), R)
           m == Len(K)
           most == Limit(query.limit)
           events == IF m > most THEN Newest(K, most) ELSE K
           wanted == {i \in DOMAIN s : Matches(s[i], query)}
           P == {i \in 1 .. n : s[i] \in R}
           shown == ToSet(events)
           last == queryAlerts(query).LastEvent
           size == IF m < most THEN m ELSE most
<1>1. /\ IsHistory(s) /\ query.limit \in Int /\ queryAlerts(query).Events = events
      /\ last = IF SortedByTime(s) = <<>> THEN Never ELSE SortedByTime(s)[1].time
  BY AnswerIs, Zenon
<1>2. /\ n \in Nat /\ DOMAIN s = 1 .. n
      /\ \A i \in 1 .. n : s[i] \in ToSet(s) /\ s[i].time \in Int
  BY <1>1, HistoryFacts
<1>3. PICK at : /\ IsOneToOne(at, 1 .. m, P) /\ \A k \in 1 .. m : K[k] = s[at[k]]
                /\ \A k, l \in 1 .. m : k <= l => s[at[k]].time >= s[at[l]].time
  <2>1. \E at : Selects(K, s, R, at)
    BY <1>1, Selected
  <2> HIDE DEF K, R, s
  <2> QED
    BY <2>1 DEF Selects
<1>4. m = Cardinality(P)
  BY <1>1, HowMany
<1>5. K \in Seq(ToSet(s)) /\ m \in Nat /\ DOMAIN K = 1 .. m
  <2>1. K \in Seq(ToSet(s))
    BY <1>1, Selected
  <2> QED
    BY <2>1, LenProperties
<1>6. most \in Nat \ {0}
  BY <1>1, EventStatsAssumption DEF Limit
<1>7. wanted = P
  <2>1. \A i \in 1 .. n : i \in P <=> Matches(s[i], query)
    BY <1>2
  <2> QED
    BY <1>2, <2>1
<1> HIDE DEF s, n, K, m, most, R
<1>8. Len(events) = size /\ DOMAIN events = 1 .. size /\ \A k \in 1 .. size : events[k] = K[k]
  <2>1. CASE m > most
    <3>1. events = SubSeq(K, 1, most)
      BY <2>1 DEF Newest
    <3>2. /\ SubSeq(K, 1, most) \in Seq(ToSet(s)) /\ Len(SubSeq(K, 1, most)) = most
          /\ \A k \in 1 .. most : SubSeq(K, 1, most)[k] = K[k]
      BY <1>5, <1>6, <2>1, SubSeqProperties DEF m
    <3>3. DOMAIN SubSeq(K, 1, most) = 1 .. most
      BY <3>2, LenProperties
    <3>4. size = most
      BY <1>5, <1>6, <2>1
    <3> HIDE DEF events, size
    <3> QED
      BY <3>1, <3>2, <3>3, <3>4
  <2>2. CASE ~(m > most)
    <3>1. events = K /\ size = m
      BY <1>5, <1>6, <2>2
    <3> HIDE DEF events, size
    <3> QED
      BY <1>5, <3>1 DEF m
  <2> QED
    BY <2>1, <2>2
<1>9. size \in Nat /\ size <= m /\ size <= most /\ (size = m \/ size = most)
  BY <1>5, <1>6
<1>10. \A k \in 1 .. m : at[k] \in P /\ at[k] \in 1 .. n
  BY <1>3 DEF IsOneToOne
<1> HIDE DEF events, P, size
<1>11. shown = {s[at[k]] : k \in 1 .. size}
  <2>1. \A k \in 1 .. size : events[k] = s[at[k]]
    BY <1>3, <1>5, <1>8, <1>9
  <2> QED
    BY <1>8, <2>1 DEF ToSet
<1>12. shown \subseteq {s[i] : i \in wanted}
  BY <1>5, <1>7, <1>9, <1>10, <1>11
<1> HIDE DEF shown, wanted, last
<1>13. ASSUME NEW i \in wanted, NEW b \in shown, s[i] \notin shown
       PROVE  s[i].time <= b.time
  <2>1. PICK l \in 1 .. size : b = s[at[l]]
    BY <1>11
  <2>2. PICK k \in 1 .. m : at[k] = i
    BY <1>3, <1>7 DEF IsOneToOne
  <2>3. k \notin 1 .. size
    BY <1>11, <1>13, <2>2
  <2>4. l \in 1 .. m /\ l <= k
    BY <1>5, <1>9, <2>3
  <2>5. s[at[l]].time >= s[at[k]].time /\ s[at[l]].time \in Int /\ s[at[k]].time \in Int
    BY <1>2, <1>3, <1>10, <2>4
  <2> QED
    BY <2>1, <2>2, <2>5
<1>14. ASSUME NEW a \in shown
       PROVE  a.time <= last
  <2>1. PICK k \in 1 .. size : a = s[at[k]]
    BY <1>11
  <2>2. k \in 1 .. m /\ at[k] \in 1 .. n
    BY <1>5, <1>9, <1>10
  <2>3. PICK f : /\ IsOneToOne(f, 1 .. n, 1 .. n)
                 /\ \A j \in 1 .. n : SortedByTime(s)[j] = s[f[j]]
                 /\ \A j, l \in 1 .. n : j <= l => s[f[j]].time >= s[f[l]].time
    BY <1>1, Sorted DEF n
  <2>4. PICK j \in 1 .. n : f[j] = at[k]
    BY <2>2, <2>3 DEF IsOneToOne
  <2>5. 1 \in 1 .. n /\ 1 <= j
    BY <1>2, <2>4
  <2>6. f[1] \in 1 .. n
    BY <2>3, <2>5 DEF IsOneToOne
  <2>7. s[f[1]].time >= s[at[k]].time /\ s[f[1]].time \in Int /\ s[at[k]].time \in Int
    BY <1>2, <2>2, <2>3, <2>4, <2>5, <2>6
  <2>8. SortedByTime(s) # <<>>
    <3>1. SortedByTime(s) \in Seq(ToSet(s)) /\ Len(SortedByTime(s)) = n
      BY <1>1, Sorted DEF n
    <3> QED
      BY <1>2, <2>5, <3>1
  <2>9. last = s[f[1]].time
    BY <1>1, <2>3, <2>5, <2>8
  <2> QED
    BY <2>1, <2>7, <2>9
<1>15. Len(events) = IF Cardinality(wanted) < most THEN Cardinality(wanted) ELSE most
  BY <1>4, <1>7, <1>8 DEF size
<1>16. /\ Len(events) = IF Cardinality(wanted) < most THEN Cardinality(wanted) ELSE most
       /\ shown \subseteq {s[i] : i \in wanted}
       /\ \A i \in wanted : \A b \in shown : s[i] \in shown \/ s[i].time <= b.time
       /\ \A a \in shown : a.time <= last
  BY <1>12, <1>13, <1>14, <1>15, Zenon
<1>17. shown = ToSet(queryAlerts(query).Events) /\ events = queryAlerts(query).Events
  BY <1>1 DEF shown
<1> QED
  BY <1>16, <1>17, Zenon DEF NothingNewerIsLeftOut, wanted, s, most, last

=============================================================================
