------------------------ MODULE BackupRestoreProofs ------------------------
(***************************************************************************)
(* Proofs about BackupRestore, for any sets of keys, values and workers,   *)
(* and any number of backups.                                              *)
(***************************************************************************)
EXTENDS BackupRestore, TLAPS

(* No file has a name that has not been given out. *)
FilesNamed == \A i \in Id : file[i].state # "none" => i <= clock

Typed == TypeOK /\ FilesNamed

(* What RestoreRegular says of one restore. *)
Regular(t) ==
  job[t].at = "putting" =>
    \A k \in Key :
      \/ cache[k] \in written[k]
      \/ cache[k] = IF k \in job[t].todo THEN Absent ELSE job[t].data[k]

Alone == \A t, u \in Thread :
           job[t].at \in {"read", "putting"} /\ job[u].at \in {"read", "putting"} => t = u

(* Restores that have not overlapped are one at a time, and regular. *)
RestoreOK == ~ crossed => Alone /\ \A t \in Thread : Regular(t)

(* What a restore has put so far, if nothing else touches the cache. *)
HasPut(t) == [k \in Key |-> IF k \in job[t].todo THEN Absent ELSE job[t].data[k]]

WorkersIdle == \A t \in Worker : job[t].at = "idle"

(* During a calm stop main alone is at work, and its copy stays true. *)
CalmOK ==
  calm =>
    /\ phase \in {"stopping", "stopped"} /\ WorkersIdle
    /\ phase = "stopping" => job[main].id = clock
    /\ job[main].at \in {"taken", "opened"} => job[main].data = cache
    /\ phase = "stopped" => clock \in Id /\ file[clock] = [state |-> "whole", data |-> cache]

(* From a calm stop on, the latest file has what it left; so does the copy  *)
(* that a start restores.                                                   *)
LatestHas(data) == \E i \in Id : Latest(i) /\ file[i] = [state |-> "whole", data |-> data]

StartOK ==
  /\ phase = "starting" =>
       /\ WorkersIdle /\ LatestHas(job[main].data)
       /\ cache = IF job[main].at = "putting" THEN HasPut(main) ELSE Nothing
  /\ phase \in {"down", "starting"} /\ expected # Absent =>
       /\ LatestHas(expected)
       /\ phase = "starting" => job[main].data = expected

StopInv == Typed /\ CalmOK /\ StartOK

-----------------------------------------------------------------------------
(* Jobs *)

JobPlaces == {"idle", "named", "taken", "opened", "read", "putting"}

LEMMA JobFields ==
  ASSUME NEW at \in JobPlaces, NEW id \in 0 .. MaxBackups, NEW data \in Contents,
         NEW todo \in SUBSET Key
  PROVE  LET j == Job(at, id, data, todo)
         IN  j \in Jobs /\ j.at = at /\ j.id = id /\ j.data = data /\ j.todo = todo
BY DEF Job, Jobs, JobPlaces

LEMMA Basics ==
  /\ Nothing \in Contents
  /\ Idle \in Jobs /\ Idle.at = "idle"
  /\ \A data \in Contents : Held(data) \in SUBSET Key
  /\ main \in Thread /\ Worker = Thread \ {main}
  /\ \A i \in Id : i \in Nat /\ i \in 1 .. MaxBackups
<1>1. Nothing \in Contents /\ 0 \in 0 .. MaxBackups /\ {} \in SUBSET Key
  BY BackupAssumption DEF Nothing, Contents
<1>2. Idle \in Jobs /\ Idle.at = "idle"
  BY <1>1, JobFields DEF Idle, JobPlaces
<1> QED
  BY <1>1, <1>2, BackupAssumption DEF Held, Thread, Id

LEMMA NewJob ==
  ASSUME TypeOK, NEW t \in Thread, NEW j \in Jobs, Becomes(t, j)
  PROVE  /\ job' \in [Thread -> Jobs] /\ job'[t] = j
         /\ \A u \in Thread : job'[u] = IF u = t THEN j ELSE job[u]
BY DEF TypeOK, Becomes

(* The places of the jobs, as the sets of threads say them. *)
LEMMA Places ==
  /\ \A t \in Thread : (t \in BackingUp) <=> (job[t].at \in {"named", "taken", "opened"})
  /\ \A t \in Thread : (t \in Restoring) <=> (job[t].at \in {"read", "putting"})
  /\ BackingUp \in SUBSET Thread /\ Restoring \in SUBSET Thread
BY DEF BackingUp, Restoring

(***************************************************************************)
(* What of Typed depends on the jobs, said of one job at a time.           *)
(***************************************************************************)
JobTyped(t) ==
  /\ job[t].at # "idle" => job[t].id \in 1 .. clock
  /\ phase = "down" => job[t] = Idle

MainTyped ==
  /\ phase = "starting" <=> job[main].at \in {"read", "putting"}
  /\ phase = "stopping" <=> job[main].at \in {"named", "taken", "opened"}

DataTyped ==
  /\ cache \in Contents
  /\ file \in [Id -> [state : {"none", "partial", "whole"}, data : Contents]]
  /\ clock \in 0 .. MaxBackups
  /\ phase \in {"down", "starting", "serving", "stopping", "stopped"}
  /\ job \in [Thread -> Jobs]
  /\ phase = "down" => cache = Nothing
  /\ written \in [Key -> SUBSET (Value \cup {Absent})]
  /\ crossed \in BOOLEAN /\ calm \in BOOLEAN
  /\ expected \in Contents \cup {Absent}

LEMMA TypedParts ==
  /\ TypeOK <=> DataTyped /\ MainTyped /\ \A t \in Thread : JobTyped(t)
  /\ TypeOK' <=> DataTyped' /\ MainTyped' /\ \A t \in Thread : JobTyped(t)'
<1>1. TypeOK <=> DataTyped /\ MainTyped /\ \A t \in Thread : JobTyped(t)
  BY Basics DEF TypeOK, DataTyped, MainTyped, JobTyped, BackingUp, Restoring
<1>2. TypeOK' <=> DataTyped' /\ MainTyped' /\ \A t \in Thread : JobTyped(t)'
  BY Basics DEF TypeOK, DataTyped, MainTyped, JobTyped, BackingUp, Restoring
<1> QED
  BY <1>1, <1>2

-----------------------------------------------------------------------------
(* Types *)

LEMMA TypedInit == Init => Typed
<1> SUFFICES ASSUME Init PROVE Typed
  OBVIOUS
<1>1. 0 \in 0 .. MaxBackups /\ NoFile \in [state : {"none", "partial", "whole"}, data : Contents]
  BY BackupAssumption, Basics DEF NoFile
<1>2. TypeOK
  BY <1>1, Basics, TypedParts DEF Init, DataTyped, MainTyped, JobTyped
<1>3. FilesNamed
  BY DEF Init, FilesNamed, NoFile
<1> QED
  BY <1>2, <1>3 DEF Typed

(* A worker, or main during its backup, goes on with what it was at. *)
LEMMA JobGoesOn ==
  ASSUME Typed, NEW t \in Thread, NEW j \in Jobs, Becomes(t, j),
         j.at # "idle", job[t].at # "idle", j.id = job[t].id,
         t \in Restoring <=> j.at \in {"read", "putting"},
         t \in BackingUp <=> j.at \in {"named", "taken", "opened"},
         cache' \in Contents,
         file' \in [Id -> [state : {"none", "partial", "whole"}, data : Contents]],
         FilesNamed', UNCHANGED <<clock, phase, written, crossed, calm, expected>>
  PROVE  Typed'
<1>1. /\ job' \in [Thread -> Jobs] /\ job'[t] = j
      /\ \A u \in Thread : job'[u] = IF u = t THEN j ELSE job[u]
  BY NewJob DEF Typed
<1>2. DataTyped /\ MainTyped /\ \A u \in Thread : JobTyped(u)
  BY TypedParts DEF Typed
<1>3. phase # "down"
  BY <1>2, Basics DEF JobTyped
<1>4. DataTyped'
  BY <1>1, <1>2, <1>3 DEF DataTyped
<1>5. MainTyped'
  BY <1>1, <1>2, Basics, Places DEF MainTyped
<1>6. ASSUME NEW u \in Thread PROVE JobTyped(u)'
  BY <1>1, <1>2, <1>3 DEF JobTyped
<1> QED
  BY <1>4, <1>5, <1>6, TypedParts DEF Typed

(* A job is over; if it is main's, its phase is as well. *)
LEMMA JobIsOver ==
  ASSUME Typed, NEW t \in Thread, Becomes(t, Idle), job[t].at # "idle",
         phase' = IF t # main THEN phase
                  ELSE IF t \in Restoring THEN "serving" ELSE "stopped",
         file' \in [Id -> [state : {"none", "partial", "whole"}, data : Contents]],
         FilesNamed', calm' \in BOOLEAN,
         UNCHANGED <<cache, clock, written, crossed, expected>>
  PROVE  Typed'
<1>1. /\ job' \in [Thread -> Jobs] /\ job'[t] = Idle
      /\ \A u \in Thread : job'[u] = IF u = t THEN Idle ELSE job[u]
  BY NewJob, Basics DEF Typed
<1>2. DataTyped /\ MainTyped /\ \A u \in Thread : JobTyped(u)
  BY TypedParts DEF Typed
<1>3. phase # "down" /\ phase' # "down"
  BY <1>2, Basics DEF JobTyped
<1>4. DataTyped'
  BY <1>1, <1>2, <1>3 DEF DataTyped
<1>5. MainTyped'
  BY <1>1, <1>2, Basics, Places DEF MainTyped
<1>6. ASSUME NEW u \in Thread PROVE JobTyped(u)'
  BY <1>1, <1>2, <1>3, Basics DEF JobTyped
<1> QED
  BY <1>4, <1>5, <1>6, TypedParts DEF Typed

(* A job begins. *)
LEMMA NamesOK ==
  ASSUME Typed, NEW t \in Thread, Names(t), phase # "down",
         IF t = main THEN phase = "serving" /\ phase' = "stopping" ELSE phase' = phase,
         calm' \in BOOLEAN, UNCHANGED <<cache, file, written, crossed, expected>>
  PROVE  Typed' /\ job'[t] = Job("named", clock', Nothing, {}) /\ clock' = clock + 1
         /\ \A u \in Thread \ {t} : job'[u] = job[u]
<1> DEFINE j == Job("named", clock + 1, Nothing, {})
<1>0. clock \in Nat /\ clock + 1 \in 0 .. MaxBackups
  BY BackupAssumption DEF Names, Typed, TypeOK
<1>1. j \in Jobs /\ j.at = "named" /\ j.id = clock + 1
  BY <1>0, JobFields, Basics DEF JobPlaces
<1>2. Becomes(t, j) /\ clock' = clock + 1
  BY DEF Names
<1> HIDE DEF j
<1>3. /\ job' \in [Thread -> Jobs] /\ job'[t] = j
      /\ \A u \in Thread : job'[u] = IF u = t THEN j ELSE job[u]
  BY <1>1, <1>2, NewJob DEF Typed
<1>4. DataTyped /\ MainTyped /\ \A u \in Thread : JobTyped(u)
  BY TypedParts DEF Typed
<1>5. DataTyped'
  BY <1>0, <1>2, <1>3, <1>4 DEF DataTyped
<1>6. MainTyped'
  BY <1>1, <1>3, <1>4, Basics DEF MainTyped
<1>7. ASSUME NEW u \in Thread PROVE JobTyped(u)'
  BY <1>0, <1>1, <1>2, <1>3, <1>4 DEF JobTyped, Jobs
<1>8. FilesNamed'
  BY <1>0, <1>2, Basics DEF Typed, FilesNamed
<1> QED
  BY <1>2, <1>3, <1>5, <1>6, <1>7, <1>8, TypedParts DEF Typed, j

LEMMA ReadsOK ==
  ASSUME Typed, NEW t \in Thread, NEW i \in Id, Reads(t, i),
         IF t = main THEN phase = "down" /\ phase' = "starting"
         ELSE phase # "down" /\ phase' = phase,
         calm' \in BOOLEAN, UNCHANGED <<cache, file, clock, expected>>
  PROVE  Typed' /\ job'[t] = Job("read", i, file[i].data, {})
         /\ \A u \in Thread \ {t} : job'[u] = job[u]
<1> DEFINE j == Job("read", i, file[i].data, {})
<1>0. clock \in Nat /\ i \in 1 .. clock /\ i \in 0 .. MaxBackups /\ file[i].data \in Contents
  BY BackupAssumption, Basics DEF Reads, Typed, TypeOK, FilesNamed
<1>1. j \in Jobs /\ j.at = "read" /\ j.id = i
  BY <1>0, JobFields DEF JobPlaces
<1>2. Becomes(t, j)
  BY DEF Reads
<1> HIDE DEF j
<1>3. /\ job' \in [Thread -> Jobs] /\ job'[t] = j
      /\ \A u \in Thread : job'[u] = IF u = t THEN j ELSE job[u]
  BY <1>1, <1>2, NewJob DEF Typed
<1>4. DataTyped /\ MainTyped /\ \A u \in Thread : JobTyped(u)
  BY TypedParts DEF Typed
<1>5. DataTyped'
  BY <1>3, <1>4 DEF DataTyped, Reads
<1>6. MainTyped'
  BY <1>1, <1>3, <1>4, Basics DEF MainTyped, Reads
<1>7. ASSUME NEW u \in Thread PROVE JobTyped(u)'
  BY <1>0, <1>1, <1>3, <1>4 DEF JobTyped
<1>8. FilesNamed'
  BY DEF Typed, FilesNamed
<1> QED
  BY <1>3, <1>5, <1>6, <1>7, <1>8, TypedParts DEF Typed, j

LEMMA GoneOK ==
  ASSUME Typed, Gone, expected' \in Contents \cup {Absent}
  PROVE  Typed' /\ \A t \in Thread : job'[t] = Idle
<1>1. \A t \in Thread : job'[t] = Idle
  BY DEF Gone
<1>2. DataTyped
  BY TypedParts DEF Typed
<1>3. DataTyped'
  BY <1>2, Basics DEF DataTyped, Gone
<1>4. MainTyped'
  BY <1>1, Basics DEF MainTyped, Gone
<1>5. ASSUME NEW u \in Thread PROVE JobTyped(u)'
  BY <1>1, Basics DEF JobTyped
<1>6. FilesNamed'
  BY DEF Typed, FilesNamed, Gone
<1> QED
  BY <1>1, <1>3, <1>4, <1>5, <1>6, TypedParts DEF Typed

LEMMA NowAt ==
  ASSUME Typed, NEW t \in Thread
  PROVE  /\ job[t].at \in JobPlaces /\ job[t].id \in 0 .. MaxBackups
         /\ job[t].data \in Contents /\ job[t].todo \in SUBSET Key
         /\ job[t].at # "idle" => phase # "down" /\ job[t].id \in Id /\ job[t].id <= clock
<1>1. job[t] \in Jobs /\ clock \in 0 .. MaxBackups /\ JobTyped(t)
  BY TypedParts DEF Typed, DataTyped
<1> QED
  BY <1>1, Basics, BackupAssumption DEF Jobs, JobPlaces, JobTyped, Id

LEMMA TypedStep ==
  ASSUME Typed, NEW t \in Thread, Works(t)
  PROVE  Typed'
<1>0. /\ job[t] \in Jobs /\ job[t].id \in 0 .. MaxBackups /\ job[t].data \in Contents
      /\ job[t].todo \in SUBSET Key /\ cache \in Contents /\ calm \in BOOLEAN
      /\ file \in [Id -> [state : {"none", "partial", "whole"}, data : Contents]]
      /\ FilesNamed
  BY NowAt, TypedParts DEF Typed, DataTyped
<1>1. CASE BackupTaken(t)
  <2> DEFINE j == Job("taken", job[t].id, cache, {})
  <2>1. j \in Jobs /\ j.at = "taken" /\ j.id = job[t].id
    BY <1>0, JobFields DEF JobPlaces
  <2> QED
    BY <1>0, <1>1, <2>1, JobGoesOn, Places DEF BackupTaken, FilesNamed
<1>2. CASE BackupOpened(t)
  <2> DEFINE j == Job("opened", job[t].id, job[t].data, {})
             f == [state |-> "partial", data |-> Nothing]
  <2>1. j \in Jobs /\ j.at = "opened" /\ j.id = job[t].id
    BY <1>0, JobFields DEF JobPlaces
  <2>2. f \in [state : {"none", "partial", "whole"}, data : Contents]
    BY Basics
  <2>3. job[t].id \in Id /\ job[t].id <= clock
    BY <1>2, NowAt DEF BackupOpened
  <2>4. FilesNamed'
    BY <1>0, <1>2, <2>3 DEF FilesNamed, BackupOpened
  <2> QED
    BY <1>0, <1>2, <2>1, <2>2, <2>4, JobGoesOn, Places DEF BackupOpened
<1>3. CASE BackupWritten(t)
  <2> DEFINE f == [state |-> "whole", data |-> job[t].data]
  <2>1. f \in [state : {"none", "partial", "whole"}, data : Contents]
    BY <1>0
  <2>2. job[t].id \in Id /\ job[t].id <= clock
    BY <1>3, NowAt DEF BackupWritten
  <2>3. FilesNamed'
    BY <1>0, <1>3, <2>2 DEF FilesNamed, BackupWritten
  <2> QED
    BY <1>0, <1>3, <2>1, <2>3, JobIsOver, Places DEF BackupWritten, Ends
<1>4. CASE BackupFails(t)
  BY <1>0, <1>4, JobIsOver, Places DEF BackupFails, Ends, FilesNamed
<1>5. CASE RestoreClears(t)
  <2> DEFINE j == Job("putting", job[t].id, job[t].data, Held(job[t].data))
  <2>1. j \in Jobs /\ j.at = "putting" /\ j.id = job[t].id
    BY <1>0, JobFields, Basics DEF JobPlaces
  <2> QED
    BY <1>0, <1>5, <2>1, JobGoesOn, Places, Basics DEF RestoreClears, FilesNamed
<1>6. CASE RestorePuts(t)
  <2>1. PICK k \in job[t].todo :
          /\ cache' = [cache EXCEPT ![k] = job[t].data[k]]
          /\ Becomes(t, Job("putting", job[t].id, job[t].data, job[t].todo \ {k}))
    BY <1>6 DEF RestorePuts
  <2> DEFINE j == Job("putting", job[t].id, job[t].data, job[t].todo \ {k})
  <2>2. j \in Jobs /\ j.at = "putting" /\ j.id = job[t].id
    BY <1>0, JobFields DEF JobPlaces
  <2>3. cache' \in Contents
    BY <1>0, <2>1 DEF Contents
  <2> QED
    BY <1>0, <1>6, <2>1, <2>2, <2>3, JobGoesOn, Places DEF RestorePuts, FilesNamed
<1>7. CASE RestoreEnds(t)
  BY <1>0, <1>7, JobIsOver, Places, TypedParts DEF RestoreEnds, FilesNamed
<1> QED
  BY <1>1, <1>2, <1>3, <1>4, <1>5, <1>6, <1>7 DEF Works

LEMMA TypedNext ==
  ASSUME Typed, [Next]_vars
  PROVE  Typed'
<1>0. /\ DataTyped /\ MainTyped /\ FilesNamed
      /\ \A t \in Thread : JobTyped(t)
  BY TypedParts DEF Typed
<1>1. ASSUME NEW k \in Key, NEW v \in Value \cup {Absent}, ClientWrites(k, v) PROVE Typed'
  <2>1. DataTyped'
    BY <1>0, <1>1 DEF ClientWrites, DataTyped, Contents, Serving
  <2>2. MainTyped' /\ FilesNamed' /\ \A t \in Thread : JobTyped(t)'
    BY <1>0, <1>1 DEF ClientWrites, MainTyped, FilesNamed, JobTyped
  <2> QED
    BY <2>1, <2>2, TypedParts DEF Typed
<1>2. ASSUME NEW t \in Worker, BackupBegins(t) PROVE Typed'
  BY <1>2, NamesOK, Basics DEF BackupBegins, Serving
<1>3. ASSUME NEW t \in Worker, NEW i \in Id, RestoreBegins(t, i) PROVE Typed'
  BY <1>3, ReadsOK, Basics DEF RestoreBegins, Serving
<1>4. ASSUME NEW t \in Thread, Works(t) PROVE Typed'
  BY <1>4, TypedStep
<1>5. CASE Starts
  <2>1. CASE \E i \in Files : Latest(i) /\ file[i].state = "whole"
    <3>1. PICK i \in Files : Reads(main, i)
      BY <1>5, <2>1 DEF Starts
    <3> QED
      BY <1>0, <1>5, <2>1, <3>1, ReadsOK, Basics DEF Starts, Files, DataTyped
  <2>2. CASE ~ \E i \in Files : Latest(i) /\ file[i].state = "whole"
    <3>1. DataTyped'
      BY <1>0, <1>5, <2>2 DEF Starts, DataTyped
    <3>2. MainTyped' /\ FilesNamed' /\ \A t \in Thread : JobTyped(t)'
      BY <1>0, <1>5, <2>2, Basics DEF Starts, MainTyped, FilesNamed, JobTyped
    <3> QED
      BY <3>1, <3>2, TypedParts DEF Typed
  <2> QED
    BY <2>1, <2>2
<1>6. CASE StopBegins
  BY <1>6, NamesOK, Basics DEF StopBegins
<1>7. CASE Exits
  BY <1>0, <1>7, GoneOK DEF Exits, DataTyped
<1>8. CASE Crashes
  BY <1>0, <1>8, GoneOK DEF Crashes, DataTyped
<1>9. CASE UNCHANGED vars
  <2>1. DataTyped' /\ MainTyped' /\ FilesNamed' /\ \A t \in Thread : JobTyped(t)'
    BY <1>0, <1>9 DEF vars, DataTyped, MainTyped, FilesNamed, JobTyped
  <2> QED
    BY <2>1, TypedParts DEF Typed
<1> QED
  BY <1>1, <1>2, <1>3, <1>4, <1>5, <1>6, <1>7, <1>8, <1>9 DEF Next

(***************************************************************************)
(* Every job of a node that is down is over, and main is restoring or      *)
(* backing up exactly while the phase says so; no file has a name that is  *)
(* still to come.                                                          *)
(***************************************************************************)
THEOREM BackupTypeCorrect == Spec => []TypeOK
<1>1. Init => Typed
  BY TypedInit
<1>2. Typed /\ [Next]_vars => Typed'
  BY TypedNext
<1>3. Typed => TypeOK
  BY DEF Typed
<1> QED
  BY <1>1, <1>2, <1>3, PTL DEF Spec

-----------------------------------------------------------------------------
(* One restore at a time *)

(* A job that goes on or is over, without touching the cache. *)
LEMMA RestoreUntouched ==
  ASSUME Typed, RestoreOK, NEW t \in Thread, NEW j \in Jobs, Becomes(t, j),
         j.at # "putting", j.at = "read" => job[t].at = "read",
         UNCHANGED <<cache, written, crossed>>
  PROVE  RestoreOK'
<1>1. \A u \in Thread : job'[u] = IF u = t THEN j ELSE job[u]
  BY NewJob DEF Typed
<1>2. ~ crossed => Alone'
  BY <1>1 DEF RestoreOK, Alone
<1>3. ASSUME NEW u \in Thread, ~ crossed PROVE Regular(u)'
  BY <1>1, <1>3 DEF RestoreOK, Regular
<1> QED
  BY <1>2, <1>3 DEF RestoreOK

LEMMA RestoreBegun ==
  ASSUME Typed, RestoreOK, NEW t \in Thread, NEW i \in Id, Reads(t, i), UNCHANGED cache
  PROVE  RestoreOK'
<1> DEFINE j == Job("read", i, file[i].data, {})
<1>1. j \in Jobs /\ j.at = "read"
  BY JobFields, Basics DEF Typed, TypeOK, JobPlaces
<1>2. \A u \in Thread : job'[u] = IF u = t THEN j ELSE job[u]
  BY <1>1, NewJob DEF Typed, Reads
<1>3. ASSUME ~ crossed' PROVE \A u \in Thread : job[u].at \notin {"read", "putting"}
  BY <1>3, Places DEF Reads, Restoring
<1> HIDE DEF j
<1>4. ~ crossed' => Alone'
  BY <1>1, <1>2, <1>3 DEF Alone
<1>5. ASSUME NEW u \in Thread, ~ crossed' PROVE Regular(u)'
  BY <1>1, <1>2, <1>3, <1>5 DEF Regular
<1> QED
  BY <1>4, <1>5 DEF RestoreOK

LEMMA RestoreStep ==
  ASSUME Typed, RestoreOK, NEW t \in Thread, Works(t)
  PROVE  RestoreOK'
<1>0. /\ job[t] \in Jobs /\ job[t].id \in 0 .. MaxBackups /\ job[t].data \in Contents
      /\ job[t].todo \in SUBSET Key /\ cache \in Contents
  BY NowAt, TypedParts DEF Typed, DataTyped
<1>1. CASE BackupTaken(t)
  <2>1. LET j == Job("taken", job[t].id, cache, {}) IN j \in Jobs /\ j.at = "taken"
    BY <1>0, JobFields DEF JobPlaces
  <2> QED
    BY <1>1, <2>1, RestoreUntouched DEF BackupTaken
<1>2. CASE BackupOpened(t)
  <2>1. LET j == Job("opened", job[t].id, job[t].data, {}) IN j \in Jobs /\ j.at = "opened"
    BY <1>0, JobFields DEF JobPlaces
  <2> QED
    BY <1>2, <2>1, RestoreUntouched DEF BackupOpened
<1>3. CASE BackupWritten(t)
  BY <1>3, RestoreUntouched, Basics DEF BackupWritten, Ends
<1>4. CASE BackupFails(t)
  BY <1>4, RestoreUntouched, Basics DEF BackupFails, Ends
<1>5. CASE RestoreClears(t)
  <2> DEFINE j == Job("putting", job[t].id, job[t].data, Held(job[t].data))
  <2>1. j \in Jobs /\ j.at = "putting" /\ j.data = job[t].data /\ j.todo = Held(job[t].data)
    BY <1>0, JobFields, Basics DEF JobPlaces
  <2>2. \A u \in Thread : job'[u] = IF u = t THEN j ELSE job[u]
    BY <1>5, <2>1, NewJob DEF Typed, RestoreClears
  <2> HIDE DEF j
  <2>3. ~ crossed => Alone'
    BY <1>5, <2>1, <2>2 DEF RestoreOK, Alone, RestoreClears
  <2>4. ASSUME NEW u \in Thread \ {t}, ~ crossed PROVE job'[u].at # "putting"
    BY <1>5, <2>2, <2>4 DEF RestoreOK, Alone, RestoreClears
  <2>5. Regular(t)'
    <3>1. ASSUME NEW k \in Key
          PROVE  cache'[k] = IF k \in Held(job[t].data) THEN Absent ELSE job[t].data[k]
      BY <1>5 DEF RestoreClears, Nothing, Held
    <3> QED
      BY <2>1, <2>2, <3>1 DEF Regular
  <2> QED
    BY <1>5, <2>3, <2>4, <2>5 DEF RestoreOK, Regular, RestoreClears
<1>6. CASE RestorePuts(t)
  <2>1. PICK k \in job[t].todo :
          /\ cache' = [cache EXCEPT ![k] = job[t].data[k]]
          /\ Becomes(t, Job("putting", job[t].id, job[t].data, job[t].todo \ {k}))
    BY <1>6 DEF RestorePuts
  <2> DEFINE j == Job("putting", job[t].id, job[t].data, job[t].todo \ {k})
  <2>2. j \in Jobs /\ j.at = "putting" /\ j.data = job[t].data /\ j.todo = job[t].todo \ {k}
    BY <1>0, JobFields DEF JobPlaces
  <2>3. \A u \in Thread : job'[u] = IF u = t THEN j ELSE job[u]
    BY <2>1, <2>2, NewJob DEF Typed
  <2> HIDE DEF j
  <2>4. ~ crossed => Alone'
    BY <1>6, <2>2, <2>3 DEF RestoreOK, Alone, RestorePuts
  <2>5. ASSUME NEW u \in Thread \ {t}, ~ crossed PROVE job'[u].at # "putting"
    BY <1>6, <2>3, <2>5 DEF RestoreOK, Alone, RestorePuts
  <2>6. ASSUME ~ crossed PROVE Regular(t)'
    <3>1. Regular(t) /\ job[t].at = "putting" /\ written' = written
      BY <1>6, <2>6 DEF RestoreOK, RestorePuts
    <3>2. \A l \in Key : cache'[l] = IF l = k THEN job[t].data[k] ELSE cache[l]
      BY <1>0, <2>1 DEF Contents
    <3> QED
      BY <2>2, <2>3, <3>1, <3>2 DEF Regular
  <2> QED
    BY <1>6, <2>4, <2>5, <2>6 DEF RestoreOK, Regular, RestorePuts
<1>7. CASE RestoreEnds(t)
  BY <1>7, RestoreUntouched, Basics DEF RestoreEnds
<1> QED
  BY <1>1, <1>2, <1>3, <1>4, <1>5, <1>6, <1>7 DEF Works

LEMMA RestoreNext ==
  ASSUME Typed, RestoreOK, [Next]_vars
  PROVE  RestoreOK'
<1>0. job \in [Thread -> Jobs] /\ cache \in Contents
      /\ written \in [Key -> SUBSET (Value \cup {Absent})]
  BY TypedParts DEF Typed, DataTyped
<1>1. ASSUME NEW k \in Key, NEW v \in Value \cup {Absent}, ClientWrites(k, v) PROVE RestoreOK'
  <2>1. /\ job' = job /\ crossed' = crossed
        /\ \A l \in Key : cache'[l] = IF l = k THEN v ELSE cache[l]
    BY <1>0, <1>1 DEF ClientWrites, Contents
  <2>2. ASSUME NEW t \in Thread, ~ crossed PROVE Regular(t)'
    <3> SUFFICES ASSUME job[t].at = "putting" PROVE Regular(t)'
      BY <2>1 DEF Regular
    <3>1. \A l \in Key : written'[l] = IF l = k THEN written[l] \cup {v} ELSE written[l]
      BY <1>0, <1>1 DEF ClientWrites, Restoring
    <3>2. Regular(t)
      BY <2>2 DEF RestoreOK
    <3> QED
      BY <2>1, <3>1, <3>2 DEF Regular
  <2> QED
    BY <2>1, <2>2 DEF RestoreOK, Alone
<1>2. ASSUME NEW t \in Worker, BackupBegins(t) PROVE RestoreOK'
  <2>1. LET j == Job("named", clock + 1, Nothing, {}) IN j \in Jobs /\ j.at = "named"
    BY <1>2, JobFields, Basics, BackupAssumption
       DEF BackupBegins, Names, JobPlaces, Typed, TypeOK
  <2> QED
    BY <1>2, <2>1, RestoreUntouched, Basics DEF BackupBegins, Names
<1>3. ASSUME NEW t \in Worker, NEW i \in Id, RestoreBegins(t, i) PROVE RestoreOK'
  BY <1>3, RestoreBegun, Basics DEF RestoreBegins
<1>4. ASSUME NEW t \in Thread, Works(t) PROVE RestoreOK'
  BY <1>4, RestoreStep
<1>5. CASE Starts
  <2>1. ASSUME NEW i \in Files, Reads(main, i) PROVE RestoreOK'
    BY <1>5, <2>1, RestoreBegun, Basics DEF Starts, Files
  <2>2. CASE UNCHANGED <<job, written, crossed>>
    BY <1>5, <2>2 DEF Starts, RestoreOK, Alone, Regular
  <2> QED
    BY <1>5, <2>1, <2>2 DEF Starts
<1>6. CASE StopBegins
  <2>1. LET j == Job("named", clock + 1, Nothing, {}) IN j \in Jobs /\ j.at = "named"
    BY <1>6, JobFields, Basics, BackupAssumption
       DEF StopBegins, Names, JobPlaces, Typed, TypeOK
  <2> QED
    BY <1>6, <2>1, RestoreUntouched, Basics DEF StopBegins, Names
<1>7. ASSUME Gone PROVE RestoreOK'
  <2>1. \A t \in Thread : job'[t].at = "idle"
    BY <1>7, Basics DEF Gone
  <2> QED
    BY <2>1 DEF RestoreOK, Alone, Regular
<1>8. CASE UNCHANGED vars
  BY <1>8 DEF vars, RestoreOK, Alone, Regular
<1> QED
  BY <1>1, <1>2, <1>3, <1>4, <1>5, <1>6, <1>7, <1>8 DEF Next, Exits, Crashes

(***************************************************************************)
(* Restores that do not overlap leave nothing in the cache that is older   *)
(* than they are, whatever clients and backups do meanwhile.               *)
(***************************************************************************)
THEOREM RestoresAreRegular == Spec => []RestoreRegular
<1>1. Init => Typed /\ RestoreOK
  <2> SUFFICES ASSUME Init PROVE Typed /\ RestoreOK
    OBVIOUS
  <2>1. \A t \in Thread : job[t].at = "idle"
    BY Basics DEF Init
  <2> QED
    BY <2>1, TypedInit DEF RestoreOK, Alone, Regular
<1>2. Typed /\ RestoreOK /\ [Next]_vars => (Typed /\ RestoreOK)'
  BY TypedNext, RestoreNext
<1>3. RestoreOK => RestoreRegular
  BY DEF RestoreOK, Regular, RestoreRegular
<1> QED
  BY <1>1, <1>2, <1>3, PTL DEF Spec

-----------------------------------------------------------------------------
(* Calm stops *)

LEMMA OneLatest ==
  ASSUME NEW i \in Id, NEW j \in Id, Latest(i), Latest(j)
  PROVE  i = j
BY Basics DEF Latest, Files

LEMMA LatestKept ==
  ASSUME UNCHANGED file, NEW data, LatestHas(data)
  PROVE  \E i \in Id : Latest(i)' /\ file'[i] = [state |-> "whole", data |-> data]
BY DEF LatestHas, Latest, Files

(* A step in which the node neither is starting nor comes to stop. *)
LEMMA NoStart ==
  ASSUME phase' \in {"serving", "stopping", "stopped"}
  PROVE  StartOK'
BY DEF StartOK

LEMMA WorkerStep ==
  ASSUME StopInv, NEW t \in Worker, Works(t)
  PROVE  CalmOK' /\ StartOK'
<1>1. job[t].at # "idle" /\ t # main /\ t \in Thread
  BY Basics DEF Works, BackupTaken, BackupOpened, BackupWritten, BackupFails,
                RestoreClears, RestorePuts, RestoreEnds
<1>2. phase' = phase /\ (calm' => calm)
  <2>1. CASE BackupTaken(t) \/ BackupOpened(t) \/ RestoreClears(t) \/ RestorePuts(t)
    BY <2>1 DEF BackupTaken, BackupOpened, RestoreClears, RestorePuts
  <2>2. CASE BackupWritten(t)
    BY <1>1, <2>2 DEF BackupWritten, Ends
  <2>3. CASE BackupFails(t)
    BY <1>1, <2>3 DEF BackupFails, Ends
  <2>4. CASE RestoreEnds(t)
    BY <1>1, <2>4 DEF RestoreEnds
  <2> QED
    BY <2>1, <2>2, <2>3, <2>4 DEF Works
<1>3. ~ calm /\ phase # "starting" /\ phase # "down"
  BY <1>1, NowAt DEF StopInv, CalmOK, StartOK, WorkersIdle
<1>4. phase \in {"down", "starting", "serving", "stopping", "stopped"}
  BY TypedParts DEF StopInv, Typed, DataTyped
<1> QED
  BY <1>2, <1>3, <1>4 DEF CalmOK, StartOK

(* The steps of main's own backup, at its end. *)
LEMMA MainBacksUp ==
  ASSUME StopInv,
         BackupTaken(main) \/ BackupOpened(main) \/ BackupWritten(main) \/ BackupFails(main)
  PROVE  CalmOK' /\ StartOK'
<1>0. /\ main \in Thread /\ Worker = Thread \ {main} /\ Typed
      /\ cache \in Contents /\ job[main].data \in Contents /\ job[main].id \in 0 .. MaxBackups
      /\ file \in [Id -> [state : {"none", "partial", "whole"}, data : Contents]]
      /\ MainTyped /\ CalmOK
  BY Basics, NowAt, TypedParts DEF StopInv, Typed, DataTyped
<1>1. job[main].at \in {"named", "taken", "opened"}
  BY DEF BackupTaken, BackupOpened, BackupWritten, BackupFails
<1>2. phase = "stopping" /\ job[main].id \in Id
  BY <1>0, <1>1, NowAt DEF MainTyped
<1>3. CASE BackupTaken(main)
  <2> DEFINE j == Job("taken", job[main].id, cache, {})
  <2>1. j \in Jobs /\ j.id = job[main].id /\ j.data = cache
    BY <1>0, JobFields DEF JobPlaces
  <2>2. /\ \A u \in Thread : job'[u] = IF u = main THEN j ELSE job[u]
        /\ UNCHANGED <<phase, calm, clock, cache>>
    BY <1>0, <1>3, <2>1, NewJob DEF Typed, BackupTaken
  <2> HIDE DEF j
  <2> QED
    BY <1>0, <1>2, <2>1, <2>2, NoStart DEF CalmOK, WorkersIdle
<1>4. CASE BackupOpened(main)
  <2> DEFINE j == Job("opened", job[main].id, job[main].data, {})
  <2>1. j \in Jobs /\ j.id = job[main].id /\ j.data = job[main].data
    BY <1>0, JobFields DEF JobPlaces
  <2>2. /\ \A u \in Thread : job'[u] = IF u = main THEN j ELSE job[u]
        /\ UNCHANGED <<phase, calm, clock, cache>> /\ job[main].at = "taken"
    BY <1>0, <1>4, <2>1, NewJob DEF Typed, BackupOpened
  <2> HIDE DEF j
  <2> QED
    BY <1>0, <1>2, <2>1, <2>2, NoStart DEF CalmOK, WorkersIdle
<1>5. CASE BackupWritten(main)
  <2>1. /\ \A u \in Thread : job'[u] = IF u = main THEN Idle ELSE job[u]
        /\ phase' = "stopped" /\ UNCHANGED <<calm, clock, cache>> /\ job[main].at = "opened"
        /\ file' = [file EXCEPT ![job[main].id] = [state |-> "whole", data |-> job[main].data]]
    BY <1>0, <1>5, Basics, NewJob DEF Typed, BackupWritten, Ends
  <2> QED
    BY <1>0, <1>2, <2>1, Basics, NoStart DEF CalmOK, WorkersIdle
<1>6. CASE BackupFails(main)
  BY <1>6, NoStart DEF BackupFails, Ends, CalmOK
<1> QED
  BY <1>3, <1>4, <1>5, <1>6

(* The steps of main's own restore, at its start. *)
LEMMA MainRestores ==
  ASSUME StopInv, RestoreClears(main) \/ RestorePuts(main) \/ RestoreEnds(main)
  PROVE  CalmOK' /\ StartOK'
<1>0. /\ main \in Thread /\ Worker = Thread \ {main} /\ Typed
      /\ cache \in Contents /\ job[main].data \in Contents /\ job[main].id \in 0 .. MaxBackups
      /\ job[main].todo \in SUBSET Key
      /\ MainTyped /\ CalmOK /\ StartOK
  BY Basics, NowAt, TypedParts DEF StopInv, Typed, DataTyped
<1>1. job[main].at \in {"read", "putting"}
  BY DEF RestoreClears, RestorePuts, RestoreEnds
<1>2. phase = "starting" /\ ~ calm /\ calm' = calm
  BY <1>0, <1>1 DEF MainTyped, CalmOK, RestoreClears, RestorePuts, RestoreEnds
<1>3. CalmOK'
  BY <1>2 DEF CalmOK
<1>4. ASSUME NEW j \in Jobs, Becomes(main, j), j.data = job[main].data,
             j.at = "putting", UNCHANGED <<file, phase, expected>>,
             cache' = [k \in Key |-> IF k \in j.todo THEN Absent ELSE j.data[k]]
      PROVE  StartOK'
  <2>1. \A u \in Thread : job'[u] = IF u = main THEN j ELSE job[u]
    BY <1>0, <1>4, NewJob DEF Typed
  <2>2. WorkersIdle' /\ cache' = HasPut(main)' /\ job'[main].at = "putting"
    BY <1>0, <1>2, <1>4, <2>1 DEF StartOK, WorkersIdle, HasPut
  <2>4. LatestHas(job[main].data)' /\ job'[main].data = job[main].data
    BY <1>0, <1>2, <1>4, <2>1, LatestKept DEF StartOK, LatestHas
  <2>3. expected # Absent => LatestHas(expected)' /\ job'[main].data = expected'
    BY <1>0, <1>2, <1>4, <2>1, LatestKept DEF StartOK, LatestHas
  <2> QED
    BY <1>2, <1>4, <2>2, <2>3, <2>4 DEF StartOK
<1>5. CASE RestoreClears(main)
  <2> DEFINE j == Job("putting", job[main].id, job[main].data, Held(job[main].data))
  <2>1. j \in Jobs /\ j.at = "putting" /\ j.data = job[main].data /\ j.todo = Held(job[main].data)
    BY <1>0, JobFields, Basics DEF JobPlaces
  <2>2. Nothing = [k \in Key |-> IF k \in Held(job[main].data) THEN Absent ELSE job[main].data[k]]
    BY DEF Nothing, Held
  <2>3. Becomes(main, j) /\ cache' = Nothing /\ UNCHANGED <<file, phase, expected>>
    BY <1>5 DEF RestoreClears
  <2> HIDE DEF j
  <2> QED
    BY <1>3, <1>4, <2>1, <2>2, <2>3
<1>6. CASE RestorePuts(main)
  <2>1. PICK k \in job[main].todo :
          /\ cache' = [cache EXCEPT ![k] = job[main].data[k]]
          /\ Becomes(main, Job("putting", job[main].id, job[main].data, job[main].todo \ {k}))
    BY <1>6 DEF RestorePuts
  <2> DEFINE j == Job("putting", job[main].id, job[main].data, job[main].todo \ {k})
  <2>2. j \in Jobs /\ j.at = "putting" /\ j.data = job[main].data /\ j.todo = job[main].todo \ {k}
    BY <1>0, JobFields DEF JobPlaces
  <2>3. Becomes(main, j) /\ UNCHANGED <<file, phase, expected>>
    BY <1>6, <2>1 DEF RestorePuts
  <2> HIDE DEF j
  <2>4. cache = HasPut(main)
    BY <1>0, <1>2, <1>6 DEF StartOK, RestorePuts
  <2>5. cache' = [l \in Key |-> IF l \in j.todo THEN Absent ELSE j.data[l]]
    BY <1>0, <2>1, <2>2, <2>4 DEF HasPut
  <2> QED
    BY <1>3, <1>4, <2>2, <2>3, <2>5
<1>7. CASE RestoreEnds(main)
  BY <1>3, <1>7, NoStart DEF RestoreEnds
<1> QED
  BY <1>5, <1>6, <1>7

LEMMA StopInit == Init => StopInv
<1> SUFFICES ASSUME Init PROVE StopInv
  OBVIOUS
<1> QED
  BY TypedInit DEF Init, StopInv, CalmOK, StartOK

LEMMA StopNext ==
  ASSUME StopInv, [Next]_vars
  PROVE  StopInv'
<1> SUFFICES CalmOK' /\ StartOK'
  BY TypedNext DEF StopInv
<1>0. /\ Typed /\ CalmOK /\ StartOK /\ DataTyped /\ MainTyped /\ FilesNamed
      /\ \A t \in Thread : JobTyped(t)
      /\ clock \in Nat
  BY TypedParts, BackupAssumption DEF StopInv, Typed, DataTyped
<1>1. ASSUME NEW k \in Key, NEW v \in Value \cup {Absent}, ClientWrites(k, v)
      PROVE  CalmOK' /\ StartOK'
  <2>1. phase' = phase /\ phase \in {"serving", "stopping", "stopped"}
        /\ UNCHANGED <<job, clock, file>>
    BY <1>1 DEF ClientWrites, Serving
  <2>2. calm' => calm /\ job[main].at = "named" /\ phase = "stopping"
    BY <1>0, <1>1 DEF ClientWrites, MainTyped
  <2> QED
    BY <1>0, <2>1, <2>2, NoStart DEF CalmOK, WorkersIdle
<1>2. ASSUME NEW t \in Worker, BackupBegins(t) PROVE CalmOK' /\ StartOK'
  BY <1>2, NoStart DEF BackupBegins, CalmOK, Serving
<1>3. ASSUME NEW t \in Worker, NEW i \in Id, RestoreBegins(t, i) PROVE CalmOK' /\ StartOK'
  BY <1>3, NoStart DEF RestoreBegins, CalmOK, Serving
<1>4. ASSUME NEW t \in Thread, Works(t) PROVE CalmOK' /\ StartOK'
  <2>1. CASE t \in Worker
    BY <1>4, <2>1, WorkerStep
  <2>2. CASE t = main
    BY <1>4, <2>2, MainBacksUp, MainRestores DEF Works
  <2> QED
    BY <2>1, <2>2, Basics
<1>5. CASE Starts
  <2>1. ~ calm /\ calm' = calm /\ CalmOK'
    BY <1>0, <1>5 DEF Starts, CalmOK
  <2>2. ASSUME NEW i \in Files, Latest(i), Reads(main, i), phase' = "starting"
        PROVE  StartOK'
    <3>1. i \in Id
      BY DEF Files
    <3>2. /\ job'[main] = Job("read", i, file[i].data, {})
          /\ \A t \in Thread \ {main} : job'[t] = job[t]
      BY <1>0, <1>5, <2>2, <3>1, ReadsOK, Basics DEF Starts, DataTyped
    <3>3. job'[main].at = "read" /\ job'[main].data = file[i].data
      BY <3>2 DEF Job
    <3>4. WorkersIdle' /\ cache' = Nothing
      BY <1>0, <1>5, <3>2, Basics DEF Starts, JobTyped, WorkersIdle, DataTyped
    <3>6. LatestHas(job[main].data)'
      <4>1. file[i].state = "whole"
        BY <2>2 DEF Reads
      <4>2. file[i] = [state |-> "whole", data |-> file[i].data]
        BY <1>0, <3>1, <4>1 DEF DataTyped
      <4>3. LatestHas(file[i].data)
        BY <2>2, <3>1, <4>2 DEF LatestHas
      <4>4. UNCHANGED file
        BY <1>5 DEF Starts
      <4> QED
        BY <3>3, <4>3, <4>4, LatestKept DEF LatestHas
    <3>5. ASSUME expected # Absent
          PROVE  LatestHas(expected)' /\ job'[main].data = expected'
      <4>1. LatestHas(expected) /\ UNCHANGED <<file, expected>>
        BY <1>0, <1>5, <3>5 DEF Starts, StartOK
      <4>2. file[i].data = expected
        BY <2>2, <3>1, <4>1, OneLatest DEF LatestHas
      <4> QED
        BY <3>3, <4>1, <4>2, LatestKept DEF LatestHas
    <3> QED
      BY <1>5, <2>2, <3>3, <3>4, <3>5, <3>6 DEF Starts, StartOK
  <2>3. phase' = "serving" => StartOK'
    BY NoStart
  <2>4. ASSUME NEW i, Latest(i) PROVE i \in Files
    BY <2>4 DEF Latest
  <2> QED
    BY <1>5, <2>1, <2>2, <2>3, <2>4 DEF Starts
<1>6. CASE StopBegins
  <2>1. /\ job'[main] = Job("named", clock', Nothing, {}) /\ phase' = "stopping"
        /\ \A t \in Thread \ {main} : job'[t] = job[t]
    BY <1>0, <1>6, NamesOK, Basics DEF StopBegins
  <2>2. job'[main].at = "named" /\ job'[main].id = clock'
    BY <2>1 DEF Job
  <2>3. ASSUME calm' PROVE WorkersIdle'
    <3>1. \A t \in Worker : job[t].at \in JobPlaces
      BY <1>0, NowAt, Basics
    <3>2. \A t \in Worker : t \notin BackingUp /\ t \notin Restoring
      BY <1>6, <2>3 DEF StopBegins
    <3> QED
      BY <2>1, <3>1, <3>2, Places, Basics DEF WorkersIdle, JobPlaces
  <2> QED
    BY <2>1, <2>2, <2>3, NoStart DEF CalmOK
<1>7. ASSUME Gone, expected' # Absent => LatestHas(expected') PROVE CalmOK' /\ StartOK'
  <2>1. expected' # Absent => LatestHas(expected)'
    BY <1>7 DEF Gone, LatestHas, Latest, Files
  <2> QED
    BY <1>7, <2>1 DEF Gone, CalmOK, StartOK
<1>8. CASE Exits
  <2>1. ASSUME calm PROVE LatestHas(cache)
    <3>1. clock \in Id /\ file[clock] = [state |-> "whole", data |-> cache]
      BY <1>0, <1>8, <2>1 DEF CalmOK, Exits
    <3>2. file[clock].state # "none"
      BY <3>1
    <3>3. Latest(clock)
      BY <1>0, <3>1, <3>2 DEF Latest, Files, FilesNamed
    <3> QED
      BY <3>1, <3>3 DEF LatestHas
  <2> QED
    BY <1>7, <1>8, <2>1 DEF Exits
<1>9. CASE Crashes
  BY <1>0, <1>7, <1>9 DEF Crashes, StartOK
<1>10. CASE UNCHANGED vars
  <2>1. /\ LatestHas(expected) => LatestHas(expected)'
        /\ LatestHas(job[main].data) => LatestHas(job[main].data)'
    BY <1>10 DEF vars, LatestHas, Latest, Files
  <2> QED
    BY <1>0, <1>10, <2>1 DEF vars, CalmOK, StartOK, WorkersIdle, HasPut
<1> QED
  BY <1>1, <1>2, <1>3, <1>4, <1>5, <1>6, <1>8, <1>9, <1>10 DEF Next

(* A start that completes has just read the latest file, or found none that *)
(* is whole.                                                                *)
LEMMA StartCompleted ==
  ASSUME StopInv, Next, StartCompletes
  PROVE  \/ phase = "starting" /\ LatestHas(job[main].data) /\ cache' = job[main].data
         \/ /\ phase = "down" /\ cache' = Nothing
            /\ ~ \E i \in Files : Latest(i) /\ file[i].state = "whole"
<1> DEFINE Goal == \/ phase = "starting" /\ LatestHas(job[main].data) /\ cache' = job[main].data
                   \/ /\ phase = "down" /\ cache' = Nothing
                      /\ ~ \E i \in Files : Latest(i) /\ file[i].state = "whole"
<1>0. /\ Typed /\ StartOK /\ MainTyped /\ phase \in {"down", "starting"} /\ phase' = "serving"
      /\ job[main].data \in Contents /\ main \in Thread /\ DataTyped
  BY TypedParts, NowAt, Basics DEF StopInv, Typed, StartCompletes
<1>1. ASSUME NEW t \in Thread, Works(t) PROVE Goal
  <2>1. RestoreEnds(main)
    BY <1>0, <1>1 DEF Works, BackupTaken, BackupOpened, BackupWritten, BackupFails,
                      RestoreClears, RestorePuts, RestoreEnds, Ends
  <2>2. /\ phase = "starting" /\ cache = HasPut(main) /\ LatestHas(job[main].data)
        /\ job[main].todo = {} /\ cache' = cache
    BY <1>0, <2>1 DEF RestoreEnds, MainTyped, StartOK
  <2>3. HasPut(main) = job[main].data
    BY <1>0, <2>2 DEF HasPut, Contents
  <2> QED
    BY <2>2, <2>3
<1>2. CASE Starts
  BY <1>0, <1>2 DEF Starts, DataTyped
<1> QED
  BY <1>0, <1>1, <1>2
     DEF Next, ClientWrites, BackupBegins, RestoreBegins, Serving, StopBegins,
         Exits, Crashes, Gone

LEMMA StartKeepsAll ==
  ASSUME StopInv, Next, StartCompletes, expected # Absent
  PROVE  cache' = expected
<1>1. StartOK /\ phase \in {"down", "starting"} /\ LatestHas(expected)
  BY DEF StopInv, StartOK, StartCompletes
<1>2. \E i \in Files : Latest(i) /\ file[i].state = "whole"
  BY <1>1 DEF LatestHas, Latest
<1>3. phase = "starting" /\ cache' = job[main].data
  BY <1>2, StartCompleted
<1> QED
  BY <1>1, <1>3 DEF StartOK

LEMMA StartIsNewest ==
  ASSUME StopInv, Next, StartCompletes
  PROVE  IF \E i \in Id : Newest(i) /\ file[i].state = "whole"
         THEN \E i \in Id : Newest(i) /\ cache' = file[i].data
         ELSE cache' = Nothing
<1>1. \A i \in Id : Newest(i) <=> i \in Files /\ Latest(i)
  BY Basics DEF Newest, Latest, Files
<1>2. CASE phase = "starting" /\ LatestHas(job[main].data) /\ cache' = job[main].data
  <2>1. PICK i \in Id : Latest(i) /\ file[i] = [state |-> "whole", data |-> job[main].data]
    BY <1>2 DEF LatestHas
  <2>2. Newest(i) /\ file[i].state = "whole" /\ file[i].data = job[main].data
    BY <1>1, <2>1 DEF Latest
  <2> QED
    BY <1>2, <2>2
<1>3. CASE /\ phase = "down" /\ cache' = Nothing
           /\ ~ \E i \in Files : Latest(i) /\ file[i].state = "whole"
  BY <1>1, <1>3
<1> QED
  BY <1>2, <1>3, StartCompleted

(***************************************************************************)
(* What a calm stop leaves is what the next start that completes has.      *)
(***************************************************************************)
THEOREM CalmStopsKeepAll == Spec => CalmStopKeepsAll
<1>1. Init => StopInv
  BY StopInit
<1>2. StopInv /\ [Next]_vars => StopInv'
  BY StopNext
<1>3. StopInv /\ [Next]_vars
        => [StartCompletes /\ expected # Absent => cache' = expected]_vars
  BY StartKeepsAll
<1> QED
  BY <1>1, <1>2, <1>3, PTL DEF Spec, CalmStopKeepsAll

(***************************************************************************)
(* Every start that completes has the contents of the latest file if that  *)
(* is whole, and nothing otherwise, whatever has crashed before.           *)
(***************************************************************************)
THEOREM StartsRestoreNewest == Spec => StartRestoresNewest
<1>1. Init => StopInv
  BY StopInit
<1>2. StopInv /\ [Next]_vars => StopInv'
  BY StopNext
<1>3. StopInv /\ [Next]_vars
        => [StartCompletes =>
              IF \E i \in Id : Newest(i) /\ file[i].state = "whole"
              THEN \E i \in Id : Newest(i) /\ cache' = file[i].data
              ELSE cache' = Nothing]_vars
  BY StartIsNewest
<1> QED
  BY <1>1, <1>2, <1>3, PTL DEF Spec, StartRestoresNewest

=============================================================================
