--------------------------- MODULE BackupRestore ---------------------------
(***************************************************************************)
(* The backups of one cache node (cmd/auxiliary/main.go): the periodic and *)
(* requested ones, the one that is made before the node stops, the restore *)
(* on request, and the restore from the most recent file at the start.     *)
(*                                                                         *)
(* A backup is named by the time, takes a copy of the cache after that,    *)
(* and is then written to a file of its own, which is there before it is   *)
(* complete.  A restore clears the cache and puts the entries back one by  *)
(* one.  None of this excludes clients or any other backup or restore.  A  *)
(* crash may come at any moment; only files survive it.                    *)
(*                                                                         *)
(* The cache is large enough not to evict.  Time is the number of backups  *)
(* that have been named.                                                   *)
(***************************************************************************)
EXTENDS Naturals, FiniteSets

CONSTANTS
  Key,        \* the keys
  Value,      \* the values
  Absent,     \* what the cache holds for a key that it does not have
  Worker,     \* goroutines that make a backup or restore one
  main,       \* the goroutine of Start, which restores first and backs up last
  MaxBackups  \* bound: backups that are ever named

ASSUME BackupAssumption ==
  /\ Absent \notin Value
  /\ main \notin Worker
  /\ MaxBackups \in Nat

Id == 1 .. MaxBackups
Thread == Worker \cup {main}
Contents == [Key -> Value \cup {Absent}]
Nothing == [k \in Key |-> Absent]
Held(data) == {k \in Key : data[k] # Absent}

VARIABLES
  cache,     \* Cache, as far as clients see it
  file,      \* the backup files: "none", "partial" or "whole", and their data
  clock,     \* the time
  phase,     \* of main: "down", "starting", "serving", "stopping", "stopped"
  job,       \* what every goroutine is about to do
  written,   \* history: what clients did to each key since the restore began
  crossed,   \* history: two restores have overlapped
  calm,      \* history: see StopBegins
  expected   \* history: what a calm stop leaves to the next start

vars == <<cache, file, clock, phase, job, written, crossed, calm, expected>>

NoFile == [state |-> "none", data |-> Nothing]

(* A backup is "named", "taken" or "opened", a restore is "read" or "putting". *)
Job(at, id, data, todo) == [at |-> at, id |-> id, data |-> data, todo |-> todo]
Idle == Job("idle", 0, Nothing, {})
Becomes(t, j) == job' = [job EXCEPT ![t] = j]

BackingUp == {t \in Thread : job[t].at \in {"named", "taken", "opened"}}
Restoring == {t \in Thread : job[t].at \in {"read", "putting"}}

(* The HTTP server accepts requests. *)
Serving == phase \in {"serving", "stopping", "stopped"}

-----------------------------------------------------------------------------
Init ==
  /\ cache = Nothing
  /\ file = [i \in Id |-> NoFile]
  /\ clock = 0
  /\ phase = "down"
  /\ job = [t \in Thread |-> Idle]
  /\ written = [k \in Key |-> {}]
  /\ crossed = FALSE
  /\ calm = FALSE
  /\ expected = Absent

(* A client's PUT or DELETE. *)
ClientWrites(k, v) ==
  /\ Serving
  /\ cache[k] # v
  /\ cache' = [cache EXCEPT ![k] = v]
  /\ written' = IF Restoring = {} THEN written ELSE [written EXCEPT ![k] = @ \cup {v}]
  /\ calm' = (calm /\ job[main].at = "named")
  /\ UNCHANGED <<file, clock, phase, job, crossed, expected>>

-----------------------------------------------------------------------------
(* createBackup, in the goroutine t *)
Names(t) ==
  /\ job[t] = Idle
  /\ clock < MaxBackups
  /\ clock' = clock + 1
  /\ Becomes(t, Job("named", clock + 1, Nothing, {}))

BackupBegins(t) ==
  /\ Serving
  /\ Names(t)
  /\ calm' = FALSE
  /\ UNCHANGED <<cache, file, phase, written, crossed, expected>>

BackupTaken(t) ==
  /\ job[t].at = "named"
  /\ Becomes(t, Job("taken", job[t].id, cache, {}))
  /\ UNCHANGED <<cache, file, clock, phase, written, crossed, calm, expected>>

BackupOpened(t) ==
  /\ job[t].at = "taken"
  /\ file' = [file EXCEPT ![job[t].id] = [state |-> "partial", data |-> Nothing]]
  /\ Becomes(t, Job("opened", job[t].id, job[t].data, {}))
  /\ UNCHANGED <<cache, clock, phase, written, crossed, calm, expected>>

(* main goes on to deregister, whether its backup has failed or not. *)
Ends(t) ==
  /\ Becomes(t, Idle)
  /\ phase' = IF t = main THEN "stopped" ELSE phase

BackupWritten(t) ==
  /\ job[t].at = "opened"
  /\ file' = [file EXCEPT ![job[t].id] = [state |-> "whole", data |-> job[t].data]]
  /\ Ends(t)
  /\ UNCHANGED <<cache, clock, written, crossed, calm, expected>>

BackupFails(t) ==
  /\ job[t].at \in {"taken", "opened"}
  /\ Ends(t)
  /\ calm' = (calm /\ t # main)
  /\ UNCHANGED <<cache, file, clock, written, crossed, expected>>

-----------------------------------------------------------------------------
(* restoreFromSpecificBackup: an incomplete file is no JSON and is refused. *)
Reads(t, i) ==
  /\ job[t] = Idle
  /\ file[i].state = "whole"
  /\ Becomes(t, Job("read", i, file[i].data, {}))
  /\ crossed' = (crossed \/ Restoring # {})
  /\ written' = [k \in Key |-> {}]

RestoreBegins(t, i) ==
  /\ Serving
  /\ Reads(t, i)
  /\ calm' = FALSE
  /\ UNCHANGED <<cache, file, clock, phase, expected>>

mutRestoreClears(t) ==  \* what is not in the backup stays
  /\ job[t].at = "read"
  /\ Becomes(t, Job("putting", job[t].id, job[t].data, Held(job[t].data)))
  /\ UNCHANGED <<cache, file, clock, phase, written, crossed, calm, expected>>

RestoreClears(t) ==
  /\ job[t].at = "read"
  /\ cache' = Nothing
  /\ Becomes(t, Job("putting", job[t].id, job[t].data, Held(job[t].data)))
  /\ UNCHANGED <<file, clock, phase, written, crossed, calm, expected>>

RestorePuts(t) ==
  /\ job[t].at = "putting"
  /\ \E k \in job[t].todo :
       /\ cache' = [cache EXCEPT ![k] = job[t].data[k]]
       /\ Becomes(t, Job("putting", job[t].id, job[t].data, job[t].todo \ {k}))
  /\ UNCHANGED <<file, clock, phase, written, crossed, calm, expected>>

RestoreEnds(t) ==
  /\ job[t].at = "putting" /\ job[t].todo = {}
  /\ Becomes(t, Idle)
  /\ phase' = IF t = main THEN "serving" ELSE phase
  /\ UNCHANGED <<cache, file, clock, written, crossed, calm, expected>>

-----------------------------------------------------------------------------
(* restoreFromBackup: the latest file, complete or not, and no other. *)
Files == {i \in Id : file[i].state # "none"}

mutLatest(i) == i \in Files /\ \A j \in Files : i <= j  \* the first file found

Latest(i) == i \in Files /\ \A j \in Files : j <= i

mutStarts ==  \* the restore goes on in the background
  /\ phase = "down"
  /\ phase' = "serving"
  /\ IF \E i \in Files : Latest(i) /\ file[i].state = "whole"
     THEN \E i \in Files : Latest(i) /\ Reads(main, i)
     ELSE UNCHANGED <<job, written, crossed>>
  /\ UNCHANGED <<cache, file, clock, calm, expected>>

Starts ==
  /\ phase = "down"
  /\ IF \E i \in Files : Latest(i) /\ file[i].state = "whole"
     THEN /\ \E i \in Files : Latest(i) /\ Reads(main, i)
          /\ phase' = "starting"
     ELSE /\ phase' = "serving"
          /\ UNCHANGED <<job, written, crossed>>
  /\ UNCHANGED <<cache, file, clock, calm, expected>>

(***************************************************************************)
(* SIGTERM: main names its backup.  The stop is calm if no backup is being *)
(* made or restored then, none is begun until the process has ended, and   *)
(* no client writes anything after main has taken its copy.                *)
(***************************************************************************)
StopBegins ==
  /\ phase = "serving"
  /\ Names(main)
  /\ phase' = "stopping"
  /\ calm' = (BackingUp \cup Restoring = {})
  /\ UNCHANGED <<cache, file, written, crossed, expected>>

(* The process is gone: by itself, once it has deregistered and its server *)
(* has shut down or the wait for open requests has timed out, or by a      *)
(* crash.  Goroutines that make periodic backups are not waited for.       *)
Gone ==
  /\ phase' = "down"
  /\ cache' = Nothing
  /\ job' = [t \in Thread |-> Idle]
  /\ written' = [k \in Key |-> {}]
  /\ calm' = FALSE
  /\ UNCHANGED <<file, clock, crossed>>

mutExits ==  \* it waits for every open request
  /\ phase = "stopped"
  /\ BackingUp \cup Restoring = {}
  /\ expected' = IF calm THEN cache ELSE Absent
  /\ Gone

Exits ==
  /\ phase = "stopped"
  /\ expected' = IF calm THEN cache ELSE Absent
  /\ Gone

Crashes ==
  /\ phase # "down"
  /\ expected' = IF phase = "starting" THEN expected ELSE Absent
  /\ Gone

Works(t) ==
  \/ BackupTaken(t) \/ BackupOpened(t) \/ BackupWritten(t) \/ BackupFails(t)
  \/ RestoreClears(t) \/ RestorePuts(t) \/ RestoreEnds(t)

Next ==
  \/ \E k \in Key, v \in Value \cup {Absent} : ClientWrites(k, v)
  \/ \E t \in Worker : BackupBegins(t) \/ \E i \in Id : RestoreBegins(t, i)
  \/ \E t \in Thread : Works(t)
  \/ Starts \/ StopBegins \/ Exits \/ Crashes

Spec == Init /\ [][Next]_vars

(* Goroutines are scheduled, files get written or fail, and the shutdown   *)
(* of the server ends with its timeout.                                    *)
FairSpec == Spec /\ (\A t \in Thread : WF_vars(Works(t))) /\ WF_vars(Exits)

-----------------------------------------------------------------------------
Jobs == [at : {"idle", "named", "taken", "opened", "read", "putting"},
         id : 0 .. MaxBackups, data : Contents, todo : SUBSET Key]

TypeOK ==
  /\ cache \in Contents
  /\ file \in [Id -> [state : {"none", "partial", "whole"}, data : Contents]]
  /\ clock \in 0 .. MaxBackups
  /\ phase \in {"down", "starting", "serving", "stopping", "stopped"}
  /\ job \in [Thread -> Jobs]
  /\ \A t \in Thread : job[t].at # "idle" => job[t].id \in 1 .. clock
  /\ phase = "down" => cache = Nothing /\ \A t \in Thread : job[t] = Idle
  /\ phase = "starting" <=> main \in Restoring
  /\ phase = "stopping" <=> main \in BackingUp
  /\ written \in [Key -> SUBSET (Value \cup {Absent})]
  /\ crossed \in BOOLEAN /\ calm \in BOOLEAN
  /\ expected \in Contents \cup {Absent}

(***************************************************************************)
(* Of restores that do not overlap: once the cache has been cleared, each  *)
(* key has its value of the backup, is still to get it, or has a value     *)
(* that a client gave it since the restore began; nothing older is left    *)
(* (main.go 871-877).                                                      *)
(***************************************************************************)
RestoreRegular ==
  ~ crossed =>
    \A t \in Thread : job[t].at = "putting" =>
      \A k \in Key :
        \/ cache[k] \in written[k]
        \/ cache[k] = IF k \in job[t].todo THEN Absent ELSE job[t].data[k]

(***************************************************************************)
(* A calm stop loses nothing: the next start that succeeds, after however  *)
(* many that crashed, has the contents the cache had at the end (main.go   *)
(* 193-194, 239-267, 799-884).                                             *)
(***************************************************************************)
StartCompletes == phase \in {"down", "starting"} /\ phase' = "serving"

CalmStopKeepsAll ==
  [][StartCompletes /\ expected # Absent => cache' = expected]_vars

(* The file that a start tries: the one with the latest name. *)
Newest(i) == file[i].state # "none" /\ \A j \in Id : j > i => file[j].state = "none"

(***************************************************************************)
(* Whatever has crashed and been restored before, and however often: a     *)
(* start that completes has the contents of the file with the latest name, *)
(* all of them and nothing else, if that file is whole, and nothing if it  *)
(* is not or if there is none; never a mixture, and never the contents of  *)
(* an older file (main.go 185-193, 799-884).                               *)
(***************************************************************************)
StartRestoresNewest ==
  [][StartCompletes =>
       IF \E i \in Id : Newest(i) /\ file[i].state = "whole"
       THEN \E i \in Id : Newest(i) /\ cache' = file[i].data
       ELSE cache' = Nothing]_vars

(* A node that is told to stop does, whatever is still going on (main.go   *)
(* 232-267).                                                               *)
StopEnds == phase = "stopping" ~> phase = "down"

(***************************************************************************)
(* What the documentation promises: "Restore from backups" (README.md      *)
(* 264).  A start has the contents of the latest backup that was completed.*)
(***************************************************************************)
Completed == {i \in Id : file[i].state = "whole"}

StartRestoresBackup ==
  [][StartCompletes =>
       \A i \in Completed : (\A j \in Completed : j <= i) => cache' = file[i].data]_vars

=============================================================================
