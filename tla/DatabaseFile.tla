----------------------------- MODULE DatabaseFile -----------------------------
(***************************************************************************)
(* The life of one service database file (ServiceDatabase::open,           *)
(* DatabaseManager::openDb) and of the watcher that turns its changes into *)
(* serviceAdded() and serviceRemoved() (DatabaseFileWatcher).              *)
(*                                                                         *)
(* Opening a database looks for its tables, drops what there is of them    *)
(* and creates them, in three transactions; other processes come between,  *)
(* as they do between the looks the watcher takes at the file system and   *)
(* the watches it sets after each.                                         *)
(* A file that is deleted lives on for the processes that have it open:    *)
(* `disk` keeps what every file that ever had the name holds.  One process *)
(* listens; the events its QFileSystemWatcher has not delivered yet are a  *)
(* variable of their own.                                                  *)
(***************************************************************************)
EXTENDS Naturals, FiniteSets

CONSTANTS Proc, Listener, Service, MaxFiles, MaxChanges

VARIABLES
  file,      \* the file that has the name now, 0 for none
  disk,      \* tables and services of each file
  dir,       \* the directory of the file exists
  conn,      \* the file each process has open, and how far open() is
  enabled,   \* how far the listener is: in setEnabled, or what it was called by
  notifying, \* databaseChanged looks for a file that was gone
  watched,   \* QFileSystemWatcher: the file it watches, 0 for none
  dirWatch,  \* and the directory, "none", "dir" or "above"
  monitored, \* m_monitoredDbPaths holds the file
  events,    \* what the watcher has not delivered yet
  known,     \* DatabaseFileWatcher::m_knownServices
  reported,  \* what the listener believes after the signals it got (history)
  gap,       \* the file came, changed or went between a look and its watch (history)
  changes    \* changes by applications so far (bound)

files == <<file, disk, dir>>
watcher == <<enabled, notifying, watched, dirWatch, monitored, events, known, reported, gap>>
vars == <<files, conn, watcher, changes>>

Steps == {"closed", "drop", "create", "open", "failed"}

TypeOK ==
  /\ file \in 0..MaxFiles
  /\ disk \in [1..MaxFiles -> [tables : BOOLEAN, services : SUBSET Service]]
  /\ dir \in BOOLEAN
  /\ conn \in [Proc -> [step : Steps, file : 0..MaxFiles]]
  /\ enabled \in {"off", "again", "seek", "dir", "above", "found", "asked", "listed",
                   "recheck", "on"}
  /\ notifying \in BOOLEAN /\ monitored \in BOOLEAN
  /\ watched \in 0..MaxFiles
  /\ dirWatch \in {"none", "dir", "above"}
  /\ events \subseteq {"file", "dir"}
  /\ known \subseteq Service
  /\ reported \subseteq Service
  /\ gap \in BOOLEAN
  /\ changes \in 0..MaxChanges

Empty == [tables |-> FALSE, services |-> {}]
Closed == [step |-> "closed", file |-> 0]

Init ==
  /\ file = 0
  /\ disk = [f \in 1..MaxFiles |-> Empty]
  /\ dir \in BOOLEAN
  /\ conn = [p \in Proc |-> Closed]
  /\ enabled = "off" /\ notifying = FALSE
  /\ watched = 0 /\ dirWatch = "none" /\ monitored = FALSE /\ events = {}
  /\ known = {} /\ reported = {} /\ gap = FALSE
  /\ changes = 0

\* The file has been listed and is not watched yet.
Unwatched == enabled \in {"listed", "recheck"} /\ watched # file

\* The file was touched: an event if it is watched, a gap if only listed.
Touched(f) ==
  /\ events' = IF watched = f THEN events \cup {"file"} ELSE events
  /\ gap' = (gap \/ (Unwatched /\ f = file))
-----------------------------------------------------------------------------
(***************************************************************************)
(* open(): the directory, the file, its tables, in three transactions.     *)
(***************************************************************************)
Used == {f \in 1..MaxFiles : \/ f = file \/ disk[f] # Empty
                             \/ \E p \in Proc : conn[p].file = f}

\* The listener opens its database when it lists or reports what is in it, and for
\* other work when it is not in the middle of setEnabled.
Opens(p) ==
  /\ conn[p].step \in {"closed", "failed"}
  /\ p = Listener => enabled \in {"off", "found", "asked", "on"}

\* The directory is made when it is not there.
MakeDirectory(p) ==
  /\ Opens(p) /\ file = 0 /\ ~dir
  /\ dir' = TRUE
  /\ events' = IF dirWatch = "above" THEN events \cup {"dir"} ELSE events
  /\ gap' = (gap \/ enabled = "above")
  /\ UNCHANGED <<file, disk, conn, enabled, notifying, watched, dirWatch, monitored, known,
                 reported, changes>>

\* The file is created when it is not there.
OpenFile(p) ==
  /\ Opens(p)
  /\ IF file # 0
     THEN /\ conn' = [conn EXCEPT ![p] = [step |-> IF disk[file].tables THEN "open"
                                                  ELSE "drop",
                                          file |-> file]]
          /\ UNCHANGED <<file, events, gap>>
     ELSE \E f \in (1..MaxFiles) \ Used :
            /\ dir
            /\ file' = f
            /\ conn' = [conn EXCEPT ![p] = [step |-> "drop", file |-> f]]
            /\ events' = IF dirWatch = "dir" THEN events \cup {"dir"} ELSE events
            /\ gap' = (gap \/ enabled \in {"dir", "above"})
  /\ UNCHANGED <<disk, dir, enabled, notifying, watched, dirWatch, monitored, known,
                 reported, changes>>

\* dropTables: whatever tables the file has by now.
DropTables(p) ==
  LET f == conn[p].file IN
  /\ conn[p].step = "drop"
  /\ disk' = [disk EXCEPT ![f] = Empty]
  /\ IF disk[f].tables THEN Touched(f) ELSE UNCHANGED <<events, gap>>
  /\ conn' = [conn EXCEPT ![p].step = "create"]
  /\ UNCHANGED <<file, dir, enabled, notifying, watched, dirWatch, monitored, known, reported,
                 changes>>

\* createTables fails when another process was faster; open() fails with it.
CreateTables(p) ==
  LET f == conn[p].file IN
  /\ conn[p].step = "create"
  /\ IF disk[f].tables
     THEN /\ conn' = [conn EXCEPT ![p] = [step |-> "failed", file |-> 0]]
          /\ UNCHANGED <<disk, events, gap>>
     ELSE /\ conn' = [conn EXCEPT ![p].step = "open"]
          /\ disk' = [disk EXCEPT ![f].tables = TRUE]
          /\ Touched(f)
  /\ UNCHANGED <<file, dir, enabled, notifying, watched, dirWatch, monitored, known, reported,
                 changes>>

\* The listener is not in the middle of setEnabled.
Free(p) == p = Listener => enabled \in {"off", "on"}

\* openDb throws an open database away when the name is gone; a file that was
\* deleted and made again is not noticed.
Reopen(p) ==
  /\ Free(p)
  /\ conn[p].step = "open" /\ file = 0
  /\ conn' = [conn EXCEPT ![p] = Closed]
  /\ UNCHANGED <<files, watcher, changes>>
-----------------------------------------------------------------------------
(***************************************************************************)
(* What applications do to the file.                                       *)
(***************************************************************************)
\* registerService or unregisterService of a process, committed.
Write(p, services) ==
  LET f == conn[p].file IN
  /\ Free(p) /\ changes < MaxChanges
  /\ conn[p].step = "open" /\ file # 0
  /\ disk[f].tables /\ services # disk[f].services
  /\ disk' = [disk EXCEPT ![f].services = services]
  /\ Touched(f)
  /\ changes' = changes + 1
  /\ UNCHANGED <<file, dir, conn, enabled, notifying, watched, dirWatch, monitored, known,
                 reported>>

RegisterService(p, s) ==
  conn[p].file # 0 /\ Write(p, disk[conn[p].file].services \cup {s})
UnregisterService(p, s) ==
  conn[p].file # 0 /\ Write(p, disk[conn[p].file].services \ {s})

\* Somebody removes the file; the watch goes with it.
DeleteFile ==
  /\ changes < MaxChanges
  /\ file # 0
  /\ file' = 0
  /\ watched' = IF watched = file THEN 0 ELSE watched
  /\ events' = (events \cup (IF watched = file THEN {"file"} ELSE {}))
                       \cup (IF dirWatch = "dir" THEN {"dir"} ELSE {})
  /\ gap' = (gap \/ Unwatched)
  /\ changes' = changes + 1
  /\ UNCHANGED <<disk, dir, conn, enabled, notifying, dirWatch, monitored, known, reported>>
-----------------------------------------------------------------------------
(***************************************************************************)
(* DatabaseFileWatcher.                                                    *)
(***************************************************************************)
\* closestExistingParent of a file that is not there.
ClosestParent == IF dir THEN "dir" ELSE "above"

\* What the listener's own connection reads; nothing while it has no tables.
Names == disk[conn[Listener].file].services
Readable == conn[Listener].step = "open" /\ disk[conn[Listener].file].tables

\* setEnabled(database, true): list the services of a file that is there, or look
\* for the closest directory that is.
AskNotifications ==
  /\ enabled \in {"off", "again"}
  /\ enabled' = IF file = 0 THEN "seek" ELSE "asked"
  /\ UNCHANGED <<files, conn, notifying, watched, dirWatch, monitored, events, known,
                 reported, gap, changes>>

\* restartDirMonitoring, instead of the directory watched so far: the file is there
\* by now, or another directory is the closest.
Sought(previous) ==
  /\ enabled' = IF file # 0 THEN "found"
                ELSE IF ClosestParent # previous THEN ClosestParent
                ELSE enabled
  /\ monitored' = (monitored /\ file = 0)
  /\ dirWatch' = IF previous # "none" /\ enabled' # enabled THEN "none" ELSE dirWatch

Seek ==
  /\ enabled = "seek"
  /\ Sought("none")
  /\ UNCHANGED <<files, conn, notifying, watched, events, known, reported, gap, changes>>

\* databaseChanged looks once more when it was what called.
Done == IF notifying THEN "recheck" ELSE "on"

\* What came since the look at the file system is not noticed.
WatchDirectory ==
  /\ enabled \in {"dir", "above"}
  /\ dirWatch' = enabled
  /\ monitored' = TRUE
  /\ enabled' = Done
  /\ UNCHANGED <<files, conn, notifying, watched, events, known, reported, gap, changes>>

\* The file came: all its services are reported, and setEnabled starts over.
ReportServices ==
  /\ enabled = "found" /\ conn[Listener].step \in {"open", "failed"}
  /\ reported' = IF Readable THEN reported \cup Names ELSE reported
  /\ enabled' = "again"
  /\ UNCHANGED <<files, conn, notifying, watched, dirWatch, monitored, events, known, gap,
                 changes>>

ListKnown ==
  /\ enabled = "asked" /\ conn[Listener].step \in {"open", "failed"}
  /\ known' = IF Readable THEN Names ELSE {}
  /\ reported' = IF reported = {} /\ dirWatch = "none" THEN known' ELSE reported
  /\ enabled' = "listed"
  /\ gap' = (file = 0 \/ conn[Listener].file # file)
  /\ UNCHANGED <<files, conn, notifying, watched, dirWatch, monitored, events, changes>>

\* Mutant: the file is not watched again.
AddPathOnce == UNCHANGED watched

\* addPath.  What happened in between is not noticed until the file changes again.
AddPath == watched' = file

StartWatching ==
  /\ enabled = "listed"
  /\ AddPath
  /\ enabled' = Done
  /\ UNCHANGED <<files, conn, notifying, dirWatch, monitored, events, known, reported, gap,
                 changes>>

\* databaseChanged: the signals for the difference to what was known, or, when
\* the file is gone, the wait for a new one.
NotifyChanges ==
  /\ enabled = "on" /\ "file" \in events
  /\ events' = events \ {"file"}
  /\ notifying' = (file = 0)
  /\ IF file = 0
     THEN /\ known' = {}
          /\ enabled' = "seek"
          /\ UNCHANGED <<reported, gap>>
     ELSE /\ enabled' = "recheck"
          /\ IF Readable
             THEN /\ known' = Names
                  /\ reported' = (reported \cup (Names \ known)) \ (known \ Names)
                  /\ gap' = (conn[Listener].file # file)
             ELSE gap' = TRUE /\ UNCHANGED <<known, reported>>
  /\ UNCHANGED <<files, conn, watched, dirWatch, monitored, changes>>

\* Its end: a file that is there is watched, whether it has been listed or not.
WatchAgain ==
  /\ enabled = "recheck"
  /\ watched' = IF watched = 0 THEN file ELSE watched
  /\ enabled' = "on" /\ notifying' = FALSE
  /\ UNCHANGED <<files, conn, dirWatch, monitored, events, known, reported, gap, changes>>

\* databaseDirectoryChanged: the file is there at last, or a nearer directory.
DirectoryChanged ==
  /\ enabled = "on" /\ "dir" \in events
  /\ events' = events \ {"dir"}
  /\ IF watched # 0 \/ ~monitored
     THEN UNCHANGED <<enabled, dirWatch, monitored>>
     ELSE Sought(dirWatch)
  /\ UNCHANGED <<files, conn, notifying, watched, known, reported, gap, changes>>
-----------------------------------------------------------------------------
Next ==
  \/ \E p \in Proc : MakeDirectory(p) \/ OpenFile(p) \/ DropTables(p) \/ CreateTables(p)
                     \/ Reopen(p)
  \/ \E p \in Proc, s \in Service : RegisterService(p, s) \/ UnregisterService(p, s)
  \/ DeleteFile
  \/ AskNotifications \/ Seek \/ WatchDirectory \/ ReportServices \/ ListKnown
  \/ StartWatching \/ NotifyChanges \/ WatchAgain \/ DirectoryChanged

Spec == Init /\ [][Next]_vars
-----------------------------------------------------------------------------
\* Once the events are delivered the watcher knows the services of the file,
\* unless it came, changed or went between a look and the watch that followed, or
\* the listener still has a file open that was deleted and made again.
KnownIsCurrent ==
  /\ enabled = "on" /\ events = {} /\ file # 0
  /\ ~gap /\ Readable /\ conn[Listener].file = file
  => known = Names

\* A service that was registered stays in its file until somebody unregisters
\* it: opening a database takes none away ("creates or opens database and
\* creates tables if they are not present").
\* (The code does not keep it; no run checks it.)
RegisteredStays ==
  [][\A f \in 1..MaxFiles : \A s \in disk[f].services :
       s \notin disk'[f].services => \E p \in Proc : UnregisterService(p, s)]_vars
=============================================================================
