---------------------------- MODULE ActivityLog ----------------------------
(***************************************************************************)
(* The activity log (telemetry.rs): several servers append to one file,    *)
(* rotate it through numbered archives and expire the old ones, each under *)
(* a mutex of its process and a lock file shared by all.  A process may    *)
(* die between any two file operations.  Events are numbered in the order  *)
(* in which their lines were begun.                                        *)
(***************************************************************************)
EXTENDS Naturals, Sequences, FiniteSets

CONSTANTS
  Loggers, LoggerOf,   \* tasks that record an event, and their process
  Limits,              \* values of max_archives
  Retention,           \* retention_bytes, in events
  MaxEvents,           \* bound: events written
  MaxDeaths            \* bound: processes that die

\* Limits has a largest member, and one event fits the log: the least
\* retention_bytes of a configuration is the most an event may have.
ASSUME LogAssumption ==
  /\ Limits \subseteq Nat /\ \E n \in Limits : \A m \in Limits : m <= n
  /\ Retention \in Nat \ {0}
  /\ "nobody" \notin Loggers

VARIABLES
  limit, current, archive,  \* max_archives, the log file, the archives (absent: <<>>)
  logLock, mutex,           \* holder of the lock file, and of each process's mutex
  logger,                   \* per task: where it is, and the archive it looks at next
  recorded,                 \* history: events whose line was begun
  aged,                     \* history: the events up to this one were found older than retention_age
  killed                    \* processes that have died

logVars == <<limit, current, archive, logLock, mutex, logger, recorded, aged, killed>>
Nobody == "nobody"
MaxLimit == CHOOSE n \in Limits : \A m \in Limits : m <= n

LogInit ==
  /\ limit \in Limits
  /\ current = <<>> /\ archive = [i \in 1 .. MaxLimit |-> <<>>]
  /\ logLock = Nobody /\ mutex = [p \in {LoggerOf[x] : x \in Loggers} |-> Nobody]
  /\ logger = [x \in Loggers |-> [pc |-> "idle", index |-> 0]]
  /\ recorded = 0 /\ aged = 0 /\ killed = {}

LogsAt(x, pc) == logger[x].pc = pc /\ LoggerOf[x] \notin killed
LogsNext(x, pc, i) == logger' = [logger EXCEPT ![x] = [pc |-> pc, index |-> i]]
Event == recorded + 1

\* record: the mutex of the process.
TakeMutex(x) ==
  /\ LogsAt(x, "idle") /\ mutex[LoggerOf[x]] = Nobody /\ recorded < MaxEvents
  /\ mutex' = [mutex EXCEPT ![LoggerOf[x]] = x]
  /\ LogsNext(x, "lock", 0)
  /\ UNCHANGED <<limit, current, archive, logLock, recorded, aged, killed>>

\* Mutant: the deadline of the lock is no failure.
MayEnter_Late(x) == TRUE
\* lock_with_deadline: the lock is free.
MayEnter(x) == logLock = Nobody
\* Under the lock the clock is read, once for all archives.
LockLog(x) ==
  /\ LogsAt(x, "lock") /\ MayEnter(x)
  /\ logLock' = x /\ LogsNext(x, "expire", 1)
  /\ aged' \in aged .. recorded
  /\ UNCHANGED <<limit, current, archive, mutex, recorded, killed>>
\* The deadline passes or the lock file cannot be opened: the event is not recorded.
LockFails(x) ==
  /\ LogsAt(x, "lock")
  /\ mutex' = [mutex EXCEPT ![LoggerOf[x]] = Nobody]
  /\ LogsNext(x, "idle", 0)
  /\ UNCHANGED <<limit, current, archive, logLock, recorded, aged, killed>>

\* A file was modified when its last line was written; a rename keeps that time.
Expired(i) == archive[i] # <<>> /\ archive[i][Len(archive[i])] <= aged
\* remove_expired_archives: one archive after the other, from the newest.
RemoveExpiredArchive(x) ==
  /\ LogsAt(x, "expire") /\ logger[x].index <= limit
  /\ LET i == logger[x].index
     IN /\ archive' = IF Expired(i) THEN [archive EXCEPT ![i] = <<>>] ELSE archive
        /\ LogsNext(x, "expire", i + 1)
  /\ UNCHANGED <<limit, current, logLock, mutex, recorded, aged, killed>>
\* The size of the log decides about the rotation; an empty log is not rotated.
MeasureLog(x) ==
  /\ LogsAt(x, "expire") /\ logger[x].index > limit
  /\ LogsNext(x, IF current # <<>> /\ Len(current) + 1 > Retention THEN "rotate" ELSE "append", 0)
  /\ UNCHANGED <<limit, current, archive, logLock, mutex, recorded, aged, killed>>

\* rotate: the last archive goes, the others move up from the end, and the log becomes the first.
RotateLast(x) ==
  /\ LogsAt(x, "rotate")
  /\ IF limit = 0 THEN current' = <<>> /\ LogsNext(x, "append", 0) /\ UNCHANGED archive
     ELSE archive' = [archive EXCEPT ![limit] = <<>>] /\ LogsNext(x, "move", limit - 1) /\ UNCHANGED current
  /\ UNCHANGED <<limit, logLock, mutex, recorded, aged, killed>>
MoveArchive(x) ==
  /\ LogsAt(x, "move")
  /\ LET i == logger[x].index
     IN  IF i > 0
         THEN /\ archive' = IF archive[i] = <<>> THEN archive
                            ELSE [archive EXCEPT ![i + 1] = archive[i], ![i] = <<>>]
              /\ LogsNext(x, "move", i - 1) /\ UNCHANGED current
         ELSE /\ archive' = IF current = <<>> THEN archive ELSE [archive EXCEPT ![1] = current]
              /\ current' = <<>> /\ LogsNext(x, "append", 0)
  /\ UNCHANGED <<limit, logLock, mutex, recorded, aged, killed>>

\* The line is appended; the locks are released.
AppendEvent(x) ==
  /\ LogsAt(x, "append")
  /\ current' = Append(current, Event) /\ recorded' = Event
  /\ logLock' = IF logLock = x THEN Nobody ELSE logLock
  /\ mutex' = [mutex EXCEPT ![LoggerOf[x]] = Nobody]
  /\ LogsNext(x, "idle", 0)
  /\ UNCHANGED <<limit, archive, aged, killed>>

\* The line being appended may be cut short by a failure or a death, and stays as it is.
MayCut(x) ==
  \E cut \in (IF LogsAt(x, "append") THEN BOOLEAN ELSE {FALSE}) :
    /\ current' = IF cut THEN Append(current, Event) ELSE current
    /\ recorded' = IF cut THEN Event ELSE recorded

\* A file operation fails (no regular file, a full disk): the error is returned, what was done stays.
LogFails(x) ==
  /\ logger[x].pc \in {"expire", "rotate", "move", "append"} /\ LoggerOf[x] \notin killed
  /\ MayCut(x)
  /\ logLock' = IF logLock = x THEN Nobody ELSE logLock
  /\ mutex' = [mutex EXCEPT ![LoggerOf[x]] = Nobody]
  /\ LogsNext(x, "idle", 0)
  /\ UNCHANGED <<limit, archive, aged, killed>>

\* The process dies: the operating system releases its lock.
LoggerDies(x) ==
  /\ LoggerOf[x] \notin killed /\ Cardinality(killed) < MaxDeaths
  /\ MayCut(x)
  /\ killed' = killed \union {LoggerOf[x]}
  /\ logLock' = IF logLock # Nobody /\ LoggerOf[logLock] = LoggerOf[x] THEN Nobody ELSE logLock
  /\ UNCHANGED <<limit, archive, mutex, logger, aged>>

LogNext == \E x \in Loggers :
  \/ TakeMutex(x) \/ LockLog(x) \/ LockFails(x) \/ RemoveExpiredArchive(x) \/ MeasureLog(x)
  \/ RotateLast(x) \/ MoveArchive(x) \/ AppendEvent(x) \/ LogFails(x) \/ LoggerDies(x)
LogSpec == LogInit /\ [][LogNext]_logVars

-----------------------------------------------------------------------------
\* The files of the log, from the newest, and the events they hold.
LogFiles == 0 .. MaxLimit
Content(i) == IF i = 0 THEN current ELSE archive[i]
Holds(i) == {Content(i)[k] : k \in DOMAIN Content(i)}

\* A file holds its events in order, and none that is as new as one of a newer file.
LogIsOrdered ==
  /\ \A i \in LogFiles : \A k, l \in DOMAIN Content(i) : k < l => Content(i)[k] < Content(i)[l]
  /\ \A i, j \in LogFiles : i < j => \A m \in Holds(i), n \in Holds(j) : n < m
\* An event is not lost while an older one is kept, unless it was found too old.
OldestGoFirst ==
  \A i \in LogFiles : \A n \in Holds(i) : \A m \in n .. recorded :
    m > aged => \E j \in LogFiles : m \in Holds(j)

\* LogKeepsTheLatest: whatever servers write, rotate, expire and die at whatever point, the archives
\* and the log hold the end of what was recorded, each event once and in order: only the oldest and
\* the expired are ever lost, and the log stays within its size (ActivityLog::record_locked, rotate,
\* remove_expired_archives).
LogKeepsTheLatest ==
  LogIsOrdered /\ OldestGoFirst /\ (current # <<>> => Len(current) <= Retention)
=============================================================================
