--------------------------- MODULE AtomicPublish ---------------------------
(***************************************************************************)
(* The publication of one cache artifact (cache/atomic.rs, publish).       *)
(* Writers of several processes publish the same path: an in-process lock, *)
(* an advisory file lock, a same-directory temporary created with          *)
(* create_new, a validation, and a rename onto a path that is still free.  *)
(* The retention of another process may remove the files of the directory  *)
(* one by one and then the directory (cache/retention.rs,                  *)
(* remove_directory), a process may die between any two steps, and a       *)
(* request may be cancelled or expire at any time.                         *)
(***************************************************************************)
EXTENDS Naturals, FiniteSets

CONSTANTS
  Writers,       \* calls of publish
  ProcOf,        \* the process each call runs in
  MaxTemp,       \* temporary names a writer tries (MAX_TEMP_ATTEMPTS)
  MaxRemoved,    \* bound: directories that retention empties and removes
  MaxFaults      \* bound: processes that die, calls cancelled or late, files that age

\* No writer is called like the owner of no file, or of one that a dead process left.
ASSUME PublishAssumption ==
  /\ MaxTemp \in Nat /\ MaxRemoved \in Nat
  /\ "none" \notin Writers /\ "dead" \notin Writers

VARIABLES
  dir,      \* identity of the directory now at the parent path
  final,    \* what is at the artifact's path
  temps,    \* the temporary files of the directory, by attempt
  active,   \* paths locked inside each process (ACTIVE_LOCKS)
  lockName, \* the lock file now under its name in the directory
  lock,     \* per lock file: the writers that hold it
  w,        \* per call: where it is, what it opened, its temporary, its outcome
  aborted,  \* calls whose cancellation or deadline has fired
  crashed,  \* processes that died
  swept,    \* the names of the directory that the retention pass has removed
  taken,    \* history: the writers whose artifact retention removed from the directory
  orphaned  \* history: the lock file was unlinked while a living call had it open

files == <<dir, final, temps, lockName>>
kept == <<taken, orphaned, swept>>
vars == <<files, active, lock, w, aborted, crashed, kept>>

Procs == {ProcOf[x] : x \in Writers}
None == "none"
Absent == [kind |-> "absent", by |-> None, whole |-> FALSE]
Symlink == [kind |-> "symlink", by |-> None, whole |-> FALSE]
File(x, whole) == [kind |-> "file", by |-> x, whole |-> whole]
NoTemp == [by |-> None, whole |-> FALSE, stale |-> FALSE]
Slots == 0 .. MaxTemp - 1
Dirs == 0 .. MaxRemoved
\* A lock file is named by the call that created it: each call opens one.
Locks == Writers \union {None, "dead"}

Idle == [pc |-> "idle", dir |-> 0, lock |-> None, slot |-> MaxTemp, outcome |-> None]

Init ==
  /\ dir = 0
  /\ final \in {Absent, Symlink}
  /\ lockName \in {None, "dead"}
  /\ temps = [s \in Slots |-> IF s = 0 /\ lockName = "dead" THEN [NoTemp EXCEPT !.by = "dead"] ELSE NoTemp]
  /\ active = [p \in Procs |-> {}]
  /\ lock = [f \in Locks |-> {}]
  /\ w = [x \in Writers |-> Idle]
  /\ aborted = {} /\ crashed = {}
  /\ taken = {} /\ orphaned = FALSE /\ swept = {}

Alive(x) == ProcOf[x] \notin crashed
At(x, pc) == Alive(x) /\ w[x].pc = pc
Step(x, pc) == w' = [w EXCEPT ![x].pc = pc]

\* Both guards and the temporary are dropped when the call returns: the file lock, the
\* in-process path, and the temporary that was not renamed (Drop of the three owners).
Return(x, outcome) ==
  /\ w' = [w EXCEPT ![x].pc = "done", ![x].outcome = outcome]
  /\ active' = [active EXCEPT ![ProcOf[x]] = @ \ {x}]
  /\ lock' = [f \in Locks |-> lock[f] \ {x}]
  /\ temps' = [s \in Slots |-> IF s = w[x].slot /\ w[x].dir = dir /\ outcome # "published"
                               THEN NoTemp ELSE temps[s]]

\* check_abort: a call that was cancelled or is late gives up at the next check.
Fails(x) ==
  /\ w[x].pc \in {"process", "file", "locked", "temp", "write", "inspect"} /\ Alive(x)
  /\ x \in aborted
  /\ Return(x, "aborted") /\ UNCHANGED <<dir, final, lockName, aborted, crashed, kept>>

\* Mutant: the locks are taken for granted.
FileLock_Skipped(x) ==
  /\ At(x, "file") /\ Step(x, "locked")
  /\ UNCHANGED <<files, active, lock, aborted, crashed, kept>>

\* The directory now at the parent path (every component a directory, none a symbolic link),
\* whether it is still the one the call opened, and who holds the lock file the call opened.
Parent == dir
Same(x) == w[x].dir = Parent
Holders(x) == lock[w[x].lock]

\* checked_parent: the directory is opened once, component by component, following no
\* symbolic link; every later operation goes through the handle.
Open(x) ==
  /\ At(x, "idle")
  /\ w' = [w EXCEPT ![x].pc = "process", ![x].dir = Parent]
  /\ UNCHANGED <<files, active, lock, aborted, crashed, kept>>

\* acquire_process_lock, bounded attempts and then LockContended; open_lock, which creates
\* the lock file when none has its name and fails in a removed directory.
LockToOpen(x) == IF lockName = None THEN x ELSE lockName
ProcessLock(x) ==
  /\ At(x, "process") /\ x \notin aborted
  /\ IF active[ProcOf[x]] = {} /\ Same(x)
     THEN /\ active' = [active EXCEPT ![ProcOf[x]] = {x}]
          /\ lockName' = LockToOpen(x)
          /\ w' = [w EXCEPT ![x].pc = "file", ![x].lock = LockToOpen(x)]
          /\ UNCHANGED <<lock, temps>>
     ELSE Return(x, IF active[ProcOf[x]] = {} THEN "error" ELSE "contended") /\ UNCHANGED lockName
  /\ UNCHANGED <<dir, final, aborted, crashed, kept>>

\* acquire_lock: bounded attempts on the file that was opened, whatever its name leads to now.
FileLock(x) ==
  /\ At(x, "file") /\ x \notin aborted
  /\ IF Holders(x) = {}
     THEN /\ lock' = [lock EXCEPT ![w[x].lock] = {x}]
          /\ Step(x, "locked") /\ UNCHANGED <<active, temps>>
     ELSE Return(x, "contended")
  /\ UNCHANGED <<dir, final, lockName, aborted, crashed, kept>>

\* cleanup_stale_temps removes the old temporaries of this artifact; an artifact that is
\* there already is left as it is.
InspectFinal(x) == IF ~Same(x) THEN Absent ELSE final
CleanupStaleTemps(x) ==
  [s \in Slots |-> IF Same(x) /\ temps[s].stale THEN NoTemp ELSE temps[s]]
Enter(x) ==
  /\ At(x, "locked") /\ x \notin aborted
  /\ IF InspectFinal(x).kind = "file"
     THEN /\ w' = [w EXCEPT ![x].pc = "done", ![x].outcome = "preserved"]
          /\ active' = [active EXCEPT ![ProcOf[x]] = @ \ {x}]
          /\ lock' = [f \in Locks |-> lock[f] \ {x}]
     ELSE Step(x, "temp") /\ UNCHANGED <<active, lock>>
  /\ temps' = CleanupStaleTemps(x)
  /\ UNCHANGED <<dir, final, lockName, aborted, crashed, kept>>

\* create_temporary: the first name of the prefix that create_new accepts; create_new in a
\* removed directory fails.
Free(x) == {s \in Slots : temps[s] = NoTemp /\ Same(x)}
CreateTemporary(x) ==
  /\ At(x, "temp") /\ x \notin aborted
  /\ IF Free(x) = {} THEN Return(x, "error")
     ELSE \E s \in Free(x) :
             /\ \A t \in Free(x) : s <= t
             /\ temps' = [temps EXCEPT ![s] = [NoTemp EXCEPT !.by = x]]
             /\ w' = [w EXCEPT ![x].pc = "write", ![x].slot = s]
             /\ UNCHANGED <<active, lock>>
  /\ UNCHANGED <<dir, final, lockName, aborted, crashed, kept>>

\* write_all, flush, sync_all through the handle, then the caller's validation and the
\* regular-file check, both by name; an I/O error or a refused validation returns.
Written(x) ==
  [s \in Slots |-> IF s = w[x].slot /\ temps[s].by = x
                   THEN [temps[s] EXCEPT !.whole = TRUE, !.stale = FALSE] ELSE temps[s]]
Write(x) ==
  /\ At(x, "write") /\ x \notin aborted
  /\ \/ /\ Same(x) /\ temps[w[x].slot] # NoTemp
        /\ temps' = Written(x)
        /\ Step(x, "inspect") /\ UNCHANGED <<active, lock>>
     \/ Return(x, "error")
  /\ UNCHANGED <<dir, final, lockName, aborted, crashed, kept>>

\* The file is closed, the parent compared with the one opened, and the path inspected
\* once more: a file there wins, a stale symbolic link is unlinked.
Inspect(x) ==
  /\ At(x, "inspect") /\ x \notin aborted
  /\ CASE ~Same(x) -> Return(x, "error") /\ UNCHANGED final
       [] Same(x) /\ final.kind = "file" -> Return(x, "preserved") /\ UNCHANGED final
       [] OTHER -> final' = Absent /\ Step(x, "rename") /\ UNCHANGED <<active, lock, temps>>
  /\ UNCHANGED <<dir, lockName, aborted, crashed, kept>>

\* The rename through the handle of whatever has the temporary's name; the temporary is
\* disarmed. In a removed directory, or when nothing has the name, it fails.
Rename(x) ==
  /\ At(x, "rename")
  /\ LET mine == temps[w[x].slot]
     IN IF Same(x) /\ mine # NoTemp
        THEN /\ final' = File(mine.by, mine.whole)
             /\ temps' = [temps EXCEPT ![w[x].slot] = NoTemp]
             /\ w' = [w EXCEPT ![x].pc = "done", ![x].outcome = "published"]
             /\ active' = [active EXCEPT ![ProcOf[x]] = @ \ {x}]
             /\ lock' = [f \in Locks |-> lock[f] \ {x}]
        ELSE Return(x, "error") /\ UNCHANGED final
  /\ UNCHANGED <<dir, lockName, aborted, crashed, kept>>

\* The retention of a process whose leases cover none of these calls (prune_at, remove_entry):
\* inspect_tree refuses a tree with a symbolic link. remove_directory goes through the children
\* in the order of read_dir, which may show a file made meanwhile or not: the artifact, a
\* temporary, the lock file, each name once. A child that has vanished or cannot be removed ends
\* the pass half way: it takes no further step.
Sweeping == dir < MaxRemoved /\ final # Symlink
Sweeps(name) == Sweeping /\ name \notin swept /\ swept' = swept \union {name}
SweepFinal ==
  /\ Sweeps(<<"artifact", 0>>) /\ final.kind = "file"
  /\ final' = Absent /\ taken' = taken \union {final.by}
  /\ UNCHANGED <<dir, temps, lockName, active, lock, w, aborted, crashed, orphaned>>
SweepTemp(s) ==
  /\ Sweeps(<<"temporary", s>>) /\ temps[s] # NoTemp
  /\ temps' = [temps EXCEPT ![s] = NoTemp]
  /\ UNCHANGED <<dir, final, lockName, active, lock, w, aborted, crashed, taken, orphaned>>
Opened(x) == Alive(x) /\ w[x].lock = lockName /\ w[x].pc \notin {"idle", "process", "done"}
SweepLock ==
  /\ Sweeps(<<"lock", 0>>) /\ lockName # None
  /\ lockName' = None
  /\ orphaned' = (orphaned \/ \E x \in Writers : Opened(x))
  /\ UNCHANGED <<dir, final, temps, active, lock, w, aborted, crashed, taken>>

\* remove_dir of the empty directory; publish_pages makes another one (ensure_directory).
SweepDirectory ==
  /\ Sweeping
  /\ final = Absent /\ lockName = None /\ \A s \in Slots : temps[s] = NoTemp
  /\ dir' = dir + 1
  /\ taken' = {} /\ orphaned' = FALSE /\ swept' = {}
  /\ UNCHANGED <<final, temps, lockName, active, lock, w, aborted, crashed>>

\* The environment: cancellations and deadlines, time, and the death of a process (the system
\* drops its file locks).
Faults ==
  Cardinality(aborted) + Cardinality(crashed) + Cardinality({s \in Slots : temps[s].stale})
Abort(x) ==
  /\ Alive(x) /\ w[x].pc \notin {"idle", "rename", "done"}   \* a check is still to come
  /\ x \notin aborted /\ Faults < MaxFaults
  /\ aborted' = aborted \union {x} /\ UNCHANGED <<files, active, lock, w, crashed, kept>>
Age(s) ==
  /\ temps[s] # NoTemp /\ ~temps[s].stale /\ Faults < MaxFaults
  /\ temps' = [temps EXCEPT ![s].stale = TRUE]
  /\ UNCHANGED <<dir, final, lockName, active, lock, w, aborted, crashed, kept>>
Crash(p) ==
  /\ p \notin crashed /\ Faults < MaxFaults
  /\ \E x \in Writers : ProcOf[x] = p /\ w[x].pc \notin {"idle", "done"}
  /\ crashed' = crashed \union {p}
  /\ lock' = [f \in Locks |-> {x \in lock[f] : ProcOf[x] # p}]
  /\ UNCHANGED <<files, active, w, aborted, kept>>

Next ==
  \/ \E x \in Writers :
       Open(x) \/ ProcessLock(x) \/ FileLock(x) \/ Enter(x) \/ CreateTemporary(x)
         \/ Write(x) \/ Inspect(x) \/ Rename(x) \/ Fails(x) \/ Abort(x)
  \/ \E s \in Slots : Age(s) \/ SweepTemp(s)
  \/ \E p \in Procs : Crash(p)
  \/ SweepFinal \/ SweepLock \/ SweepDirectory

Spec == Init /\ [][Next]_vars

(* What publish answers is what is on disk: whoever was told "published" finds its own,   *)
(* fully written artifact, whoever was told "preserved" finds a complete one of another   *)
(* writer, unless retention has removed that artifact since; nobody's artifact is ever a  *)
(* half-written file, and a call that returned leaves no temporary behind - across        *)
(* crashes, stale temporaries, races of two processes and a retention pass that removes   *)
(* the directory child by child or stops half way.  All but the last clause is claimed    *)
(* only while no pass has unlinked the lock file under a living call: a second writer     *)
(* then locks a fresh file, and the first may rename the second's half-written temporary. *)
ArtifactIsWhole ==
  /\ \A x \in Writers :
       w[x].pc = "done" /\ w[x].dir = dir => \A s \in Slots : temps[s].by # x
  /\ ~orphaned =>
       /\ final.kind = "file" => final.whole /\ final.by \in Writers
       /\ \A x \in Writers :
            w[x].pc = "done" /\ w[x].dir = dir =>
              /\ w[x].outcome = "published" => x \in taken \/ final = File(x, TRUE)
              /\ w[x].outcome = "preserved" =>
                   \E y \in Writers \ {x} : y \in taken \/ final = File(y, TRUE)
=============================================================================
