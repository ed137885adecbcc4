------------------------------ MODULE GateLease ------------------------------
(***************************************************************************)
(* The cross-process leases of the compiler gate (gate/lease.rs) as        *)
(* execute_job of gate/scheduler.rs uses them: a job first takes the lease *)
(* of its worktree, then one of the host slots, runs, and gives both back  *)
(* in the opposite order.                                                  *)
(*                                                                         *)
(* A lease is a file made with create_new and filled with a record (pid,   *)
(* token) afterwards.  A job that finds the file inspects it and removes   *)
(* it when its owner is dead, or when it holds no record and is old.  The  *)
(* inspection is a stat, a read and an unlink of the path: three steps     *)
(* between which the path may come to name another file.                   *)
(***************************************************************************)
EXTENDS Naturals, FiniteSets

CONSTANTS
    Jobs,        \* gate jobs, of all server processes
    Processes,   \* server processes
    Proc,        \* Proc[j] is the process of job j
    Roots,       \* worktrees
    Root,        \* Root[j] is the worktree of job j
    NSlots,      \* gate.host_concurrency
    MaxFaults,   \* bound on crashes and failed record writes
    Stalls,      \* may a job be suspended for STALE_RECORD_AGE inside a write
    Nobody       \* the owner of a file that does not exist

ASSUME GateLeaseAssumption ==
    /\ Proc \in [Jobs -> Processes]
    /\ Root \in [Jobs -> Roots]
    /\ NSlots \in Nat \ {0}
    /\ MaxFaults \in Nat
    /\ Stalls \in BOOLEAN
    /\ Nobody \notin Jobs

VARIABLES
    pc,      \* where job j is
    phase,   \* which lease job j is concerned with
    slot,    \* the host slot job j looks at (acquire_host_slot's index)
    file,    \* the lease files
    sawOld,  \* what job j's stat said about the age of the file
    dead,    \* processes that have crashed
    faults,  \* how many crashes and failed writes there were
    probe    \* can process_is_alive tell a dead process (it can on Linux only)

vars == <<pc, phase, slot, file, sawOld, dead, faults, probe>>

Slots == 0 .. NSlots - 1
Paths == ({"worktree"} \X Roots) \cup ({"host"} \X Slots)

\* safe_key maps distinct keys to distinct file names.
Path(j) == IF phase[j] = "worktree" THEN <<"worktree", Root[j]>> ELSE <<"host", slot[j]>>

\* torn (history): the record is whole, but sync_all failed and there is no Lease.
FileRecord == [by : Jobs \cup {Nobody}, written : BOOLEAN, old : BOOLEAN, torn : BOOLEAN]
NoFile == [by |-> Nobody, written |-> FALSE, old |-> FALSE, torn |-> FALSE]
NewFile(j) == [by |-> j, written |-> FALSE, old |-> FALSE, torn |-> FALSE]
FullFile(j) == [by |-> j, written |-> TRUE, old |-> FALSE, torn |-> FALSE]
TornFile(j) == [by |-> j, written |-> TRUE, old |-> FALSE, torn |-> TRUE]

Exists(p) == file[p].by # Nobody

Init ==
    /\ pc = [j \in Jobs |-> "create"]
    /\ phase = [j \in Jobs |-> "worktree"]
    /\ slot = [j \in Jobs |-> 0]
    /\ file = [p \in Paths |-> NoFile]
    /\ sawOld = [j \in Jobs |-> FALSE]
    /\ dead = {}
    /\ faults = 0
    /\ probe \in BOOLEAN

-----------------------------------------------------------------------------
(* Acquisition                                                             *)

\* create_lease_file, first half: OpenOptions::create_new.
Create(j) ==
    /\ pc[j] = "create"
    /\ IF Exists(Path(j))
       THEN /\ pc' = [pc EXCEPT ![j] = "stat"]
            /\ UNCHANGED file
       ELSE /\ pc' = [pc EXCEPT ![j] = "write"]
            /\ file' = [file EXCEPT ![Path(j)] = NewFile(j)]
    /\ UNCHANGED <<phase, slot, sawOld, dead, faults, probe>>

\* create_lease_file, second half.  The record goes to the file that was
\* opened, which the path names only while nobody has removed it.
WriteRecord(j) ==
    /\ pc[j] = "write"
    /\ file' = [file EXCEPT ![Path(j)] = IF @.by = j THEN FullFile(j) ELSE @]
    /\ IF phase[j] = "worktree"
       THEN /\ phase' = [phase EXCEPT ![j] = "host"]
            /\ slot' = [slot EXCEPT ![j] = 0]
            /\ pc' = [pc EXCEPT ![j] = "create"]
       ELSE /\ pc' = [pc EXCEPT ![j] = "run"]
            /\ UNCHANGED <<phase, slot>>
    /\ UNCHANGED <<sawOld, dead, faults, probe>>

\* Where an acquisition that ends without a lease leaves the job: execute_job
\* drops the worktree lease when it fails to get a host slot.
GiveUp(j) ==
    IF phase[j] = "worktree"
    THEN pc' = [pc EXCEPT ![j] = "done"] /\ UNCHANGED phase
    ELSE pc' = [pc EXCEPT ![j] = "relread"] /\ phase' = [phase EXCEPT ![j] = "worktree"]

\* An I/O error: write_all fails and a file without a record stays behind,
\* or sync_all fails and the whole record stays, of a process that lives and
\* has no Lease for it.
WriteFails(j) ==
    /\ pc[j] = "write"
    /\ faults < MaxFaults
    /\ faults' = faults + 1
    /\ \/ UNCHANGED file
       \/ file' = [file EXCEPT ![Path(j)] = IF @.by = j THEN TornFile(j) ELSE @]
    /\ GiveUp(j)
    /\ UNCHANGED <<slot, sawOld, dead, probe>>

\* After a look at an occupied path: the next host slot, or the poll sleep.
NextTry(j) ==
    IF phase[j] = "host" /\ slot[j] + 1 < NSlots
    THEN pc' = [pc EXCEPT ![j] = "create"] /\ slot' = [slot EXCEPT ![j] = @ + 1]
    ELSE pc' = [pc EXCEPT ![j] = "poll"] /\ slot' = [slot EXCEPT ![j] = 0]

\* reclaim_dead_lease: symlink_metadata of the path.
Stat(j) ==
    /\ pc[j] = "stat"
    /\ IF Exists(Path(j))
       THEN /\ sawOld' = [sawOld EXCEPT ![j] = file[Path(j)].old]
            /\ pc' = [pc EXCEPT ![j] = "read"]
            /\ UNCHANGED slot
       ELSE NextTry(j) /\ UNCHANGED sawOld
    /\ UNCHANGED <<phase, file, dead, faults, probe>>

\* Mutant: a missing /proc entry is not needed to call an owner dead.
ReclaimableAlways(j, f) == f.written \/ sawOld[j]

\* Mutant: a file without a record is not looked at for its age.
ReclaimableRecord(j, f) == f.written /\ probe /\ Proc[f.by] \in dead

\* A record is judged by the liveness of its pid, a file without one by its
\* age.  Without a probe every owner counts as alive.
Reclaimable(j, f) == IF f.written THEN probe /\ Proc[f.by] \in dead ELSE sawOld[j]

\* reclaim_dead_lease: open and read the path, judge what was read.
Read(j) ==
    /\ pc[j] = "read"
    /\ IF Exists(Path(j)) /\ Reclaimable(j, file[Path(j)])
       THEN pc' = [pc EXCEPT ![j] = "remove"] /\ UNCHANGED slot
       ELSE NextTry(j)
    /\ UNCHANGED <<phase, file, sawOld, dead, faults, probe>>

\* reclaim_dead_lease: remove_file removes whatever the path names by now.
Remove(j) ==
    /\ pc[j] = "remove"
    /\ file' = [file EXCEPT ![Path(j)] = NoFile]
    /\ NextTry(j)
    /\ UNCHANGED <<phase, sawOld, dead, faults, probe>>

Poll(j) ==
    /\ pc[j] = "poll"
    /\ pc' = [pc EXCEPT ![j] = "create"]
    /\ UNCHANGED <<phase, slot, file, sawOld, dead, faults, probe>>

\* Cancellation or the deadline: looked at on top of the loop of
\* acquire_lease, only after a round over all slots in acquire_host_slot.
Abandon(j) ==
    /\ \/ pc[j] = "poll"
       \/ pc[j] = "create" /\ phase[j] = "worktree"
    /\ GiveUp(j)
    /\ UNCHANGED <<slot, file, sawOld, dead, faults, probe>>

-----------------------------------------------------------------------------
(* Running and releasing                                                   *)

\* The work ends, or a cancelled or late job skips it: drop(host_lease).
EndRun(j) ==
    /\ pc[j] = "run"
    /\ pc' = [pc EXCEPT ![j] = "relread"]
    /\ UNCHANGED <<phase, slot, file, sawOld, dead, faults, probe>>

\* After the host slot the worktree lease is dropped.
Released(j) ==
    IF phase[j] = "host"
    THEN pc' = [pc EXCEPT ![j] = "relread"] /\ phase' = [phase EXCEPT ![j] = "worktree"]
    ELSE pc' = [pc EXCEPT ![j] = "done"] /\ UNCHANGED phase

\* Mutant: the comparison of the token is the wrong way round.
ReleaseReadInverted(j) ==
    /\ pc[j] = "relread"
    /\ IF file[Path(j)].written /\ file[Path(j)].by # j
       THEN pc' = [pc EXCEPT ![j] = "relremove"] /\ UNCHANGED phase
       ELSE Released(j)
    /\ UNCHANGED <<slot, file, sawOld, dead, faults, probe>>

\* Lease::release: only a file with the job's own pid and token is removed.
ReleaseRead(j) ==
    /\ pc[j] = "relread"
    /\ IF file[Path(j)].written /\ file[Path(j)].by = j
       THEN pc' = [pc EXCEPT ![j] = "relremove"] /\ UNCHANGED phase
       ELSE Released(j)
    /\ UNCHANGED <<slot, file, sawOld, dead, faults, probe>>

ReleaseRemove(j) ==
    /\ pc[j] = "relremove"
    /\ file' = [file EXCEPT ![Path(j)] = NoFile]
    /\ Released(j)
    /\ UNCHANGED <<slot, sawOld, dead, faults, probe>>

-----------------------------------------------------------------------------
(* The environment                                                         *)

\* A server process dies; its lease files stay.
Crash(p) ==
    /\ p \notin dead
    /\ faults < MaxFaults
    /\ faults' = faults + 1
    /\ dead' = dead \cup {p}
    /\ pc' = [j \in Jobs |-> IF Proc[j] = p /\ pc[j] # "done" THEN "dead" ELSE pc[j]]
    /\ UNCHANGED <<phase, slot, file, sawOld, probe>>

\* An empty file gets older than STALE_RECORD_AGE.  Its writer is gone, or
\* it has been suspended for that long between its two system calls.
Age(p) ==
    /\ Exists(p) /\ ~file[p].written /\ ~file[p].old
    /\ file' = [file EXCEPT ![p].old = TRUE]
    /\ pc[file[p].by] = "write" /\ Path(file[p].by) = p => Stalls
    /\ UNCHANGED <<pc, phase, slot, sawOld, dead, faults, probe>>

-----------------------------------------------------------------------------

Step(j) ==
    \/ Create(j) \/ WriteRecord(j)
    \/ Stat(j) \/ Read(j) \/ Remove(j) \/ Poll(j)
    \/ EndRun(j) \/ ReleaseRead(j) \/ ReleaseRemove(j)

Settled(j) == pc[j] \in {"done", "dead"}

AllSettled == (\A j \in Jobs : Settled(j)) /\ UNCHANGED vars

Next ==
    \/ \E j \in Jobs : Step(j) \/ Abandon(j) \/ WriteFails(j)
    \/ \E p \in Processes : Crash(p)
    \/ \E p \in Paths : Age(p)
    \/ AllSettled

(***************************************************************************)
(* Fairness: tokio polls every job, the work of a job ends at the latest   *)
(* at its hard timeout, and time passes.  Deadlines and cancellations of   *)
(* waiting jobs are not promised, so liveness does not lean on them.       *)
(***************************************************************************)
Fairness ==
    /\ \A j \in Jobs : WF_vars(Step(j))
    /\ \A p \in Paths : WF_vars(Age(p))

Spec == Init /\ [][Next]_vars /\ Fairness

-----------------------------------------------------------------------------
(* Properties                                                              *)

Stages == {"create", "write", "stat", "read", "remove", "poll", "run",
           "relread", "relremove", "done", "dead"}

\* Every variable has its type, and the slot index stays within the slots.
TypeOK ==
    /\ pc \in [Jobs -> Stages]
    /\ phase \in [Jobs -> {"worktree", "host"}]
    /\ slot \in [Jobs -> Slots]
    /\ file \in [Paths -> FileRecord]
    /\ sawOld \in [Jobs -> BOOLEAN]
    /\ dead \subseteq Processes
    /\ faults \in 0 .. MaxFaults
    /\ probe \in BOOLEAN

\* A job has its worktree lease from the return of acquire_lease until it
\* starts to drop it, and its host slot while it runs.
HasWorktree(j) == phase[j] = "host" /\ pc[j] # "dead"
HasSlot(j) == pc[j] = "run"

\* A lease is process-safe (the doc comment of Lease): no two live jobs have
\* the lease of one worktree, and no two running jobs have the same host slot.
MutualExclusion ==
    \A i, j \in Jobs : i # j =>
        /\ HasWorktree(i) /\ HasWorktree(j) => Root[i] # Root[j]
        /\ HasSlot(i) /\ HasSlot(j) => slot[i] # slot[j]

\* Until a process dies or a record cannot be written, no interleaving of
\* creating, polling, inspecting, giving up and releasing breaks exclusion.
\* (After that the race of two reclaimers does: run lease_reclaim.)
ExclusionWithoutFaults == faults = 0 => MutualExclusion

\* No order of waiting, giving up and releasing leaves a lease file of a live
\* process behind without a job that will remove it (a fault-free run).
NoOrphanFile ==
    faults = 0 => \A p \in Paths : Exists(p) => ~Settled(file[p].by)

\* The job of the file has ended, by itself or with its process.
Left(p) == Exists(p) /\ Settled(file[p].by)

\* A record that nobody can remove: its process lives but has no Lease for it,
\* or is dead and cannot be told from one that lives ("Manual recovery may be
\* required", process_is_alive).
Stranded(p) ==
    /\ Left(p) /\ file[p].written
    /\ IF Proc[file[p].by] \in dead THEN ~probe ELSE file[p].torn

\* What no waiting helps against: the job's worktree, or every host slot.
Blocked(j) == Stranded(<<"worktree", Root[j]>>) \/ \A s \in Slots : Stranded(<<"host", s>>)

\* Jobs that wait for each other's leases never wait for ever: every job gets
\* its turn without the help of a deadline, whatever dies or fails on the way,
\* unless it comes to wait for a stranded lease (acquire_lease,
\* acquire_host_slot).
EveryJobSettles == \A j \in Jobs : []<>(Settled(j) \/ Blocked(j))

\* A job that still looks at the path when it finds it occupied.
Asks(j, p) == ~Settled(j) /\ Path(j) = p /\ pc[j] \in {"create", "stat", "read", "remove", "poll"}

\* What a dead or failed job left on a worktree does not outlast the asking,
\* whatever else is stranded: a record whose owner is found dead, and a file
\* without a record once it is old, are removed (reclaim_dead_lease).
DeadLeaseReclaimed ==
    \A r \in Roots : LET p == <<"worktree", r>>
                     IN []<>~(Left(p) /\ ~Stranded(p) /\ \E j \in Jobs : Asks(j, p))

=============================================================================
