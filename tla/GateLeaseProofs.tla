--------------------------- MODULE GateLeaseProofs ---------------------------
(***************************************************************************)
(* Until the first crash or failed record write, and without ten-second    *)
(* stalls, the leases exclude each other, for every number of jobs,        *)
(* processes, worktrees and host slots.  (After a crash they do not: see   *)
(* the run lease_reclaim.)                                                 *)
(***************************************************************************)
EXTENDS GateLease, TLAPS

NoStalls == Stalls = FALSE

WorktreeOf(j) == <<"worktree", Root[j]>>
SlotOf(j) == <<"host", slot[j]>>

Releasing(j) == pc[j] \in {"relread", "relremove"}

\* A job that has a lease owns the file of the lease, record and all; a job
\* between the two halves of create_lease_file owns an empty one.
OwnerHasFile ==
    \A j \in Jobs :
        /\ pc[j] = "write" => file[Path(j)] = NewFile(j)
        /\ phase[j] = "host" \/ Releasing(j) => file[WorktreeOf(j)] = FullFile(j)
        /\ phase[j] = "host" /\ (pc[j] = "run" \/ Releasing(j)) => file[SlotOf(j)] = FullFile(j)
        /\ pc[j] = "run" => phase[j] = "host"
        /\ phase[j] = "host" => pc[j] # "done"

\* Every file belongs to a job that is still concerned with it: an empty one
\* to a job about to write its record, a full one to a job that has not
\* started its work or not finished its release.
FileHasOwner ==
    \A p \in Paths : Exists(p) =>
        IF file[p].written
        THEN \/ p = WorktreeOf(file[p].by) /\ (phase[file[p].by] = "host" \/ Releasing(file[p].by))
             \/ /\ p = SlotOf(file[p].by)
                /\ phase[file[p].by] = "host"
                /\ pc[file[p].by] = "run" \/ Releasing(file[p].by)
        ELSE pc[file[p].by] = "write" /\ p = Path(file[p].by)

\* Nothing is dead or old, so nobody is about to remove a foreign file.
NothingStale ==
    /\ dead = {} /\ faults = 0
    /\ \A p \in Paths : ~file[p].old
    /\ \A j \in Jobs : ~sawOld[j] /\ pc[j] \notin {"remove", "dead"}

IInv == TypeOK /\ OwnerHasFile /\ FileHasOwner /\ NothingStale

\* What is inductive: all of that as long as no fault has happened.
UntilFault == faults \in Nat /\ (faults = 0 => IInv)

-----------------------------------------------------------------------------

\* The two kinds of lease have different paths.
LEMMA PathTypes ==
    ASSUME TypeOK, NEW j \in Jobs
    PROVE  /\ WorktreeOf(j) \in Paths /\ SlotOf(j) \in Paths /\ Path(j) \in Paths
           /\ Path(j) = IF phase[j] = "worktree" THEN WorktreeOf(j) ELSE SlotOf(j)
           /\ \A i \in Jobs : WorktreeOf(j) # SlotOf(i)
  BY GateLeaseAssumption DEF TypeOK, Path, WorktreeOf, SlotOf, Paths

\* The three things a path can name.
LEMMA Files ==
    /\ NoFile \in FileRecord /\ NoFile.by = Nobody /\ ~NoFile.old
    /\ \A j \in Jobs :
          /\ NewFile(j) \in FileRecord /\ NewFile(j).by = j
          /\ ~NewFile(j).written /\ ~NewFile(j).old
          /\ FullFile(j) \in FileRecord /\ FullFile(j).by = j
          /\ FullFile(j).written /\ ~FullFile(j).old
  BY GateLeaseAssumption DEF NoFile, NewFile, FullFile, FileRecord

\* Initially there is no file.
LEMMA InitUntilFault == Init => UntilFault
  BY GateLeaseAssumption
  DEF UntilFault, Init, IInv, TypeOK, OwnerHasFile, FileHasOwner, NothingStale, Exists, NoFile,
      FileRecord, Stages, Slots, Releasing

-----------------------------------------------------------------------------

\* A job that looks at an occupied path moves on to the next slot or to the
\* poll sleep; it holds no lease on that path and keeps what it holds.
LEMMA MovesOn ==
    ASSUME IInv, NEW j \in Jobs, pc[j] \in {"stat", "read"}, NextTry(j),
           UNCHANGED <<phase, file, dead, faults, probe>>, sawOld' = sawOld
    PROVE  IInv'
  <1>. USE GateLeaseAssumption DEF IInv
  <1>1. TypeOK'
    BY DEF TypeOK, NextTry, Stages, Slots
  <1>2. OwnerHasFile'
    BY PathTypes DEF TypeOK, OwnerHasFile, NextTry, Path, WorktreeOf, SlotOf, Releasing, NewFile, FullFile
  <1>3. FileHasOwner'
    BY PathTypes DEF TypeOK, OwnerHasFile, FileHasOwner, NextTry, Path, WorktreeOf, SlotOf, Releasing,
       Exists, FileRecord
  <1>4. NothingStale'
    BY DEF TypeOK, NothingStale, NextTry
  <1>. QED BY <1>1, <1>2, <1>3, <1>4

\* A job whose acquisition ends without a lease drops the worktree lease it
\* may have.
LEMMA GivesUp ==
    ASSUME IInv, NEW j \in Jobs, pc[j] \in {"create", "poll"}, GiveUp(j),
           UNCHANGED <<slot, file, sawOld, dead, faults, probe>>
    PROVE  IInv'
  <1>. USE GateLeaseAssumption DEF IInv
  <1>1. TypeOK'
    BY DEF TypeOK, GiveUp, Stages
  <1>2. OwnerHasFile'
    BY PathTypes DEF TypeOK, OwnerHasFile, GiveUp, Path, WorktreeOf, SlotOf, Releasing, NewFile, FullFile
  <1>3. FileHasOwner'
    BY PathTypes DEF TypeOK, OwnerHasFile, FileHasOwner, GiveUp, Path, WorktreeOf, SlotOf, Releasing,
       Exists, FileRecord
  <1>4. NothingStale'
    BY DEF TypeOK, NothingStale, GiveUp
  <1>. QED BY <1>1, <1>2, <1>3, <1>4

\* create_new on a free path makes the job its owner; on an occupied path it
\* only sends the job to look at the file.
LEMMA CreateStep ==
    ASSUME IInv, NEW j \in Jobs, Create(j)
    PROVE  IInv'
  <1>. USE GateLeaseAssumption, Files DEF IInv
  <1>0. Path(j) \in Paths /\ pc[j] = "create" /\ UNCHANGED <<phase, slot, sawOld, dead, faults, probe>>
    BY PathTypes DEF Create
  <1>2. CASE Exists(Path(j))
    <2>1. pc' = [pc EXCEPT ![j] = "stat"] /\ file' = file
      BY <1>2 DEF Create
    <2>2. TypeOK'
      BY <1>0, <2>1 DEF TypeOK, Stages
    <2>3. OwnerHasFile'
      BY <1>0, <2>1 DEF TypeOK, OwnerHasFile, Path, WorktreeOf, SlotOf, Releasing
    <2>4. FileHasOwner'
      BY <1>0, <2>1 DEF TypeOK, FileHasOwner, Path, WorktreeOf, SlotOf, Releasing, Exists, FileRecord
    <2>5. NothingStale'
      BY <1>0, <2>1 DEF TypeOK, NothingStale
    <2>. QED BY <2>2, <2>3, <2>4, <2>5
  <1>3. CASE ~Exists(Path(j))
    <2>1. /\ file' = [file EXCEPT ![Path(j)] = NewFile(j)]
          /\ pc' = [pc EXCEPT ![j] = "write"]
      BY <1>3 DEF Create
    <2>2. file[Path(j)].by = Nobody
      BY <1>3 DEF Exists
    <2>3. ASSUME NEW p \in Paths, p # Path(j) PROVE file'[p] = file[p]
      BY <2>1, <2>3 DEF TypeOK
    <2>4. file'[Path(j)] = NewFile(j)
      BY <2>1, <1>0 DEF TypeOK
    <2>5. OwnerHasFile'
      <3>1. SUFFICES ASSUME NEW i \in Jobs
                     PROVE  /\ pc'[i] = "write" => file'[Path(i)'] = NewFile(i)
                            /\ phase[i] = "host" \/ Releasing(i)' => file'[WorktreeOf(i)] = FullFile(i)
                            /\ phase[i] = "host" /\ (pc'[i] = "run" \/ Releasing(i)')
                                  => file'[SlotOf(i)] = FullFile(i)
                            /\ pc'[i] = "run" => phase[i] = "host"
                            /\ phase[i] = "host" => pc'[i] # "done"
        BY <1>0 DEF OwnerHasFile, SlotOf, WorktreeOf
      <3>2. Path(i)' = Path(i) /\ Path(i) \in Paths /\ WorktreeOf(i) \in Paths /\ SlotOf(i) \in Paths
        BY <1>0, PathTypes DEF Path
      <3>3. CASE i = j
        BY <3>2, <3>3, <1>0, <2>1, <2>2, <2>3, <2>4 DEF TypeOK, OwnerHasFile, Releasing
      <3>4. CASE i # j
        BY <3>2, <3>4, <1>0, <2>1, <2>2, <2>3 DEF TypeOK, OwnerHasFile, Releasing
      <3>. QED BY <3>3, <3>4
    <2>6. FileHasOwner'
      BY <1>0, <2>1, <2>3, <2>4, PathTypes
      DEF TypeOK, FileHasOwner, Path, WorktreeOf, SlotOf, Releasing, Exists, FileRecord
    <2>7. NothingStale'
      BY <1>0, <2>1, <2>3, <2>4 DEF TypeOK, NothingStale
    <2>8. TypeOK'
      BY <1>0, <2>1 DEF TypeOK, Stages
    <2>. QED BY <2>5, <2>6, <2>7, <2>8
  <1>. QED BY <1>2, <1>3

\* Writing the record turns the empty file into the lease.
LEMMA WriteStep ==
    ASSUME IInv, NEW j \in Jobs, WriteRecord(j)
    PROVE  IInv'
  <1>. USE GateLeaseAssumption, Files DEF IInv
  <1>0. Path(j) \in Paths /\ pc[j] = "write" /\ UNCHANGED <<sawOld, dead, faults, probe>>
    BY PathTypes DEF WriteRecord
  <1>1. file[Path(j)] = NewFile(j)
    BY <1>0 DEF OwnerHasFile
  <1>2. file' = [file EXCEPT ![Path(j)] = FullFile(j)]
    BY <1>0, <1>1 DEF WriteRecord, TypeOK
  <1>3. ASSUME NEW p \in Paths, p # Path(j) PROVE file'[p] = file[p]
    BY <1>2, <1>3 DEF TypeOK
  <1>4. file'[Path(j)] = FullFile(j)
    BY <1>2, <1>0 DEF TypeOK
  <1>b. ASSUME NEW i \in Jobs
        PROVE  /\ i # j => pc'[i] = pc[i] /\ phase'[i] = phase[i] /\ slot'[i] = slot[i]
               /\ phase[j] = "worktree" => phase'[j] = "host" /\ pc'[j] = "create"
               /\ phase[j] = "host" => phase'[j] = "host" /\ pc'[j] = "run" /\ slot'[j] = slot[j]
    BY DEF WriteRecord, TypeOK
  <1>5. TypeOK'
    <2>1. pc' \in [Jobs -> Stages] /\ phase' \in [Jobs -> {"worktree", "host"}] /\ slot' \in [Jobs -> Slots]
      BY DEF WriteRecord, TypeOK, Stages, Slots
    <2>. QED BY <1>0, <1>2, <2>1 DEF TypeOK
  <1>6. OwnerHasFile'
    <2>. SUFFICES ASSUME NEW i \in Jobs
                  PROVE  (/\ pc[i] = "write" => file[Path(i)] = NewFile(i)
                          /\ phase[i] = "host" \/ Releasing(i) => file[WorktreeOf(i)] = FullFile(i)
                          /\ phase[i] = "host" /\ (pc[i] = "run" \/ Releasing(i)) => file[SlotOf(i)] = FullFile(i)
                          /\ pc[i] = "run" => phase[i] = "host"
                          /\ phase[i] = "host" => pc[i] # "done")'
      BY DEF OwnerHasFile
    <2>1. CASE i = j
      BY <2>1, <1>0, <1>1, <1>3, <1>4, <1>b, <1>5, PathTypes
      DEF TypeOK, OwnerHasFile, Releasing, Path, WorktreeOf, SlotOf
    <2>2. CASE i # j
      <3>1. Path(i)' = Path(i) /\ WorktreeOf(i)' = WorktreeOf(i) /\ SlotOf(i)' = SlotOf(i)
        BY <2>2, <1>b DEF Path, WorktreeOf, SlotOf
      <3>2. Path(i) \in Paths /\ WorktreeOf(i) \in Paths /\ SlotOf(i) \in Paths
        BY PathTypes
      <3>. QED BY <2>2, <3>1, <3>2, <1>1, <1>3, <1>b DEF OwnerHasFile, Releasing
    <2>. QED BY <2>1, <2>2
  <1>7. FileHasOwner'
    <2>. SUFFICES ASSUME NEW p \in Paths, Exists(p)'
                  PROVE  (IF file[p].written
                          THEN \/ /\ p = WorktreeOf(file[p].by)
                                  /\ phase[file[p].by] = "host" \/ Releasing(file[p].by)
                               \/ /\ p = SlotOf(file[p].by)
                                  /\ phase[file[p].by] = "host"
                                  /\ pc[file[p].by] = "run" \/ Releasing(file[p].by)
                          ELSE pc[file[p].by] = "write" /\ p = Path(file[p].by))'
      BY DEF FileHasOwner
    <2>1. CASE p = Path(j)
      BY <2>1, <1>0, <1>4, <1>b, PathTypes DEF TypeOK, Releasing, Path, WorktreeOf, SlotOf
    <2>2. CASE p # Path(j)
      <3>1. file'[p] = file[p] /\ Exists(p) /\ file[p].by \in Jobs
        BY <2>2, <1>3 DEF Exists, TypeOK, FileRecord
      <3>2. CASE file[p].by = j
        <4>1. /\ file[p].written
              /\ p = WorktreeOf(j) /\ phase[j] = "host"
          BY <3>1, <3>2, <2>2, <1>0 DEF FileHasOwner, Releasing
        <4>. QED BY <3>1, <3>2, <4>1, <1>b DEF WorktreeOf
      <3>3. CASE file[p].by # j
        BY <3>1, <3>3, <1>b DEF FileHasOwner, Releasing, Path, WorktreeOf, SlotOf
      <3>. QED BY <3>2, <3>3
    <2>. QED BY <2>1, <2>2
  <1>8. NothingStale'
    BY <1>0, <1>3, <1>4, <1>b DEF TypeOK, NothingStale
  <1>. QED BY <1>5, <1>6, <1>7, <1>8

\* A release reads the file of the lease, finds the job's own record there
\* and removes that file.
LEMMA ReleaseStep ==
    ASSUME IInv, NEW j \in Jobs, ReleaseRead(j) \/ ReleaseRemove(j)
    PROVE  IInv'
  <1>. USE GateLeaseAssumption DEF IInv
  <1>0. Path(j) \in Paths /\ file[Path(j)] = FullFile(j)
    BY PathTypes DEF ReleaseRead, ReleaseRemove, OwnerHasFile, TypeOK, Releasing
  <1>1. CASE ReleaseRead(j)
    <2>1. /\ pc' = [pc EXCEPT ![j] = "relremove"]
          /\ UNCHANGED <<phase, slot, file, sawOld, dead, faults, probe>>
      BY <1>0, <1>1 DEF ReleaseRead, FullFile
    <2>. QED
      <3>1. TypeOK' BY <2>1 DEF TypeOK, Stages
      <3>2. OwnerHasFile'
        BY <2>1, <1>1 DEF ReleaseRead, TypeOK, OwnerHasFile, Path, WorktreeOf, SlotOf, Releasing
      <3>3. FileHasOwner'
        BY <2>1, <1>1
        DEF ReleaseRead, TypeOK, FileHasOwner, Path, WorktreeOf, SlotOf, Releasing, Exists, FileRecord
      <3>4. NothingStale' BY <2>1 DEF TypeOK, NothingStale
      <3>. QED BY <3>1, <3>2, <3>3, <3>4
  <1>2. CASE ReleaseRemove(j)
    <2>1. ASSUME NEW p \in Paths, p # Path(j) PROVE file'[p] = file[p]
      BY <1>2, <2>1 DEF ReleaseRemove, TypeOK
    <2>2. file'[Path(j)] = NoFile
      BY <1>2, <1>0 DEF ReleaseRemove, TypeOK
    <2>3. TypeOK'
      BY <1>2, <1>0 DEF ReleaseRemove, Released, TypeOK, Stages, NoFile, FileRecord
    <2>4. OwnerHasFile'
      <3>. SUFFICES ASSUME NEW i \in Jobs
                    PROVE  (/\ pc[i] = "write" => file[Path(i)] = NewFile(i)
                            /\ phase[i] = "host" \/ Releasing(i) => file[WorktreeOf(i)] = FullFile(i)
                            /\ phase[i] = "host" /\ (pc[i] = "run" \/ Releasing(i)) => file[SlotOf(i)] = FullFile(i)
                            /\ pc[i] = "run" => phase[i] = "host"
                            /\ phase[i] = "host" => pc[i] # "done")'
        BY DEF OwnerHasFile
      <3>0. Path(i) \in Paths /\ WorktreeOf(i) \in Paths /\ SlotOf(i) \in Paths
        BY PathTypes
      <3>1. CASE i = j
        BY <3>0, <3>1, <1>2, <2>1, PathTypes, Files
        DEF ReleaseRemove, Released, TypeOK, OwnerHasFile, Releasing, Path, WorktreeOf, SlotOf
      <3>2. CASE i # j
        <4>1. /\ pc'[i] = pc[i] /\ phase'[i] = phase[i]
              /\ Path(i)' = Path(i) /\ WorktreeOf(i)' = WorktreeOf(i) /\ SlotOf(i)' = SlotOf(i)
          BY <3>2, <1>2 DEF ReleaseRemove, Released, TypeOK, Path, WorktreeOf, SlotOf
        <4>. QED BY <3>0, <3>2, <4>1, <1>0, <2>1, Files DEF OwnerHasFile, Releasing
      <3>. QED BY <3>1, <3>2
    <2>5. FileHasOwner'
      BY <1>0, <1>2, <2>1, <2>2, PathTypes
      DEF ReleaseRemove, Released, TypeOK, FileHasOwner, OwnerHasFile, Path, WorktreeOf, SlotOf,
          Releasing, FullFile, NoFile, Exists, FileRecord
    <2>6. NothingStale'
      BY <1>2, <2>1, <2>2 DEF ReleaseRemove, Released, TypeOK, NothingStale, NoFile
    <2>. QED BY <2>3, <2>4, <2>5, <2>6
  <1>. QED BY <1>1, <1>2

-----------------------------------------------------------------------------

\* IInv is inductive when nothing fails.
LEMMA StepIInv == ASSUME NoStalls, IInv, [Next]_vars, faults' = 0 PROVE IInv'
  <1>. USE GateLeaseAssumption
  <1>1. ASSUME NEW j \in Jobs, Create(j) PROVE IInv'
    BY <1>1, CreateStep
  <1>2. ASSUME NEW j \in Jobs, WriteRecord(j) PROVE IInv'
    BY <1>2, WriteStep
  <1>3. ASSUME NEW j \in Jobs, Stat(j) PROVE IInv'
    <2>1. CASE Exists(Path(j))
      <3>. USE <1>3, <2>1 DEF IInv, Stat
      <3>0. file[Path(j)].old = FALSE
        BY PathTypes DEF TypeOK, FileRecord, NothingStale
      <3>1. TypeOK' BY <3>0 DEF TypeOK, Stages
      <3>2. OwnerHasFile' BY DEF TypeOK, OwnerHasFile, Path, WorktreeOf, SlotOf, Releasing
      <3>3. FileHasOwner'
        BY DEF TypeOK, FileHasOwner, Path, WorktreeOf, SlotOf, Releasing, Exists, FileRecord
      <3>4. NothingStale' BY PathTypes DEF TypeOK, NothingStale
      <3>. QED BY <3>1, <3>2, <3>3, <3>4
    <2>2. CASE ~Exists(Path(j))
      BY <1>3, <2>2, MovesOn DEF Stat
    <2>. QED BY <2>1, <2>2
  <1>4. ASSUME NEW j \in Jobs, Read(j) PROVE IInv'
    <2>1. ~Reclaimable(j, file[Path(j)])
      BY PathTypes DEF IInv, NothingStale, Reclaimable
    <2>. QED BY <1>4, <2>1, MovesOn DEF Read
  <1>5. ASSUME NEW j \in Jobs, Remove(j) PROVE IInv'
    BY <1>5 DEF Remove, IInv, NothingStale
  <1>6. ASSUME NEW j \in Jobs, Poll(j) PROVE IInv'
    BY <1>6
    DEF Poll, IInv, TypeOK, OwnerHasFile, FileHasOwner, NothingStale, Path, WorktreeOf, SlotOf,
        Releasing, Exists, Stages, FileRecord
  <1>7. ASSUME NEW j \in Jobs, EndRun(j) PROVE IInv'
    BY <1>7
    DEF EndRun, IInv, TypeOK, OwnerHasFile, FileHasOwner, NothingStale, Path, WorktreeOf, SlotOf,
        Releasing, Exists, Stages, FileRecord
  <1>8. ASSUME NEW j \in Jobs, ReleaseRead(j) \/ ReleaseRemove(j) PROVE IInv'
    BY <1>8, ReleaseStep
  <1>9. ASSUME NEW j \in Jobs, Abandon(j) PROVE IInv'
    BY <1>9, GivesUp DEF Abandon
  <1>10. ASSUME NEW p \in Paths, Age(p) PROVE IInv'
    BY <1>10 DEF Age, NoStalls, IInv, FileHasOwner, TypeOK
  <1>11. CASE UNCHANGED vars
    BY <1>11
    DEF vars, IInv, TypeOK, OwnerHasFile, FileHasOwner, NothingStale, Path, WorktreeOf, SlotOf,
        Releasing, Exists
  <1>12. ASSUME NEW j \in Jobs, WriteFails(j) PROVE FALSE
    BY <1>12 DEF WriteFails, IInv, NothingStale
  <1>13. ASSUME NEW p \in Processes, Crash(p) PROVE FALSE
    BY <1>13 DEF Crash, IInv, NothingStale
  <1>. QED
    BY <1>1, <1>2, <1>3, <1>4, <1>5, <1>6, <1>7, <1>8, <1>9, <1>10, <1>11, <1>12, <1>13
    DEF Next, Step, AllSettled

\* The count of faults only grows.
LEMMA FaultsGrow ==
    ASSUME faults \in Nat, [Next]_vars PROVE faults' \in Nat /\ (faults' = 0 => faults = 0)
  BY DEF Next, Step, AllSettled, vars, Create, WriteRecord, Stat, Read, Remove, Poll, EndRun,
         ReleaseRead, ReleaseRemove, Abandon, WriteFails, Crash, Age

\* Every step keeps it: a fault ends the claim, anything else keeps IInv.
LEMMA StepUntilFault == ASSUME NoStalls PROVE UntilFault /\ [Next]_vars => UntilFault'
  BY StepIInv, FaultsGrow DEF UntilFault

\* Until a fault happens, two live jobs never have the lease of one worktree and
\* two running jobs never share a host slot.
THEOREM LeasesExclude == ASSUME NoStalls PROVE Spec => []ExclusionWithoutFaults
  <1>1. IInv => MutualExclusion
    <2>. SUFFICES ASSUME IInv, NEW i \in Jobs, NEW j \in Jobs, i # j
                  PROVE  /\ HasWorktree(i) /\ HasWorktree(j) => Root[i] # Root[j]
                         /\ HasSlot(i) /\ HasSlot(j) => slot[i] # slot[j]
      BY DEF MutualExclusion
    <2>1. FullFile(i) # FullFile(j)
      BY Files
    <2>2. HasWorktree(i) /\ HasWorktree(j) => Root[i] # Root[j]
      <3>1. ASSUME HasWorktree(i), HasWorktree(j), Root[i] = Root[j] PROVE FALSE
        <4>1. WorktreeOf(i) = WorktreeOf(j)
          BY <3>1 DEF WorktreeOf
        <4>2. file[WorktreeOf(i)] = FullFile(i) /\ file[WorktreeOf(j)] = FullFile(j)
          BY <3>1 DEF IInv, OwnerHasFile, HasWorktree
        <4>. QED BY <4>1, <4>2, <2>1
      <3>. QED BY <3>1
    <2>3. HasSlot(i) /\ HasSlot(j) => slot[i] # slot[j]
      <3>1. ASSUME HasSlot(i), HasSlot(j), slot[i] = slot[j] PROVE FALSE
        <4>1. SlotOf(i) = SlotOf(j)
          BY <3>1 DEF SlotOf
        <4>2. file[SlotOf(i)] = FullFile(i) /\ file[SlotOf(j)] = FullFile(j)
          BY <3>1 DEF IInv, OwnerHasFile, HasSlot
        <4>. QED BY <4>1, <4>2, <2>1
      <3>. QED BY <3>1
    <2>. QED BY <2>2, <2>3
  <1>2. UntilFault => ExclusionWithoutFaults
    BY <1>1 DEF UntilFault, ExclusionWithoutFaults
  <1>. QED
    BY InitUntilFault, StepUntilFault, <1>2, PTL DEF Spec

\* Until a fault happens, no lease file outlives the job that made it.
THEOREM NothingLeftBehind == ASSUME NoStalls PROVE Spec => []NoOrphanFile
  <1>1. UntilFault => NoOrphanFile
    BY DEF UntilFault, IInv, TypeOK, OwnerHasFile, FileHasOwner, NothingStale, NoOrphanFile, Settled,
           Exists, Releasing, FileRecord
  <1>. QED
    BY InitUntilFault, StepUntilFault, <1>1, PTL DEF Spec

=============================================================================
