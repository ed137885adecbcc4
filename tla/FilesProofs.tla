----------------------------- MODULE FilesProofs -----------------------------
(***************************************************************************)
(* What the servers of one machine share on disk stays sound, for any      *)
(* number of processes, tasks, files and faults.  Part one: what publish   *)
(* answers is what is on disk (AtomicPublish).  Part two: the activity log *)
(* and its archives hold the end of what was recorded (ActivityLog).  Part *)
(* three: a complete entry of the documentation cache is whole, and a      *)
(* cancellation stays with who gave it (DocsResolver).                     *)
(***************************************************************************)
EXTENDS AtomicPublish, ActivityLog, DocsResolver, FiniteSetTheorems, FunctionTheorems, TLAPS

-----------------------------------------------------------------------------
(* PART ONE: publication.                                                  *)

\* The stages of a call that holds the lock file it opened, and of one that has a temporary.
Locking == {"locked", "temp", "write", "inspect", "rename"}
Writing == {"write", "inspect", "rename"}
Opening == {"file"} \union Locking
Stages == {"idle", "process", "done"} \union Opening
Outcomes == {None, "aborted", "contended", "preserved", "published", "error"}
Call == [pc : Stages, dir : Dirs, lock : Locks, slot : 0 .. MaxTemp, outcome : Outcomes]
Temp(by) == [by : by, whole : BOOLEAN, stale : BOOLEAN]
Owners == Writers \union {None, "dead"}
Finals == [kind : {"absent", "symlink", "file"}, by : Owners, whole : BOOLEAN]

\* Every variable has its type.
TypeOK ==
  /\ dir \in Dirs
  /\ final \in Finals
  /\ temps \in [Slots -> Temp(Owners)]
  /\ active \in [Procs -> SUBSET Writers]
  /\ lockName \in Locks
  /\ lock \in [Locks -> SUBSET Writers]
  /\ w \in [Writers -> Call]
  /\ aborted \in SUBSET Writers /\ crashed \in SUBSET Procs
  /\ taken \in SUBSET Owners /\ orphaned \in BOOLEAN

\* A living call between its two locks and its return is alone on the lock file it opened, in the
\* present directory or an earlier one.
LockIsHeld ==
  /\ \A x \in Writers : w[x].dir <= dir
  /\ \A x \in Writers : Alive(x) /\ w[x].pc \in Locking => x \in lock[w[x].lock]
  /\ \A f \in Locks : \A x, y \in lock[f] : x = y

\* The lock file that a living call of the present directory opened still has its name, as long
\* as retention has unlinked none under such a call.
LockIsNamed ==
  ~orphaned =>
    \A x \in Writers : Alive(x) /\ w[x].pc \in Opening /\ w[x].dir = dir =>
      w[x].lock = lockName /\ lockName # None

\* A temporary belongs to a call that is writing it, in this directory; the temporary of a living
\* call that writes is its own, whole once it has been validated, or was removed by retention; a
\* call that has none yet names none.
TempsAreOwned ==
  /\ \A s \in Slots : temps[s].by \in Writers =>
       LET x == temps[s].by
       IN  w[x].pc \in Writing /\ w[x].slot = s /\ w[x].dir = dir
  /\ \A x \in Writers : w[x].pc \in Writing => w[x].slot \in Slots
  /\ \A x \in Writers : w[x].pc \notin Writing \union {"done"} => w[x].slot \notin Slots
TempsAreWhole ==
  ~orphaned =>
    \A x \in Writers :
      Alive(x) /\ w[x].pc \in Writing /\ w[x].dir = dir /\ temps[w[x].slot] # NoTemp =>
        /\ temps[w[x].slot].by = x
        /\ w[x].pc # "write" => temps[w[x].slot].whole

\* The artifact is of the call that was told so, and a call that is about to rename has a free path.
FinalIsOwned ==
  ~orphaned =>
    /\ final.kind = "file" =>
         /\ final.by \in Writers /\ w[final.by].pc = "done"
         /\ w[final.by].outcome = "published" /\ w[final.by].dir = dir
    /\ \A x \in Writers : Alive(x) /\ w[x].pc = "rename" /\ w[x].dir = dir => final.kind # "file"

IInv ==
  /\ TypeOK /\ LockIsHeld /\ LockIsNamed
  /\ TempsAreOwned /\ TempsAreWhole /\ FinalIsOwned /\ ArtifactIsWhole

\* At most one living call of the present directory is past its file lock.
OneWriter ==
  ~orphaned =>
    \A x, y \in Writers :
      /\ Alive(x) /\ w[x].pc \in Locking /\ w[x].dir = dir
      /\ Alive(y) /\ w[y].pc \in Locking /\ w[y].dir = dir
      => x = y

-----------------------------------------------------------------------------
(* What the pieces of a step do to the calls.                              *)

\* A call's record and a temporary have the fields of their type.
LEMMA Fields ==
    ASSUME TypeOK
    PROVE  /\ \A x \in Writers : /\ w[x] \in Call /\ w[x].pc \in Stages /\ w[x].dir \in Dirs
                                 /\ w[x].lock \in Locks
                                 /\ w[x].slot \in 0 .. MaxTemp /\ w[x].outcome \in Outcomes
                                 /\ w[x].dir \in Nat /\ ProcOf[x] \in Procs
           /\ dir \in Nat
           /\ \A s \in Slots : temps[s] \in Temp(Owners)
           /\ NoTemp \in Temp(Owners) /\ NoTemp.by \notin Writers
  BY PublishAssumption DEF TypeOK, Call, Dirs, Procs, Temp, NoTemp, Owners, None

\* The lock file keeps the calls of one directory apart.
LEMMA Alone ==
    ASSUME LockIsHeld, LockIsNamed, TypeOK
    PROVE  OneWriter
  BY Fields DEF LockIsHeld, LockIsNamed, OneWriter, Opening

\* A file that is whole is the artifact of its writer.
LEMMA WholeFile ==
    ASSUME TypeOK, final.kind = "file", final.whole
    PROVE  final = File(final.by, TRUE)
  BY DEF TypeOK, Finals, File

\* A step to another stage changes nothing else of the call, and no other call.
LEMMA StepMoves ==
    ASSUME TypeOK, NEW x \in Writers, NEW p \in Stages, Step(x, p)
    PROVE  /\ w' \in [Writers -> Call] /\ w'[x].pc = p /\ w'[x].dir = w[x].dir
           /\ w'[x].lock = w[x].lock
           /\ w'[x].slot = w[x].slot /\ w'[x].outcome = w[x].outcome
           /\ \A y \in Writers \ {x} : w'[y] = w[y]
  BY DEF TypeOK, Call, Step

\* A call that returns drops what it holds and nothing else.
LEMMA ReturnMoves ==
    ASSUME TypeOK, NEW x \in Writers, NEW o \in Outcomes, Return(x, o)
    PROVE  /\ w' \in [Writers -> Call] /\ w'[x].pc = "done" /\ w'[x].dir = w[x].dir
           /\ w'[x].slot = w[x].slot /\ w'[x].outcome = o
           /\ \A y \in Writers \ {x} : w'[y] = w[y]
           /\ active' \in [Procs -> SUBSET Writers]
           /\ lock' \in [Locks -> SUBSET Writers]
           /\ \A f \in Locks : lock'[f] = lock[f] \ {x}
           /\ temps' \in [Slots -> Temp(Owners)]
           /\ \A s \in Slots :
                temps'[s] = IF s = w[x].slot /\ w[x].dir = dir /\ o # "published"
                            THEN NoTemp ELSE temps[s]
  <1>1. /\ w' \in [Writers -> Call] /\ w'[x].pc = "done" /\ w'[x].dir = w[x].dir
        /\ w'[x].slot = w[x].slot /\ w'[x].outcome = o
        /\ \A y \in Writers \ {x} : w'[y] = w[y]
    BY DEF TypeOK, Call, Return, Stages
  <1>2. active' \in [Procs -> SUBSET Writers]
    BY DEF TypeOK, Return
  <1>3. /\ lock' \in [Locks -> SUBSET Writers]
        /\ \A f \in Locks : lock'[f] = lock[f] \ {x}
    BY DEF TypeOK, Return
  <1>4. /\ temps' \in [Slots -> Temp(Owners)]
        /\ \A s \in Slots :
             temps'[s] = IF s = w[x].slot /\ w[x].dir = dir /\ o # "published"
                         THEN NoTemp ELSE temps[s]
    BY Fields DEF Return
  <1>. QED BY <1>1, <1>2, <1>3, <1>4

\* What ArtifactIsWhole says of one call that has returned.
IsTold(y) ==
  /\ w[y].outcome = "published" => y \in taken \/ final = File(y, TRUE)
  /\ w[y].outcome = "preserved" => \E z \in Writers \ {y} : z \in taken \/ final = File(z, TRUE)
LEMMA Told ==
    ASSUME ArtifactIsWhole, NEW y \in Writers, w[y].pc = "done", w[y].dir = dir
    PROVE  /\ ~orphaned => IsTold(y)
           /\ \A s \in Slots : temps[s].by # y
  BY DEF ArtifactIsWhole, IsTold

\* What a call was told stays true while the directory, the artifact and what retention took are
\* the same, no further call returns and no temporary comes to a call that has.
LEMMA ArtifactStays ==
    ASSUME ArtifactIsWhole, UNCHANGED <<dir, final, taken>>, ~orphaned' => ~orphaned,
           \A y \in Writers : w'[y].pc = "done" => w'[y] = w[y],
           \A s \in Slots : \A y \in Writers :
               w'[y].pc = "done" /\ temps'[s].by = y => temps[s].by = y
    PROVE  ArtifactIsWhole'
  <1>1. ASSUME NEW y \in Writers, w'[y].pc = "done", w'[y].dir = dir
        PROVE  (~orphaned' => IsTold(y)') /\ \A s \in Slots : temps'[s].by # y
    <2>1. w[y].pc = "done" /\ w[y].dir = dir /\ w'[y].outcome = w[y].outcome
      BY <1>1
    <2>2. (~orphaned => IsTold(y)) /\ \A s \in Slots : temps[s].by # y
      BY <2>1, Told
    <2>. QED BY <1>1, <2>1, <2>2 DEF IsTold, File
  <1>2. ~orphaned' /\ final'.kind = "file" => final'.whole /\ final'.by \in Writers
    BY DEF ArtifactIsWhole
  <1>. QED BY <1>1, <1>2 DEF ArtifactIsWhole, IsTold

-----------------------------------------------------------------------------
(* One lemma per action.                                                   *)

\* Initially nobody has opened the directory.
LEMMA InitHolds == ASSUME Init PROVE IInv
  <1>. USE PublishAssumption DEF Init, None, Idle, Slots, Dirs
  <1>1. TypeOK
    <2>1. NoTemp \in Temp(Owners) /\ [NoTemp EXCEPT !.by = "dead"] \in Temp(Owners)
      BY DEF NoTemp, Owners, Temp
    <2>2. temps \in [Slots -> Temp(Owners)]
      BY <2>1
    <2>3. Idle \in Call
      BY DEF Call, Stages, Outcomes, Locks
    <2>4. final \in Finals
      <3>1. CASE final = Absent
        BY <3>1 DEF Absent, Owners, Finals
      <3>2. CASE final = Symlink
        BY <3>2 DEF Symlink, Owners, Finals
      <3>. QED BY <3>1, <3>2
    <2>5. lockName \in Locks
      BY DEF Locks
    <2>6. w \in [Writers -> Call] /\ active \in [Procs -> SUBSET Writers]
      BY <2>3
    <2>7. /\ taken \in SUBSET Owners /\ aborted \in SUBSET Writers /\ crashed \in SUBSET Procs
          /\ dir \in Dirs
      OBVIOUS
    <2>8. lock \in [Locks -> SUBSET Writers]
      OBVIOUS
    <2>9. orphaned \in BOOLEAN
      BY Zenon
    <2>. QED BY ONLY <2>2, <2>4, <2>5, <2>6, <2>7, <2>8, <2>9 DEF TypeOK
  <1>2. LockIsHeld /\ LockIsNamed
    BY DEF LockIsHeld, LockIsNamed, Locking, Opening
  <1>3. TempsAreOwned /\ TempsAreWhole
    BY DEF TempsAreOwned, TempsAreWhole, NoTemp, Writing
  <1>4. FinalIsOwned
    BY DEF FinalIsOwned, Absent, Symlink
  <1>5. ArtifactIsWhole
    <2>1. final.kind # "file" /\ \A x \in Writers : w[x].pc # "done"
      BY DEF Absent, Symlink
    <2>. QED BY <2>1 DEF ArtifactIsWhole
  <1>. QED BY <1>1, <1>2, <1>3, <1>4, <1>5 DEF IInv

\* A call that gives up drops its locks and its temporary.
LEMMA ReturnKeeps ==
    ASSUME IInv, NEW x \in Writers, Alive(x), w[x].pc \notin {"idle", "done"},
           NEW o \in {"aborted", "contended", "error", "preserved"}, Return(x, o),
           o = "preserved" => w[x].dir = dir /\ final.kind = "file" /\ (~orphaned => final.by # x),
           UNCHANGED <<dir, final, lockName, aborted, crashed, kept>>
    PROVE  IInv'
  <1>0. TypeOK /\ o \in Outcomes /\ UNCHANGED <<taken, orphaned>>
    BY DEF IInv, Outcomes, kept
  <1>0a. o # "published"
    OBVIOUS
  <1>. USE <1>0, ReturnMoves, Fields DEF IInv, Alive
  <1>1. TypeOK'
    BY DEF TypeOK
  <1>2. LockIsHeld' /\ LockIsNamed'
    <2>1. LockIsHeld'
      BY DEF LockIsHeld, Locking
    <2>2. LockIsNamed'
      BY DEF LockIsNamed, Locking, Opening
    <2>. QED BY <2>1, <2>2
  <1>3. TempsAreOwned'
    BY DEF TempsAreOwned, Writing
  <1>4. TempsAreWhole'
    <2>1. ASSUME NEW y \in Writers, Alive(y), w'[y].pc \in Writing, w'[y].dir = dir, ~orphaned,
                 temps'[w'[y].slot] # NoTemp
          PROVE  temps'[w[y].slot] = temps[w[y].slot] /\ w'[y] = w[y] /\ w[y].slot \in Slots
      <3>1. y # x /\ w'[y] = w[y]
        BY <2>1 DEF Writing
      <3>2. w[y].slot \in Slots
        BY <2>1, <3>1 DEF TempsAreOwned
      <3>. QED BY <2>1, <3>1, <3>2
    <2>. QED BY <2>1 DEF TempsAreWhole
  <1>5. FinalIsOwned'
    BY DEF FinalIsOwned
  <1>6. ArtifactIsWhole'
    <2>1. ~orphaned' /\ final'.kind = "file" => final'.whole /\ final'.by \in Writers
      BY DEF ArtifactIsWhole
    <2>2. ASSUME NEW y \in Writers, w'[y].pc = "done", w'[y].dir = dir
          PROVE  (~orphaned' => IsTold(y)') /\ \A s \in Slots : temps'[s].by # y
      <3>1. CASE y = x
        <4>1. \A s \in Slots : temps[s].by = x => s = w[x].slot /\ w[x].dir = dir
          BY DEF TempsAreOwned
        <4>2. \A s \in Slots : temps'[s].by # x
          BY <1>0a, <4>1
        <4>3. ~orphaned' /\ o = "preserved" =>
                 \E z \in Writers \ {x} : final' = File(z, TRUE)
          BY WholeFile DEF ArtifactIsWhole
        <4>4. w'[x].outcome = o
          OBVIOUS
        <4>. QED BY <1>0a, <3>1, <4>2, <4>3, <4>4 DEF IsTold
      <3>2. CASE y # x
        <4>1. w'[y] = w[y] /\ w[y].pc = "done" /\ w[y].dir = dir
          BY <2>2, <3>2
        <4>2. (~orphaned => IsTold(y)) /\ \A s \in Slots : temps[s].by # y
          BY <4>1, Told
        <4>3. \A s \in Slots : temps'[s].by # y
          BY <4>2
        <4>4. ~orphaned' => IsTold(y)'
          BY <4>1, <4>2 DEF IsTold, File
        <4>. QED BY <4>3, <4>4
      <3>. QED BY <3>1, <3>2
    <2>. QED BY <2>1, <2>2 DEF ArtifactIsWhole, IsTold
  <1>. QED BY <1>1, <1>2, <1>3, <1>4, <1>5, <1>6

\* Opening the directory changes the stage and the directory of a call that has nothing yet.
LEMMA OpenKeeps ==
    ASSUME IInv, NEW x \in Writers, Open(x)
    PROVE  IInv'
  <1>0. TypeOK
    BY DEF IInv
  <1>a. /\ w' \in [Writers -> Call] /\ w[x].pc = "idle" /\ w'[x].pc = "process" /\ w'[x].dir = dir
        /\ w'[x].slot = w[x].slot
        /\ \A y \in Writers \ {x} : w'[y] = w[y]
        /\ UNCHANGED <<dir, final, temps, lockName, active, lock, aborted, crashed, taken, orphaned>>
    BY <1>0 DEF Open, At, Parent, TypeOK, Call, Stages, files, kept
  <1>. USE <1>0, <1>a, Fields DEF IInv, Alive
  <1>1. TypeOK'
    BY DEF TypeOK
  <1>2. LockIsHeld' /\ LockIsNamed'
    BY DEF LockIsHeld, LockIsNamed, Locking, Opening
  <1>3. TempsAreOwned' /\ TempsAreWhole'
    BY DEF TempsAreOwned, TempsAreWhole, Writing
  <1>4. FinalIsOwned'
    BY DEF FinalIsOwned
  <1>5. ArtifactIsWhole'
    BY ArtifactStays
  <1>. QED BY <1>1, <1>2, <1>3, <1>4, <1>5

\* The two locks: whoever finds one taken returns, and whoever opens the lock file gets the one
\* that has its name.
LEMMA LocksKeep ==
    ASSUME IInv, NEW x \in Writers, ProcessLock(x) \/ FileLock(x)
    PROVE  IInv'
  <1>0. /\ TypeOK /\ Alive(x) /\ w[x].pc \in {"process", "file"}
        /\ UNCHANGED <<dir, final, aborted, crashed, taken, orphaned>> /\ UNCHANGED kept
    BY DEF IInv, ProcessLock, FileLock, At, kept
  <1>1. CASE (Return(x, "contended") \/ Return(x, "error")) /\ UNCHANGED lockName
    BY <1>0, <1>1, ReturnKeeps
  <1>2. CASE /\ Same(x) /\ w[x].pc = "process"
             /\ active' = [active EXCEPT ![ProcOf[x]] = {x}]
             /\ lockName' = LockToOpen(x)
             /\ w' = [w EXCEPT ![x].pc = "file", ![x].lock = LockToOpen(x)]
             /\ UNCHANGED <<lock, temps>>
    <2>1. /\ lockName' \in Locks /\ lockName' # None
          /\ lockName # None => lockName' = lockName
      BY <1>0, <1>2, PublishAssumption DEF LockToOpen, Locks, None, TypeOK
    <2>2. /\ w' \in [Writers -> Call] /\ w'[x].pc = "file" /\ w'[x].lock = lockName'
          /\ w'[x].dir = w[x].dir /\ w'[x].slot = w[x].slot
          /\ \A y \in Writers \ {x} : w'[y] = w[y]
      BY <1>0, <1>2, <2>1 DEF TypeOK, Call, Stages, Opening
    <2>. USE <1>0, <1>2, <2>1, <2>2, Fields DEF IInv, Alive
    <2>3. TypeOK'
      BY DEF TypeOK
    <2>4. LockIsHeld'
      BY DEF LockIsHeld, Locking
    <2>5. LockIsNamed'
      BY DEF LockIsNamed
    <2>6. TempsAreOwned' /\ TempsAreWhole'
      BY DEF TempsAreOwned, TempsAreWhole, Writing
    <2>7. FinalIsOwned'
      BY DEF FinalIsOwned
    <2>8. ArtifactIsWhole'
      BY ArtifactStays
    <2>. QED BY <2>3, <2>4, <2>5, <2>6, <2>7, <2>8
  <1>3. CASE /\ Holders(x) = {} /\ lock' = [lock EXCEPT ![w[x].lock] = {x}] /\ w[x].pc = "file"
             /\ Step(x, "locked") /\ UNCHANGED <<active, temps, lockName>>
    <2>1. "locked" \in Stages
      BY DEF Stages, Locking, Opening
    <2>. USE <1>0, <1>3, <2>1, StepMoves, Fields DEF IInv, Alive
    <2>2. TypeOK'
      BY DEF TypeOK
    <2>3. LockIsHeld'
      BY DEF LockIsHeld, Locking, Holders, TypeOK
    <2>4. LockIsNamed'
      BY DEF LockIsNamed, Opening
    <2>5. TempsAreOwned' /\ TempsAreWhole'
      BY DEF TempsAreOwned, TempsAreWhole, Writing
    <2>6. FinalIsOwned'
      BY DEF FinalIsOwned
    <2>7. ArtifactIsWhole'
      BY ArtifactStays
    <2>. QED BY <2>2, <2>3, <2>4, <2>5, <2>6, <2>7
  <1>. QED BY <1>1, <1>2, <1>3 DEF ProcessLock, FileLock, At

\* The call that enters removes stale temporaries. None is of a living call of this directory,
\* which would hold the lock.
LEMMA EnterKeeps ==
    ASSUME IInv, NEW x \in Writers, Enter(x)
    PROVE  IInv'
  <1>0. /\ TypeOK /\ Alive(x) /\ w[x].pc = "locked"
        /\ UNCHANGED <<dir, final, lockName, aborted, crashed, taken, orphaned>>
        /\ temps' = CleanupStaleTemps(x)
    BY DEF IInv, Enter, At, kept
  <1>a. /\ temps' \in [Slots -> Temp(Owners)]
        /\ \A s \in Slots : temps'[s] = IF w[x].dir = dir /\ temps[s].stale THEN NoTemp ELSE temps[s]
    BY <1>0, Fields DEF CleanupStaleTemps, Same, Parent
  <1>b. /\ w' \in [Writers -> Call] /\ w'[x].dir = w[x].dir /\ w'[x].slot = w[x].slot
        /\ w'[x].lock = w[x].lock
        /\ w'[x].pc \in {"temp", "done"}
        /\ w'[x].pc = "temp" => active' = active /\ lock' = lock
        /\ w'[x].pc = "done" =>
             /\ w'[x].outcome = "preserved" /\ w[x].dir = dir /\ final.kind = "file"
             /\ active' = [active EXCEPT ![ProcOf[x]] = @ \ {x}]
             /\ lock' = [f \in Locks |-> lock[f] \ {x}]
        /\ \A y \in Writers \ {x} : w'[y] = w[y]
    <2>1. CASE InspectFinal(x).kind = "file"
      <3>1. w[x].dir = dir /\ final.kind = "file"
        BY <2>1 DEF InspectFinal, Same, Parent, Absent
      <3>2. w' = [w EXCEPT ![x].pc = "done", ![x].outcome = "preserved"]
        BY <2>1 DEF Enter
      <3>3. /\ w' \in [Writers -> Call] /\ w'[x].pc = "done" /\ w'[x].outcome = "preserved"
            /\ w'[x].dir = w[x].dir /\ w'[x].slot = w[x].slot /\ w'[x].lock = w[x].lock
            /\ \A y \in Writers \ {x} : w'[y] = w[y]
        BY <1>0, <3>2 DEF TypeOK, Call, Stages, Outcomes
      <3>. QED BY <2>1, <3>1, <3>3 DEF Enter
    <2>2. CASE InspectFinal(x).kind # "file"
      <3>1. Step(x, "temp") /\ UNCHANGED <<active, lock>> /\ "temp" \in Stages
        BY <2>2 DEF Enter, Stages, Locking, Opening
      <3>. QED BY <1>0, <3>1, StepMoves
    <2>. QED BY <2>1, <2>2
  <1>. USE <1>0, <1>a, <1>b, Fields DEF IInv, Alive
  <1>1. TypeOK'
    <2>1. active' \in [Procs -> SUBSET Writers] /\ lock' \in [Locks -> SUBSET Writers]
      BY DEF TypeOK
    <2>. QED BY <2>1 DEF TypeOK
  <1>2. LockIsHeld' /\ LockIsNamed'
    <2>1. \A f \in Locks : lock'[f] = lock[f] \/ (lock'[f] = lock[f] \ {x} /\ w'[x].pc = "done")
      BY DEF TypeOK
    <2>2. LockIsHeld'
      BY <2>1 DEF LockIsHeld, Locking
    <2>3. LockIsNamed'
      BY DEF LockIsNamed, Locking, Opening
    <2>. QED BY <2>2, <2>3
  <1>3. TempsAreOwned' /\ TempsAreWhole'
    <2>1. \A y \in Writers : w'[y].pc \in Writing => w'[y] = w[y]
      BY DEF Writing
    <2>2. \A s \in Slots : temps'[s] = temps[s] \/ temps'[s] = NoTemp
      OBVIOUS
    <2>3. TempsAreOwned'
      <3>1. ASSUME NEW s \in Slots, temps'[s].by \in Writers
            PROVE  LET y == temps'[s].by IN w'[y].pc \in Writing /\ w'[y].slot = s /\ w'[y].dir = dir
        <4>1. temps'[s] = temps[s] /\ temps[s].by # x
          BY <2>2, <3>1 DEF TempsAreOwned, Writing
        <4>. QED BY <3>1, <4>1 DEF TempsAreOwned
      <3>2. \A y \in Writers : w'[y].pc \notin Writing \union {"done"} => w'[y].slot \notin Slots
        BY DEF TempsAreOwned, Writing
      <3>. QED BY <2>1, <3>1, <3>2 DEF TempsAreOwned
    <2>4. TempsAreWhole'
      <3>1. ASSUME NEW y \in Writers, w'[y].pc \in Writing, temps'[w'[y].slot] # NoTemp
            PROVE  w'[y] = w[y] /\ temps'[w[y].slot] = temps[w[y].slot]
        BY <2>1, <2>2, <3>1 DEF TempsAreOwned
      <3>. QED BY <3>1 DEF TempsAreWhole
    <2>. QED BY <2>3, <2>4
  <1>4. FinalIsOwned'
    BY DEF FinalIsOwned
  <1>5. ArtifactIsWhole'
    <2>1. ASSUME NEW y \in Writers, w'[y].pc = "done", w'[y].dir = dir
          PROVE  (~orphaned' => IsTold(y)') /\ \A s \in Slots : temps'[s].by # y
      <3>1. CASE y = x
        <4>1. ~orphaned => final.by # x /\ final.by \in Writers /\ final = File(final.by, TRUE)
          BY <2>1, <3>1, WholeFile DEF FinalIsOwned, ArtifactIsWhole
        <4>2. \A s \in Slots : temps'[s].by # x
          BY DEF TempsAreOwned, Writing
        <4>3. ~orphaned' => IsTold(x)'
          BY <2>1, <3>1, <4>1 DEF IsTold
        <4>. QED BY <3>1, <4>2, <4>3
      <3>2. CASE y # x
        <4>1. w'[y] = w[y]
          BY <3>2
        <4>2. (~orphaned => IsTold(y)) /\ \A s \in Slots : temps[s].by # y
          BY <2>1, <4>1, Told
        <4>3. \A s \in Slots : temps'[s].by # y
          BY <4>2
        <4>4. ~orphaned' => IsTold(y)'
          BY <4>1, <4>2 DEF IsTold, File
        <4>. QED BY <4>3, <4>4
      <3>. QED BY <3>1, <3>2
    <2>2. ~orphaned' /\ final'.kind = "file" => final'.whole /\ final'.by \in Writers
      BY DEF ArtifactIsWhole
    <2>. QED BY <2>1, <2>2 DEF ArtifactIsWhole, IsTold
  <1>. QED BY <1>1, <1>2, <1>3, <1>4, <1>5

\* create_new gives the call a free name.
LEMMA CreateKeeps ==
    ASSUME IInv, NEW x \in Writers, CreateTemporary(x)
    PROVE  IInv'
  <1>0. /\ TypeOK /\ Alive(x) /\ w[x].pc = "temp"
        /\ UNCHANGED <<dir, final, lockName, aborted, crashed, taken, orphaned>> /\ UNCHANGED kept
    BY DEF IInv, CreateTemporary, At, kept
  <1>1. CASE Return(x, "error")
    BY <1>0, <1>1, ReturnKeeps
  <1>2. CASE ~Return(x, "error")
    <2>1. PICK s \in Free(x) :
             /\ temps' = [temps EXCEPT ![s] = [NoTemp EXCEPT !.by = x]]
             /\ w' = [w EXCEPT ![x].pc = "write", ![x].slot = s]
             /\ UNCHANGED <<active, lock>>
      BY <1>2 DEF CreateTemporary
    <2>2. s \in Slots /\ temps[s] = NoTemp /\ w[x].dir = dir /\ s \in 0 .. MaxTemp
      BY PublishAssumption DEF Free, Same, Parent, Slots
    <2>3. /\ temps' \in [Slots -> Temp(Owners)] /\ temps'[s].by = x
          /\ \A t \in Slots \ {s} : temps'[t] = temps[t]
      <3>1. [NoTemp EXCEPT !.by = x] \in Temp(Owners) /\ [NoTemp EXCEPT !.by = x].by = x
        BY DEF NoTemp, Temp, Owners
      <3>. QED BY <1>0, <2>1, <2>2, <3>1 DEF TypeOK
    <2>4. /\ w' \in [Writers -> Call] /\ w'[x].pc = "write" /\ w'[x].slot = s
          /\ w'[x].dir = w[x].dir /\ w'[x].lock = w[x].lock
          /\ \A y \in Writers \ {x} : w'[y] = w[y]
      BY <1>0, <2>1, <2>2 DEF TypeOK, Call, Stages, Opening, Locking
    <2>. USE <1>0, <2>2, <2>3, <2>4, Fields DEF IInv, Alive
    <2>5. TypeOK'
      BY <2>1 DEF TypeOK
    <2>6. LockIsHeld' /\ LockIsNamed'
      <3>1. LockIsHeld'
        BY <2>1 DEF LockIsHeld, Locking
      <3>2. LockIsNamed'
        BY <2>1 DEF LockIsNamed, Opening, Locking
      <3>. QED BY <3>1, <3>2
    <2>7. TempsAreOwned'
      <3>1. ASSUME NEW t \in Slots, temps'[t].by \in Writers
            PROVE  LET y == temps'[t].by IN w'[y].pc \in Writing /\ w'[y].slot = t /\ w'[y].dir = dir
        <4>1. CASE t = s
          BY <4>1 DEF Writing
        <4>2. CASE t # s
          BY <3>1, <4>2 DEF TempsAreOwned, Writing
        <4>. QED BY <4>1, <4>2
      <3>2. \A y \in Writers : w'[y].pc \in Writing => w'[y].slot \in Slots
        BY DEF TempsAreOwned
      <3>3. \A y \in Writers : w'[y].pc \notin Writing \union {"done"} => w'[y].slot \notin Slots
        BY DEF TempsAreOwned, Writing
      <3>. QED BY <3>1, <3>2, <3>3 DEF TempsAreOwned
    <2>8. TempsAreWhole'
      <3>1. ASSUME NEW y \in Writers, Alive(y), w'[y].pc \in Writing, w'[y].dir = dir, ~orphaned
            PROVE  y = x
        <4>1. w[x].pc \in Locking /\ (y # x => w[y].pc \in Locking /\ w[y].dir = dir)
          BY <3>1 DEF Locking, Writing
        <4>. QED BY <3>1, <4>1, Alone DEF OneWriter
      <3>. QED BY <3>1 DEF TempsAreWhole
    <2>9. FinalIsOwned'
      BY DEF FinalIsOwned
    <2>10. ArtifactIsWhole'
      BY ArtifactStays
    <2>. QED BY <2>5, <2>6, <2>7, <2>8, <2>9, <2>10
  <1>. QED BY <1>1, <1>2

\* The validated temporary is whole; an error returns.
LEMMA WriteKeeps ==
    ASSUME IInv, NEW x \in Writers, Write(x)
    PROVE  IInv'
  <1>0. /\ TypeOK /\ Alive(x) /\ w[x].pc = "write"
        /\ UNCHANGED <<dir, final, lockName, aborted, crashed, taken, orphaned>> /\ UNCHANGED kept
    BY DEF IInv, Write, At, kept
  <1>1. CASE Return(x, "error")
    BY <1>0, <1>1, ReturnKeeps
  <1>2. CASE ~Return(x, "error")
    <2>1. /\ w[x].dir = dir /\ Step(x, "inspect") /\ "inspect" \in Stages
          /\ temps[w[x].slot] # NoTemp /\ temps' = Written(x)
          /\ UNCHANGED <<active, lock>>
      BY <1>2 DEF Write, Same, Parent, Stages, Opening, Locking
    <2>2. w[x].slot \in Slots
      BY <1>0 DEF IInv, TempsAreOwned, Writing
    <2>3. /\ temps' \in [Slots -> Temp(Owners)]
          /\ temps[w[x].slot].by = x => temps'[w[x].slot].whole
          /\ \A s \in Slots : temps'[s].by = temps[s].by
          /\ \A s \in Slots : temps[s].by # x => temps'[s] = temps[s]
          /\ \A s \in Slots \ {w[x].slot} : temps'[s] = temps[s]
      <3>1. \A s \in Slots :
              /\ [temps[s] EXCEPT !.whole = TRUE, !.stale = FALSE] \in Temp(Owners)
              /\ [temps[s] EXCEPT !.whole = TRUE, !.stale = FALSE].by = temps[s].by
              /\ [temps[s] EXCEPT !.whole = TRUE, !.stale = FALSE].whole
        BY <1>0, Fields DEF Temp
      <3>2. \A s \in Slots : temps'[s] = IF s = w[x].slot /\ temps[s].by = x
                THEN [temps[s] EXCEPT !.whole = TRUE, !.stale = FALSE] ELSE temps[s]
        BY <2>1 DEF Written
      <3>3. temps' = [s \in Slots |-> temps'[s]]
        BY <2>1 DEF Written
      <3>4. \A s \in Slots : temps'[s] \in Temp(Owners)
        BY <1>0, <3>1, <3>2, Fields
      <3>5. temps' \in [Slots -> Temp(Owners)]
        BY <3>3, <3>4
      <3>. QED BY <2>2, <3>1, <3>2, <3>5
    <2>4. /\ w' \in [Writers -> Call] /\ w'[x].pc = "inspect" /\ w'[x].slot = w[x].slot
          /\ w'[x].dir = w[x].dir /\ w'[x].lock = w[x].lock
          /\ \A y \in Writers \ {x} : w'[y] = w[y]
      BY <1>0, <2>1, StepMoves
    <2>. USE <1>0, <2>2, <2>3, <2>4, Fields DEF IInv, Alive
    <2>5. TypeOK'
      BY <2>1 DEF TypeOK
    <2>6. LockIsHeld' /\ LockIsNamed'
      <3>1. LockIsHeld'
        BY <2>1 DEF LockIsHeld, Locking
      <3>2. LockIsNamed'
        BY DEF LockIsNamed, Opening, Locking
      <3>. QED BY <3>1, <3>2
    <2>7. TempsAreOwned'
      BY DEF TempsAreOwned, Writing
    <2>8. TempsAreWhole'
      <3>1. ASSUME NEW y \in Writers, Alive(y), w'[y].pc \in Writing, w'[y].dir = dir, ~orphaned
            PROVE  y = x
        <4>1. w[x].pc \in Locking /\ (y # x => w[y].pc \in Locking /\ w[y].dir = dir)
          BY <3>1 DEF Locking, Writing
        <4>. QED BY <2>1, <3>1, <4>1, Alone DEF OneWriter
      <3>2. ~orphaned => temps[w[x].slot].by = x
        BY <2>1 DEF TempsAreWhole, Writing
      <3>. QED BY <3>1, <3>2 DEF TempsAreWhole
    <2>9. FinalIsOwned'
      BY DEF FinalIsOwned
    <2>10. ArtifactIsWhole'
      BY ArtifactStays
    <2>. QED BY <2>5, <2>6, <2>7, <2>8, <2>9, <2>10
  <1>. QED BY <1>1, <1>2

\* Under the lock the path is looked at once more, and a symbolic link unlinked.
LEMMA InspectKeeps ==
    ASSUME IInv, NEW x \in Writers, Inspect(x)
    PROVE  IInv'
  <1>0. /\ TypeOK /\ Alive(x) /\ w[x].pc = "inspect"
        /\ UNCHANGED <<dir, lockName, aborted, crashed, taken, orphaned>> /\ UNCHANGED kept
    BY DEF IInv, Inspect, At, kept
  <1>1. CASE ~Same(x)
    <2>1. Return(x, "error") /\ UNCHANGED final
      BY <1>1 DEF Inspect
    <2>. QED BY <1>0, <2>1, ReturnKeeps
  <1>2. CASE Same(x) /\ final.kind = "file"
    <2>1. Return(x, "preserved") /\ UNCHANGED final /\ w[x].dir = dir
      BY <1>2 DEF Inspect, Same, Parent
    <2>2. ~orphaned => final.by # x
      BY <1>0, <1>2 DEF IInv, FinalIsOwned
    <2>. QED BY <1>0, <1>2, <2>1, <2>2, ReturnKeeps
  <1>3. CASE Same(x) /\ final.kind # "file"
    <2>1. /\ final' = Absent /\ Step(x, "rename") /\ UNCHANGED <<active, lock, temps>>
          /\ "rename" \in Stages
      BY <1>3 DEF Inspect, Stages, Opening, Locking
    <2>2. final'.kind = "absent" /\ final' \in Finals
      BY <2>1 DEF Absent, Owners, Finals
    <2>. USE <1>0, <1>3, <2>1, <2>2, StepMoves, Fields DEF IInv, Alive
    <2>3. TypeOK'
      BY DEF TypeOK
    <2>4. LockIsHeld' /\ LockIsNamed'
      <3>1. LockIsHeld'
        BY DEF LockIsHeld, Locking
      <3>2. LockIsNamed'
        BY DEF LockIsNamed, Opening, Locking
      <3>. QED BY <3>1, <3>2
    <2>5. TempsAreOwned' /\ TempsAreWhole'
      <3>1. TempsAreOwned'
        BY DEF TempsAreOwned, Writing
      <3>2. TempsAreWhole'
        BY DEF TempsAreWhole, Writing
      <3>. QED BY <3>1, <3>2
    <2>6. FinalIsOwned'
      BY DEF FinalIsOwned
    <2>7. ArtifactIsWhole'
      <3>1. ASSUME NEW y \in Writers, w'[y].pc = "done", w'[y].dir = dir
            PROVE  (~orphaned' => IsTold(y)') /\ \A s \in Slots : temps'[s].by # y
        <4>1. w'[y] = w[y]
          BY <3>1
        <4>2. (~orphaned => IsTold(y)) /\ \A s \in Slots : temps[s].by # y
          BY <3>1, <4>1, Told
        <4>. QED BY <4>1, <4>2 DEF IsTold, File
      <3>2. final'.kind # "file"
        BY <2>2
      <3>. QED BY <3>1, <3>2 DEF ArtifactIsWhole, IsTold
    <2>. QED BY <2>3, <2>4, <2>5, <2>6, <2>7
  <1>. QED BY <1>1, <1>2, <1>3

\* The rename publishes the caller's own whole temporary on a free path.
LEMMA RenameKeeps ==
    ASSUME IInv, NEW x \in Writers, Rename(x)
    PROVE  IInv'
  <1>0. /\ TypeOK /\ Alive(x) /\ w[x].pc = "rename"
        /\ UNCHANGED <<dir, lockName, aborted, crashed, taken, orphaned>> /\ UNCHANGED kept
    BY DEF IInv, Rename, At, kept
  <1>1. CASE ~(Same(x) /\ temps[w[x].slot] # NoTemp)
    <2>1. Return(x, "error") /\ UNCHANGED final
      BY <1>1 DEF Rename
    <2>. QED BY <1>0, <2>1, ReturnKeeps
  <1>2. CASE Same(x) /\ temps[w[x].slot] # NoTemp
    <2>1. /\ w[x].dir = dir
          /\ final' = File(temps[w[x].slot].by, temps[w[x].slot].whole)
          /\ temps' = [temps EXCEPT ![w[x].slot] = NoTemp]
          /\ w' = [w EXCEPT ![x].pc = "done", ![x].outcome = "published"]
          /\ active' = [active EXCEPT ![ProcOf[x]] = @ \ {x}]
          /\ lock' = [f \in Locks |-> lock[f] \ {x}]
      BY <1>2 DEF Rename, Same, Parent
    <2>2. w[x].slot \in Slots
      BY <1>0 DEF IInv, TempsAreOwned, Writing
    <2>3. ~orphaned => /\ temps[w[x].slot].by = x /\ temps[w[x].slot].whole = TRUE
                       /\ final.kind # "file"
      BY <1>0, <1>2, <2>1, <2>2, Fields DEF IInv, TempsAreWhole, Writing, FinalIsOwned, Temp
    <2>4. final' \in Finals /\ (~orphaned => final' = File(x, TRUE))
      <3>1. temps[w[x].slot].by \in Owners /\ temps[w[x].slot].whole \in BOOLEAN
        BY <1>0, <2>2, Fields DEF Temp
      <3>. QED BY <2>1, <2>3, <3>1 DEF File, Finals
    <2>5. /\ w' \in [Writers -> Call] /\ w'[x].pc = "done" /\ w'[x].outcome = "published"
          /\ w'[x].dir = dir /\ w'[x].slot = w[x].slot /\ \A y \in Writers \ {x} : w'[y] = w[y]
      BY <1>0, <2>1 DEF TypeOK, Call, Stages, Outcomes
    <2>6. /\ temps' \in [Slots -> Temp(Owners)] /\ temps'[w[x].slot] = NoTemp
          /\ \A s \in Slots \ {w[x].slot} : temps'[s] = temps[s]
      BY <1>0, <2>1, <2>2, Fields DEF TypeOK
    <2>7. /\ active' \in [Procs -> SUBSET Writers] /\ lock' \in [Locks -> SUBSET Writers]
          /\ \A f \in Locks : lock'[f] = lock[f] \ {x}
      BY <1>0, <2>1 DEF TypeOK
    <2>8. ~orphaned => \A y \in Writers \ {x} : Alive(y) /\ w[y].dir = dir => w[y].pc \notin Locking
      <3>1. w[x].pc \in Locking /\ OneWriter
        BY <1>0, Alone DEF IInv, Locking
      <3>. QED BY <1>0, <2>1, <3>1 DEF OneWriter
    <2>. USE <1>0, <2>2, <2>4, <2>5, <2>6, <2>7, Fields DEF IInv, Alive
    <2>9. TypeOK'
      BY DEF TypeOK
    <2>10. LockIsHeld' /\ LockIsNamed'
      <3>1. LockIsHeld'
        BY DEF LockIsHeld, Locking
      <3>2. LockIsNamed'
        BY DEF LockIsNamed, Opening, Locking
      <3>. QED BY <3>1, <3>2
    <2>11. TempsAreOwned'
      <3>1. ASSUME NEW t \in Slots, temps'[t].by \in Writers
            PROVE  LET y == temps'[t].by IN w'[y].pc \in Writing /\ w'[y].slot = t /\ w'[y].dir = dir
        <4>1. t # w[x].slot /\ temps'[t] = temps[t] /\ temps[t].by # x
          BY <3>1 DEF TempsAreOwned
        <4>. QED BY <3>1, <4>1 DEF TempsAreOwned
      <3>2. \A y \in Writers : w'[y].pc \in Writing => w'[y].slot \in Slots
        BY DEF TempsAreOwned, Writing
      <3>3. \A y \in Writers : w'[y].pc \notin Writing \union {"done"} => w'[y].slot \notin Slots
        BY DEF TempsAreOwned, Writing
      <3>. QED BY <3>1, <3>2, <3>3 DEF TempsAreOwned
    <2>12. TempsAreWhole'
      <3>1. ASSUME NEW y \in Writers, Alive(y), w'[y].pc \in Writing, w'[y].dir = dir, ~orphaned
            PROVE  FALSE
        BY <2>8, <3>1 DEF Writing, Locking
      <3>. QED BY <3>1 DEF TempsAreWhole
    <2>13. FinalIsOwned'
      <3>1. ~orphaned => \A y \in Writers : Alive(y) /\ w'[y].dir = dir => w'[y].pc # "rename"
        BY <2>8 DEF Locking
      <3>. QED BY <3>1 DEF FinalIsOwned, File
    <2>14. ArtifactIsWhole'
      <3>1. ASSUME NEW y \in Writers, w'[y].pc = "done", w'[y].dir = dir
            PROVE  (~orphaned' => IsTold(y)') /\ \A s \in Slots : temps'[s].by # y
        <4>1. CASE y = x
          <5>1. \A s \in Slots : temps'[s].by # x
            BY DEF TempsAreOwned
          <5>2. ~orphaned' => IsTold(x)'
            BY DEF IsTold
          <5>. QED BY <4>1, <5>1, <5>2
        <4>2. CASE y # x
          <5>1. w'[y] = w[y]
            BY <4>2
          <5>2. (~orphaned => IsTold(y)) /\ \A s \in Slots : temps[s].by # y
            BY <3>1, <5>1, Told
          <5>3. \A s \in Slots : temps'[s].by # y
            BY <5>2
          <5>4. ASSUME ~orphaned PROVE IsTold(y)'
            <6>1. \A z \in Writers : final # File(z, TRUE)
              BY <2>3, <5>4 DEF File
            <6>. QED BY <5>1, <5>2, <5>4, <6>1 DEF IsTold
          <5>. QED BY <5>3, <5>4
        <4>. QED BY <4>1, <4>2
      <3>2. ~orphaned' /\ final'.kind = "file" => final'.whole /\ final'.by \in Writers
        BY DEF File
      <3>. QED BY <3>1, <3>2 DEF ArtifactIsWhole, IsTold
    <2>. QED BY <2>9, <2>10, <2>11, <2>12, <2>13, <2>14
  <1>. QED BY <1>1, <1>2

\* A step that changes neither the files, the locks nor the calls keeps everything.
LEMMA RestKeeps ==
    ASSUME IInv, UNCHANGED <<dir, final, temps, lockName, active, lock, w, crashed, taken, orphaned>>,
           aborted' \in SUBSET Writers
    PROVE  IInv'
  <1>1. TypeOK'
    BY DEF IInv, TypeOK
  <1>2. LockIsHeld' /\ LockIsNamed'
    BY DEF IInv, LockIsHeld, LockIsNamed, Alive
  <1>3. TempsAreOwned' /\ TempsAreWhole'
    BY DEF IInv, TempsAreOwned, TempsAreWhole, Alive
  <1>4. FinalIsOwned'
    BY DEF IInv, FinalIsOwned, Alive
  <1>5. ArtifactIsWhole'
    BY ArtifactStays DEF IInv
  <1>. QED BY <1>1, <1>2, <1>3, <1>4, <1>5 DEF IInv

\* Cancellation, time and a death leave what was answered as it is.
LEMMA SurroundingsKeep ==
    ASSUME IInv,
           (\E x \in Writers : Fails(x) \/ Abort(x)) \/ (\E s \in Slots : Age(s))
             \/ (\E p \in Procs : Crash(p))
    PROVE  IInv'
  <1>. USE Fields DEF IInv, Alive
  <1>1. ASSUME NEW x \in Writers, Fails(x)
        PROVE  IInv'
    BY <1>1, ReturnKeeps DEF Fails
  <1>2. ASSUME NEW x \in Writers, Abort(x)
        PROVE  IInv'
    BY <1>2, RestKeeps DEF Abort, TypeOK, files, kept
  <1>3. ASSUME NEW s \in Slots, Age(s)
        PROVE  IInv'
    <2>1. /\ temps' \in [Slots -> Temp(Owners)]
          /\ \A t \in Slots : /\ temps'[t].by = temps[t].by /\ temps'[t].whole = temps[t].whole
                              /\ temps[t] = NoTemp => temps'[t] = NoTemp
          /\ UNCHANGED <<dir, final, lockName, active, lock, w, aborted, crashed, taken, orphaned>>
      BY <1>3 DEF Age, TypeOK, Temp, kept
    <2>2. TypeOK' /\ LockIsHeld' /\ LockIsNamed' /\ FinalIsOwned'
      BY <2>1 DEF TypeOK, LockIsHeld, LockIsNamed, FinalIsOwned
    <2>3. TempsAreOwned' /\ TempsAreWhole'
      <3>1. TempsAreOwned'
        BY <2>1 DEF TempsAreOwned
      <3>2. TempsAreWhole'
        BY <2>1 DEF TempsAreOwned, TempsAreWhole
      <3>. QED BY <3>1, <3>2
    <2>4. ArtifactIsWhole'
      BY <2>1, ArtifactStays
    <2>. QED BY <2>2, <2>3, <2>4
  <1>4. ASSUME NEW p \in Procs, Crash(p)
        PROVE  IInv'
    <2>1. /\ lock' \in [Locks -> SUBSET Writers]
          /\ \A f \in Locks : lock'[f] = {x \in lock[f] : ProcOf[x] # p}
          /\ crashed' = crashed \union {p}
          /\ UNCHANGED <<dir, final, temps, lockName, active, w, aborted, taken, orphaned>>
      BY <1>4 DEF Crash, TypeOK, files, kept
    <2>2. TypeOK'
      BY <2>1 DEF TypeOK
    <2>3. LockIsHeld' /\ LockIsNamed'
      BY <2>1 DEF LockIsHeld, LockIsNamed
    <2>4. TempsAreOwned' /\ TempsAreWhole' /\ FinalIsOwned'
      BY <2>1 DEF TempsAreOwned, TempsAreWhole, FinalIsOwned
    <2>5. ArtifactIsWhole'
      BY <2>1, ArtifactStays
    <2>. QED BY <2>2, <2>3, <2>4, <2>5
  <1>. QED BY <1>1, <1>2, <1>3, <1>4

\* Retention removes one child at a time: what it takes is remembered, a lock file that a living
\* call has open is an orphan, and a directory that is removed is nobody's any more.
LEMMA SweepKeeps ==
    ASSUME IInv, SweepFinal \/ SweepLock \/ SweepDirectory \/ (\E s \in Slots : SweepTemp(s))
    PROVE  IInv'
  <1>. USE Fields DEF IInv, Alive
  <1>0. Absent.kind = "absent" /\ Absent \in Finals
    BY DEF Absent, Owners, Finals
  <1>1. ASSUME SweepFinal
        PROVE  IInv'
    <2>1. /\ final' = Absent /\ final'.kind = "absent" /\ final' \in Finals
          /\ final.kind = "file" /\ final.by \in Owners /\ taken' = taken \union {final.by}
          /\ UNCHANGED <<dir, temps, lockName, active, lock, w, aborted, crashed, orphaned>>
      BY <1>0, <1>1 DEF SweepFinal, TypeOK, Finals
    <2>2. TypeOK' /\ LockIsHeld' /\ LockIsNamed'
      BY <2>1 DEF TypeOK, LockIsHeld, LockIsNamed
    <2>3. TempsAreOwned' /\ TempsAreWhole' /\ FinalIsOwned'
      BY <2>1 DEF TempsAreOwned, TempsAreWhole, FinalIsOwned
    <2>4. ASSUME NEW y \in Writers, w'[y].pc = "done", w'[y].dir = dir
          PROVE  (~orphaned' => IsTold(y)') /\ \A s \in Slots : temps'[s].by # y
      <3>1. (~orphaned => IsTold(y)) /\ \A s \in Slots : temps[s].by # y
        BY <2>1, <2>4, Told
      <3>2. \A z \in Writers : final = File(z, TRUE) => z \in taken'
        BY <2>1 DEF File
      <3>3. ~orphaned' => IsTold(y)'
        BY <2>1, <3>1, <3>2 DEF IsTold
      <3>. QED BY <2>1, <3>1, <3>3
    <2>5. ArtifactIsWhole'
      BY <2>1, <2>4 DEF ArtifactIsWhole, IsTold
    <2>. QED BY <2>2, <2>3, <2>5
  <1>2. ASSUME SweepLock
        PROVE  IInv'
    <2>1. /\ lockName' = None /\ orphaned' = (orphaned \/ \E x \in Writers : Opened(x))
          /\ UNCHANGED <<dir, final, temps, active, lock, w, aborted, crashed, taken>>
      BY <1>2 DEF SweepLock
    <2>2. None \in Locks /\ orphaned' \in BOOLEAN /\ (~orphaned' => ~orphaned)
      BY <2>1 DEF Locks
    <2>3. TypeOK' /\ LockIsHeld'
      BY <2>1, <2>2 DEF TypeOK, LockIsHeld
    <2>4. LockIsNamed'
      <3>1. ASSUME ~orphaned', NEW x \in Writers, Alive(x), w[x].pc \in Opening, w[x].dir = dir
            PROVE  FALSE
        <4>1. w[x].lock = lockName /\ w[x].pc \notin {"idle", "process", "done"}
          BY <2>2, <3>1 DEF LockIsNamed, Opening, Locking
        <4>. QED BY <2>1, <3>1, <4>1 DEF Opened
      <3>. QED BY <2>1, <3>1 DEF LockIsNamed
    <2>5. TempsAreOwned' /\ TempsAreWhole' /\ FinalIsOwned'
      BY <2>1, <2>2 DEF TempsAreOwned, TempsAreWhole, FinalIsOwned
    <2>6. ArtifactIsWhole'
      BY <2>1, <2>2, ArtifactStays
    <2>. QED BY <2>3, <2>4, <2>5, <2>6
  <1>3. ASSUME SweepDirectory
        PROVE  IInv'
    <2>1. /\ dir' = dir + 1 /\ dir' \in Dirs /\ \A x \in Writers : w[x].dir # dir'
          /\ \A s \in Slots : temps[s] = NoTemp
          /\ final = Absent /\ taken' = {} /\ orphaned' = FALSE
          /\ UNCHANGED <<final, temps, lockName, active, lock, w, aborted, crashed>>
      BY <1>3, PublishAssumption DEF SweepDirectory, Sweeping, Dirs, LockIsHeld
    <2>2. TypeOK'
      <3>1. orphaned' \in BOOLEAN
        BY <2>1, Zenon
      <3>. QED BY <2>1, <3>1 DEF TypeOK
    <2>3. LockIsHeld' /\ LockIsNamed'
      <3>1. dir \in Nat /\ \A x \in Writers : w[x].dir \in Nat /\ w[x].dir <= dir
        BY DEF LockIsHeld
      <3>2. \A x \in Writers : w'[x].dir <= dir'
        BY <2>1, <3>1
      <3>3. LockIsHeld'
        BY <2>1, <3>2 DEF LockIsHeld
      <3>4. LockIsNamed'
        BY <2>1 DEF LockIsNamed
      <3>. QED BY <3>3, <3>4
    <2>4. TempsAreOwned' /\ TempsAreWhole'
      BY <2>1 DEF TempsAreOwned, TempsAreWhole
    <2>5. FinalIsOwned' /\ ArtifactIsWhole'
      BY <1>0, <2>1 DEF FinalIsOwned, ArtifactIsWhole
    <2>. QED BY <2>2, <2>3, <2>4, <2>5
  <1>4. ASSUME NEW s \in Slots, SweepTemp(s)
        PROVE  IInv'
    <2>1. /\ temps' \in [Slots -> Temp(Owners)] /\ temps'[s] = NoTemp
          /\ \A t \in Slots \ {s} : temps'[t] = temps[t]
          /\ UNCHANGED <<dir, final, lockName, active, lock, w, aborted, crashed, taken, orphaned>>
      BY <1>4 DEF SweepTemp, TypeOK, kept
    <2>2. TypeOK' /\ LockIsHeld' /\ LockIsNamed' /\ FinalIsOwned'
      BY <2>1 DEF TypeOK, LockIsHeld, LockIsNamed, FinalIsOwned
    <2>3. TempsAreOwned' /\ TempsAreWhole'
      <3>1. TempsAreOwned'
        BY <2>1 DEF TempsAreOwned
      <3>2. TempsAreWhole'
        BY <2>1 DEF TempsAreOwned, TempsAreWhole
      <3>. QED BY <3>1, <3>2
    <2>4. ArtifactIsWhole'
      BY <2>1, ArtifactStays
    <2>. QED BY <2>2, <2>3, <2>4
  <1>. QED BY <1>1, <1>2, <1>3, <1>4

-----------------------------------------------------------------------------

\* The invariant holds in every behaviour of the publishers, whatever happens around them.
LEMMA Invariance == Spec => []IInv
  <1>1. Init => IInv
    BY InitHolds
  <1>2. IInv /\ [Next]_vars => IInv'
    <2>. SUFFICES ASSUME IInv, [Next]_vars PROVE IInv'
      OBVIOUS
    <2>1. CASE UNCHANGED vars
      BY <2>1, RestKeeps DEF vars, files, kept, IInv, TypeOK
    <2>2. CASE Next
      BY <2>2, OpenKeeps, LocksKeep, EnterKeeps, CreateKeeps, WriteKeeps, InspectKeeps, RenameKeeps,
         SurroundingsKeep, SweepKeeps DEF Next
    <2>. QED BY <2>1, <2>2
  <1>. QED BY <1>1, <1>2, PTL DEF Spec

\* Whoever was told "published" finds its own whole artifact, whoever was told "preserved" a whole
\* one of another, unless retention took it since, and a call that returned leaves no temporary,
\* for any number of publishers, processes, crashes and retention passes that remove the directory
\* child by child; the first two while no pass has unlinked the lock file under a living call
\* (cache/atomic.rs, publish; cache/retention.rs, remove_directory).
THEOREM ArtifactsAreWhole == Spec => []ArtifactIsWhole
  <1>1. IInv => ArtifactIsWhole
    BY DEF IInv
  <1>. QED BY <1>1, Invariance, PTL

\* At most one living call of the present directory is past its file lock as long as retention
\* has not unlinked the lock file under a living call, and the types are kept (acquire_lock,
\* open_lock, which follow the name of the lock file only when they open it).
THEOREM LocksExclude == Spec => [](TypeOK /\ OneWriter)
  <1>1. IInv => TypeOK /\ OneWriter
    BY Alone DEF IInv
  <1>. QED BY <1>1, Invariance, PTL

-----------------------------------------------------------------------------
(* PART TWO: the activity log.                                             *)

\* The stages in which a task holds the lock file.
InLog == {"expire", "rotate", "move", "append"}
LogStages == {"idle", "lock"} \union InLog

\* Every variable of the log has its type.
LogTypeOK ==
  /\ limit \in Limits /\ current \in Seq(Nat) /\ archive \in [1 .. MaxLimit -> Seq(Nat)]
  /\ logLock \in Loggers \union {Nobody}
  /\ mutex \in [{LoggerOf[x] : x \in Loggers} -> Loggers \union {Nobody}]
  /\ logger \in [Loggers -> [pc : LogStages, index : Nat]]
  /\ recorded \in Nat /\ aged \in Nat
  /\ killed \in SUBSET {LoggerOf[x] : x \in Loggers}

\* A living task that looks at the files holds the lock file.
LoggerIsAlone ==
  \A x \in Loggers : LoggerOf[x] \notin killed /\ logger[x].pc \in InLog => logLock = x

\* Where a rotation puts a file there is none, an archive that is looked at is one of those in use,
\* and a log to which a line is appended has room for it.
StageIsReady ==
  \A x \in Loggers :
    /\ LogsAt(x, "expire") => logger[x].index > 0
    /\ LogsAt(x, "move") => logger[x].index < limit /\ archive[logger[x].index + 1] = <<>>
    /\ LogsAt(x, "append") => current = <<>> \/ Len(current) + 1 <= Retention

\* No archive lies beyond max_archives, and no file holds what was not recorded.
FilesInUse ==
  /\ \A i \in 1 .. MaxLimit : i > limit => archive[i] = <<>>
  /\ \A i \in LogFiles : \A n \in Holds(i) : n \in 1 .. recorded

LogInv == LogTypeOK /\ LoggerIsAlone /\ StageIsReady /\ FilesInUse /\ LogKeepsTheLatest

-----------------------------------------------------------------------------
\* The largest of the limits, and the files that a limit allows.
LEMMA LimitsAreBounded == MaxLimit \in Nat /\ \A n \in Limits : n \in 0 .. MaxLimit
  <1>1. MaxLimit \in Limits /\ \A m \in Limits : m <= MaxLimit
    BY LogAssumption, Zenon DEF MaxLimit
  <1>. QED BY <1>1, LogAssumption

\* What a file of the log is.
LEMMA FilesHaveContent ==
    ASSUME LogTypeOK
    PROVE  /\ \A i \in LogFiles : Content(i) \in Seq(Nat)
           /\ \A i \in LogFiles : Content(i) = <<>> => Holds(i) = {}
           /\ \A i \in LogFiles : \A n \in Holds(i) : n \in Nat
           /\ \A i \in 1 .. MaxLimit : i \in LogFiles /\ Content(i) = archive[i]
           /\ 0 \in LogFiles /\ Content(0) = current
           /\ MaxLimit \in Nat /\ limit \in 0 .. MaxLimit
  <1>1. MaxLimit \in Nat /\ limit \in 0 .. MaxLimit /\ 0 \in LogFiles /\ 1 .. MaxLimit \subseteq LogFiles
    BY LimitsAreBounded DEF LogTypeOK, LogFiles
  <1>2. /\ \A i \in 1 .. MaxLimit : Content(i) = archive[i]
        /\ Content(0) = current
    BY <1>1 DEF Content
  <1>3. \A i \in LogFiles : Content(i) \in Seq(Nat)
    <2>1. \A i \in LogFiles : i = 0 \/ i \in 1 .. MaxLimit
      BY <1>1 DEF LogFiles
    <2>. QED BY <1>2, <2>1 DEF LogTypeOK
  <1>4. \A i \in LogFiles : (Content(i) = <<>> => Holds(i) = {}) /\ \A n \in Holds(i) : n \in Nat
    BY <1>3 DEF Holds
  <1>. QED BY <1>1, <1>2, <1>3, <1>4

\* Files that go: what was in the oldest ones, or was found too old.
LEMMA FilesGo ==
    ASSUME LogTypeOK, LogTypeOK', LogIsOrdered, OldestGoFirst, FilesInUse,
           recorded' = recorded, aged' >= aged, limit' = limit,
           \A i \in LogFiles : Content(i)' = Content(i) \/ Content(i)' = <<>>,
           \A i \in LogFiles : Content(i)' # Content(i) =>
             \/ \A n \in Holds(i) : n <= aged'
             \/ \A j \in LogFiles : j > i => Content(j)' = <<>>
    PROVE  LogIsOrdered' /\ OldestGoFirst' /\ FilesInUse'
  <1>1. \A i \in LogFiles : Content(i)' = Content(i) => Holds(i)' = Holds(i)
    BY DEF Holds
  <1>2. \A i \in LogFiles : Content(i)' = <<>> => Holds(i)' = {}
    BY DEF Holds
  <1>3. LogFiles' = LogFiles /\ LogFiles \subseteq Nat /\ recorded \in Nat /\ aged \in Nat /\ aged' \in Nat
    BY LimitsAreBounded DEF LogFiles, LogTypeOK
  <1>4. LogIsOrdered'
    BY <1>1, <1>2, <1>3 DEF LogIsOrdered
  <1>5. OldestGoFirst'
    <2> SUFFICES ASSUME NEW i \in LogFiles, NEW n \in Holds(i)', NEW m \in n .. recorded, m > aged'
                 PROVE  \E j \in LogFiles : m \in Holds(j)'
      BY <1>3 DEF OldestGoFirst
    <2>1. Holds(i)' = Holds(i) /\ n \in Holds(i) /\ Content(i)' # <<>> /\ n \in Nat
      BY <1>1, <1>2, FilesHaveContent
    <2>2. PICK j \in LogFiles : m \in Holds(j)
      BY <2>1, <1>3 DEF OldestGoFirst
    <2>3. CASE Content(j)' = Content(j)
      BY <2>2, <2>3, <1>1
    <2>4. CASE Content(j)' # Content(j)
      <3>0. m \in Nat /\ ~(m <= aged')
        BY <1>3, <2>1
      <3>1. \A k \in LogFiles : k > j => Content(k)' = <<>>
        BY <3>0, <2>2, <2>4
      <3>2. ~(i > j)
        BY <3>1, <2>1
      <3>3. i # j
        BY <2>4, <2>1
      <3>4. m < n
        BY <3>2, <3>3, <2>1, <2>2, <1>3 DEF LogIsOrdered
      <3>. QED BY <3>4, <1>3, <2>1
    <2>. QED BY <2>3, <2>4
  <1>6. FilesInUse'
    <2>1. \A i \in 1 .. MaxLimit : i > limit => archive'[i] = <<>>
      <3>1. \A i \in 1 .. MaxLimit : i \in LogFiles /\ i # 0 /\ Content(i) = archive[i]
        BY FilesHaveContent
      <3>2. \A i \in 1 .. MaxLimit : Content(i)' = archive'[i]
        BY <3>1 DEF Content
      <3>3. \A i \in 1 .. MaxLimit : i > limit => archive[i] = <<>>
        BY DEF FilesInUse
      <3>. QED BY <3>1, <3>2, <3>3
    <2>2. \A i \in LogFiles : \A n \in Holds(i)' : n \in 1 .. recorded
      BY <1>1, <1>2 DEF FilesInUse
    <2>. QED BY <2>1, <2>2, <1>3 DEF FilesInUse
  <1>. QED BY <1>4, <1>5, <1>6

\* A file that moves to the free place behind it keeps its events where they were.
LEMMA FileMoves ==
    ASSUME LogTypeOK, LogTypeOK', LogIsOrdered, OldestGoFirst, FilesInUse,
           UNCHANGED <<recorded, aged, limit>>,
           NEW i \in LogFiles, i < limit, Content(i + 1) = <<>>,
           Content(i + 1)' = Content(i), Content(i)' = <<>>,
           \A j \in LogFiles \ {i, i + 1} : Content(j)' = Content(j)
    PROVE  LogIsOrdered' /\ OldestGoFirst' /\ FilesInUse'
  <1>1. LogFiles' = LogFiles /\ LogFiles \subseteq Nat /\ i + 1 \in LogFiles /\ MaxLimit \in Nat
    BY FilesHaveContent DEF LogFiles
  <1>2. \A j \in LogFiles : Holds(j)' =
          IF j = i THEN {} ELSE IF j = i + 1 THEN Holds(i) ELSE Holds(j)
    BY <1>1 DEF Holds
  <1>3. Holds(i + 1) = {}
    BY DEF Holds
  <1>4. LogIsOrdered'
    <2>1. \A j \in LogFiles : \A k, l \in DOMAIN (Content(j)') : k < l => (Content(j)')[k] < (Content(j)')[l]
      <3> SUFFICES ASSUME NEW j \in LogFiles
                   PROVE  \A k, l \in DOMAIN (Content(j)') : k < l => (Content(j)')[k] < (Content(j)')[l]
        OBVIOUS
      <3>1. CASE j = i
        BY <3>1
      <3>2. CASE j = i + 1
        BY <3>2, <1>1 DEF LogIsOrdered
      <3>3. CASE j \notin {i, i + 1}
        BY <3>3 DEF LogIsOrdered
      <3>. QED BY <3>1, <3>2, <3>3
    <2>2. \A j, k \in LogFiles : j < k => \A m \in Holds(j)', n \in Holds(k)' : n < m
      BY <1>1, <1>2, <1>3 DEF LogIsOrdered
    <2>. QED BY <2>1, <2>2, <1>1 DEF LogIsOrdered
  <1>5. OldestGoFirst'
    <2>1. \A n : (\E j \in LogFiles : n \in Holds(j)') <=> (\E j \in LogFiles : n \in Holds(j))
      BY <1>1, <1>2, <1>3
    <2>. QED BY <2>1, <1>1 DEF OldestGoFirst
  <1>6. FilesInUse'
    <2>1. \A j \in 1 .. MaxLimit : j > limit => archive'[j] = <<>>
      <3> SUFFICES ASSUME NEW j \in 1 .. MaxLimit, j > limit PROVE archive'[j] = <<>>
        OBVIOUS
      <3>1. j \in LogFiles /\ j # 0 /\ j \notin {i, i + 1} /\ archive[j] = <<>>
        BY <1>1, FilesHaveContent DEF FilesInUse, LogFiles
      <3>. QED BY <3>1 DEF Content
    <2>2. \A j \in LogFiles : \A n \in Holds(j)' : n \in 1 .. recorded
      BY <1>1, <1>2 DEF FilesInUse
    <2>. QED BY <2>1, <2>2, <1>1 DEF FilesInUse
  <1>. QED BY <1>4, <1>5, <1>6

\* A line that is appended, whole or cut short, is the newest event.
LEMMA FileGrows ==
    ASSUME LogTypeOK, LogTypeOK', LogIsOrdered, OldestGoFirst, FilesInUse,
           UNCHANGED <<archive, aged, limit>>,
           current' = Append(current, Event), recorded' = Event
    PROVE  LogIsOrdered' /\ OldestGoFirst' /\ FilesInUse'
  <1>1. /\ LogFiles' = LogFiles /\ LogFiles \subseteq Nat /\ 0 \in LogFiles /\ MaxLimit \in Nat
        /\ recorded \in Nat /\ aged \in Nat /\ current \in Seq(Nat) /\ Event = recorded + 1
    BY FilesHaveContent DEF LogFiles, LogTypeOK, Event
  <1>2. \A j \in LogFiles : j # 0 => Content(j)' = Content(j) /\ Holds(j)' = Holds(j)
    BY DEF Content, Holds
  <1>3. Content(0)' = Append(current, Event) /\ Content(0) = current
    BY DEF Content
  <1>4. Holds(0)' = Holds(0) \union {Event}
    <2>1. \A k \in DOMAIN Append(current, Event) :
            Append(current, Event)[k] = IF k = Len(current) + 1 THEN Event ELSE current[k]
      BY <1>1
    <2>2. DOMAIN Append(current, Event) = DOMAIN current \union {Len(current) + 1}
      BY <1>1
    <2>3. Len(current) + 1 \notin DOMAIN current
      BY <1>1
    <2>. QED BY <2>1, <2>2, <2>3, <1>3 DEF Holds
  <1>5. \A j \in LogFiles : \A n \in Holds(j) : n \in Nat /\ n <= recorded /\ n >= 1
    BY <1>1 DEF FilesInUse
  <1>6. LogIsOrdered'
    <2>1. \A k, l \in DOMAIN Append(current, Event) : k < l => Append(current, Event)[k] < Append(current, Event)[l]
      <3> SUFFICES ASSUME NEW k \in DOMAIN Append(current, Event), NEW l \in DOMAIN Append(current, Event), k < l
                   PROVE  Append(current, Event)[k] < Append(current, Event)[l]
        OBVIOUS
      <3>1. k \in DOMAIN current /\ l \in 1 .. Len(current) + 1
        BY <1>1
      <3>2. CASE l \in DOMAIN current
        BY <3>1, <3>2, <1>1, <1>3 DEF LogIsOrdered
      <3>3. CASE l = Len(current) + 1
        <4>1. current[k] \in Holds(0)
          BY <3>1, <1>3 DEF Holds
        <4>2. current[k] <= recorded /\ current[k] \in Nat
          BY <4>1, <1>5, <1>1
        <4>. QED BY <4>2, <3>1, <3>3, <1>1
      <3>. QED BY <3>1, <3>2, <3>3, <1>1
    <2>2. \A j \in LogFiles : \A k, l \in DOMAIN (Content(j)') : k < l => (Content(j)')[k] < (Content(j)')[l]
      BY <2>1, <1>2, <1>3 DEF LogIsOrdered
    <2>3. \A j, k \in LogFiles : j < k => \A m \in Holds(j)', n \in Holds(k)' : n < m
      <3> SUFFICES ASSUME NEW j \in LogFiles, NEW k \in LogFiles, j < k,
                          NEW m \in Holds(j)', NEW n \in Holds(k)'
                   PROVE  n < m
        OBVIOUS
      <3>1. k # 0 /\ k \in Nat
        BY <1>1 DEF LogFiles
      <3>2. n \in Holds(k) /\ n \in Nat /\ n <= recorded
        BY <1>2, <1>5, <3>1
      <3>3. m \in Holds(j) \/ m = Event
        BY <1>2, <1>4
      <3>4. CASE m \in Holds(j)
        BY <3>2, <3>4 DEF LogIsOrdered
      <3>5. CASE m = Event
        BY <1>1, <3>2, <3>5 DEF Event
      <3>. QED BY <3>3, <3>4, <3>5
    <2>. QED BY <2>2, <2>3, <1>1 DEF LogIsOrdered
  <1>7. OldestGoFirst'
    <2> SUFFICES ASSUME NEW j \in LogFiles, NEW n \in Holds(j)', NEW m \in n .. Event, m > aged
                 PROVE  \E k \in LogFiles : m \in Holds(k)'
      BY <1>1 DEF OldestGoFirst
    <2>1. CASE m = Event
      BY <2>1, <1>1, <1>4
    <2>2. CASE m # Event
      <3>1. n \in Holds(j) /\ n \in Nat
        BY <2>2, <1>1, <1>2, <1>4, <1>5
      <3>2. m \in n .. recorded
        BY <3>1, <2>2, <1>1
      <3>3. \E k \in LogFiles : m \in Holds(k)
        BY <3>1, <3>2 DEF OldestGoFirst
      <3>. QED BY <3>3, <1>2, <1>4
    <2>. QED BY <2>1, <2>2
  <1>8. FilesInUse'
    <2>1. \A j \in LogFiles : \A n \in Holds(j)' : n \in 1 .. Event
      BY <1>1, <1>2, <1>4, <1>5
    <2>. QED BY <2>1, <1>1 DEF FilesInUse
  <1>. QED BY <1>6, <1>7, <1>8

-----------------------------------------------------------------------------
(* The steps.                                                              *)

\* The invariant holds at the start.
LEMMA LogInitHolds == ASSUME LogInit PROVE LogInv
  <1>1. LogTypeOK
    BY LimitsAreBounded DEF LogInit, LogTypeOK, LogStages, InLog
  <1>2. \A i \in LogFiles : Content(i) = <<>> /\ Holds(i) = {}
    BY DEF LogInit, LogFiles, Content, Holds
  <1>. QED
    BY <1>1, <1>2 DEF LogInit, LogInv, LoggerIsAlone, StageIsReady, FilesInUse, LogKeepsTheLatest,
                      LogIsOrdered, OldestGoFirst, LogsAt, InLog

\* Where a task goes.
LEMMA LoggerMoves ==
    ASSUME LogTypeOK, NEW x \in Loggers, NEW p \in LogStages, NEW i \in Nat, LogsNext(x, p, i)
    PROVE  /\ logger' \in [Loggers -> [pc : LogStages, index : Nat]]
           /\ logger'[x].pc = p /\ logger'[x].index = i
           /\ \A y \in Loggers \ {x} : logger'[y] = logger[y]
  BY DEF LogTypeOK, LogsNext

\* A step that leaves the files alone keeps what they hold.
LEMMA FilesStay ==
    ASSUME LogInv, LogTypeOK', UNCHANGED <<limit, current, archive, recorded>>, aged' >= aged
    PROVE  LogKeepsTheLatest' /\ FilesInUse'
  <1>1. \A i \in LogFiles : Content(i)' = Content(i)
    BY DEF Content
  <1>2. LogIsOrdered' /\ OldestGoFirst' /\ FilesInUse'
    BY <1>1, FilesGo DEF LogInv, LogKeepsTheLatest
  <1>. QED BY <1>2 DEF LogInv, LogKeepsTheLatest

\* Before the lock file: the mutex, the lock, its deadline.
LEMMA EntryKeepsLog ==
    ASSUME LogInv, NEW x \in Loggers, TakeMutex(x) \/ LockLog(x) \/ LockFails(x)
    PROVE  LogInv'
  <1>1. CASE TakeMutex(x)
    <2>1. /\ logger' \in [Loggers -> [pc : LogStages, index : Nat]] /\ logger'[x].pc = "lock"
          /\ \A y \in Loggers \ {x} : logger'[y] = logger[y]
      BY <1>1, LoggerMoves DEF LogInv, TakeMutex, LogStages
    <2>2. LogTypeOK'
      BY <1>1, <2>1 DEF LogInv, LogTypeOK, TakeMutex
    <2>3. LogKeepsTheLatest' /\ FilesInUse'
      BY <1>1, <2>2, FilesStay DEF LogInv, LogTypeOK, TakeMutex
    <2>4. LoggerIsAlone' /\ StageIsReady'
      BY <1>1, <2>1 DEF LogInv, LoggerIsAlone, StageIsReady, LogsAt, InLog, TakeMutex
    <2>. QED BY <2>2, <2>3, <2>4 DEF LogInv
  <1>2. CASE LockLog(x)
    <2>1. /\ logger' \in [Loggers -> [pc : LogStages, index : Nat]]
          /\ logger'[x].pc = "expire" /\ logger'[x].index = 1
          /\ \A y \in Loggers \ {x} : logger'[y] = logger[y]
      BY <1>2, LoggerMoves DEF LogInv, LockLog, LogStages, InLog
    <2>2. LogTypeOK' /\ aged' >= aged
      BY <1>2, <2>1 DEF LogInv, LogTypeOK, LockLog
    <2>3. LogKeepsTheLatest' /\ FilesInUse'
      BY <1>2, <2>2, FilesStay DEF LockLog
    <2>4. LoggerIsAlone'
      BY <1>2, <2>1, LogAssumption DEF LogInv, LoggerIsAlone, LockLog, MayEnter, Nobody
    <2>5. StageIsReady'
      BY <1>2, <2>1 DEF LogInv, StageIsReady, LogsAt, LockLog
    <2>. QED BY <2>2, <2>3, <2>4, <2>5 DEF LogInv
  <1>3. CASE LockFails(x)
    <2>1. /\ logger' \in [Loggers -> [pc : LogStages, index : Nat]] /\ logger'[x].pc = "idle"
          /\ \A y \in Loggers \ {x} : logger'[y] = logger[y]
      BY <1>3, LoggerMoves DEF LogInv, LockFails, LogStages
    <2>2. LogTypeOK'
      BY <1>3, <2>1 DEF LogInv, LogTypeOK, LockFails
    <2>3. LogKeepsTheLatest' /\ FilesInUse'
      BY <1>3, <2>2, FilesStay DEF LogInv, LogTypeOK, LockFails
    <2>4. LoggerIsAlone' /\ StageIsReady'
      BY <1>3, <2>1 DEF LogInv, LoggerIsAlone, StageIsReady, LogsAt, InLog, LockFails
    <2>. QED BY <2>2, <2>3, <2>4 DEF LogInv
  <1>. QED BY <1>1, <1>2, <1>3

\* What is known of the others while one task is at the files.
LEMMA OthersAreElsewhere ==
    ASSUME LogInv, NEW x \in Loggers, logger[x].pc \in InLog, LoggerOf[x] \notin killed
    PROVE  /\ logLock = x
           /\ \A y \in Loggers \ {x} : LoggerOf[y] \notin killed => logger[y].pc \notin InLog
  BY DEF LogInv, LoggerIsAlone

\* Expiry and the decision about the rotation.
LEMMA ExpiryKeepsLog ==
    ASSUME LogInv, NEW x \in Loggers, RemoveExpiredArchive(x) \/ MeasureLog(x)
    PROVE  LogInv'
  <1>1. /\ logger[x].pc \in InLog /\ LoggerOf[x] \notin killed /\ logger[x].index \in Nat
        /\ logger[x].index > 0 /\ logLock = x
        /\ \A y \in Loggers \ {x} : LoggerOf[y] \notin killed => logger[y].pc \notin InLog
    BY OthersAreElsewhere DEF RemoveExpiredArchive, MeasureLog, LogsAt, InLog, LogInv, LogTypeOK, StageIsReady
  <1>2. limit \in 0 .. MaxLimit /\ MaxLimit \in Nat
    BY FilesHaveContent DEF LogInv
  <1>3. CASE RemoveExpiredArchive(x)
    <2> DEFINE i == logger[x].index
    <2>1. /\ logger' \in [Loggers -> [pc : LogStages, index : Nat]]
          /\ logger'[x].pc = "expire" /\ logger'[x].index = i + 1
          /\ \A y \in Loggers \ {x} : logger'[y] = logger[y]
      BY <1>3, <1>1, LoggerMoves DEF LogInv, RemoveExpiredArchive, LogStages, InLog
    <2>2. i \in 1 .. MaxLimit
      BY <1>1, <1>2, <1>3 DEF RemoveExpiredArchive
    <2>3. LogTypeOK'
      BY <1>3, <2>1, <2>2 DEF LogInv, LogTypeOK, RemoveExpiredArchive
    <2>4. CASE ~Expired(i)
      <3>1. UNCHANGED <<limit, current, archive, recorded, aged, killed, logLock>>
        BY <2>4, <1>3 DEF RemoveExpiredArchive
      <3>2. LogKeepsTheLatest' /\ FilesInUse'
        BY <3>1, <2>3, FilesStay DEF LogInv, LogTypeOK
      <3>3. LoggerIsAlone' /\ StageIsReady'
        BY <3>1, <2>1, <1>1 DEF LoggerIsAlone, StageIsReady, LogsAt, InLog
      <3>. QED BY <2>3, <3>2, <3>3 DEF LogInv
    <2>5. CASE Expired(i)
      <3>1. archive' = [archive EXCEPT ![i] = <<>>] /\ UNCHANGED <<limit, current, recorded, aged, killed, logLock>>
        BY <2>5, <1>3 DEF RemoveExpiredArchive
      <3>2. \A j \in LogFiles : Content(j)' = IF j = i THEN <<>> ELSE Content(j)
        BY <3>1, <2>2, <1>2 DEF LogInv, LogTypeOK, LogFiles, Content
      <3>3. \A n \in Holds(i) : n <= aged
        <4>1. i \in LogFiles /\ Content(i) = archive[i] /\ archive[i] \in Seq(Nat) /\ archive[i] # <<>>
          BY <2>2, <2>5, <1>2 DEF LogFiles, Content, Expired, LogInv, LogTypeOK
        <4> SUFFICES ASSUME NEW k \in DOMAIN archive[i] PROVE archive[i][k] <= aged
          BY <4>1 DEF Holds
        <4>2. /\ Len(archive[i]) \in DOMAIN archive[i] /\ k \in 1 .. Len(archive[i]) /\ Len(archive[i]) \in Nat
              /\ archive[i][k] \in Nat /\ archive[i][Len(archive[i])] \in Nat
          BY <4>1
        <4>3. archive[i][k] <= archive[i][Len(archive[i])]
          <5>1. CASE k = Len(archive[i])
            BY <5>1, <4>2
          <5>2. CASE k < Len(archive[i])
            BY <5>2, <4>1, <4>2 DEF LogInv, LogKeepsTheLatest, LogIsOrdered
          <5>. QED BY <5>1, <5>2, <4>2
        <4>. QED BY <4>2, <4>3, <2>5 DEF Expired, LogInv, LogTypeOK
      <3>4. LogIsOrdered' /\ OldestGoFirst' /\ FilesInUse'
        BY <3>1, <3>2, <3>3, <2>3, FilesGo DEF LogInv, LogTypeOK, LogKeepsTheLatest
      <3>5. LogKeepsTheLatest'
        BY <3>1, <3>4 DEF LogInv, LogKeepsTheLatest
      <3>6. LoggerIsAlone' /\ StageIsReady'
        BY <3>1, <2>1, <1>1 DEF LoggerIsAlone, StageIsReady, LogsAt, InLog
      <3>. QED BY <2>3, <3>4, <3>5, <3>6 DEF LogInv
    <2>. QED BY <2>4, <2>5
  <1>4. CASE MeasureLog(x)
    <2> DEFINE p == IF current # <<>> /\ Len(current) + 1 > Retention THEN "rotate" ELSE "append"
    <2>1. /\ logger' \in [Loggers -> [pc : LogStages, index : Nat]] /\ logger'[x].pc = p
          /\ \A y \in Loggers \ {x} : logger'[y] = logger[y]
      BY <1>4, LoggerMoves DEF LogInv, MeasureLog, LogStages, InLog
    <2>2. LogTypeOK'
      BY <1>4, <2>1 DEF LogInv, LogTypeOK, MeasureLog
    <2>3. LogKeepsTheLatest' /\ FilesInUse'
      BY <1>4, <2>2, FilesStay DEF LogInv, LogTypeOK, MeasureLog
    <2>4. LoggerIsAlone'
      BY <1>4, <2>1, <1>1 DEF LoggerIsAlone, MeasureLog
    <2>5. Len(current) \in Nat /\ Retention \in Nat
      BY LogAssumption DEF LogInv, LogTypeOK
    <2>6. StageIsReady'
      BY <1>4, <2>1, <1>1, <2>5 DEF StageIsReady, LogsAt, InLog, MeasureLog
    <2>. QED BY <2>2, <2>3, <2>4, <2>6 DEF LogInv
  <1>. QED BY <1>3, <1>4

\* The last archive goes, or the log itself when there are no archives.
LEMMA RotateKeepsLog == ASSUME LogInv, NEW x \in Loggers, RotateLast(x) PROVE LogInv'
  <1>1. /\ logger[x].pc \in InLog /\ LoggerOf[x] \notin killed /\ logLock = x
        /\ \A y \in Loggers \ {x} : LoggerOf[y] \notin killed => logger[y].pc \notin InLog
    BY OthersAreElsewhere DEF RotateLast, LogsAt, InLog
  <1>2. /\ limit \in 0 .. MaxLimit /\ MaxLimit \in Nat
        /\ UNCHANGED <<limit, logLock, mutex, recorded, aged, killed>>
    BY FilesHaveContent DEF LogInv, RotateLast
  <1>3. CASE limit = 0
    <2>1. current' = <<>> /\ LogsNext(x, "append", 0) /\ UNCHANGED archive
      BY <1>3 DEF RotateLast
    <2>2. /\ logger' \in [Loggers -> [pc : LogStages, index : Nat]] /\ logger'[x].pc = "append"
          /\ \A y \in Loggers \ {x} : logger'[y] = logger[y]
      BY <2>1, LoggerMoves DEF LogInv, LogStages, InLog
    <2>3. LogTypeOK'
      BY <1>2, <2>1, <2>2 DEF LogInv, LogTypeOK
    <2>4. \A j \in LogFiles : Content(j)' = <<>>
      BY <1>2, <1>3, <2>1 DEF LogInv, FilesInUse, LogFiles, Content
    <2>5. LogIsOrdered' /\ OldestGoFirst' /\ FilesInUse'
      BY <1>2, <2>3, <2>4, FilesGo DEF LogInv, LogTypeOK, LogKeepsTheLatest
    <2>6. LogKeepsTheLatest' /\ LoggerIsAlone' /\ StageIsReady'
      BY <1>1, <1>2, <2>1, <2>2, <2>5 DEF LogKeepsTheLatest, LoggerIsAlone, StageIsReady, LogsAt, InLog
    <2>. QED BY <2>3, <2>5, <2>6 DEF LogInv
  <1>4. CASE limit # 0
    <2>1. /\ archive' = [archive EXCEPT ![limit] = <<>>] /\ LogsNext(x, "move", limit - 1) /\ UNCHANGED current
          /\ limit - 1 \in Nat /\ limit \in 1 .. MaxLimit
      BY <1>2, <1>4 DEF RotateLast
    <2>2. /\ logger' \in [Loggers -> [pc : LogStages, index : Nat]]
          /\ logger'[x].pc = "move" /\ logger'[x].index = limit - 1
          /\ \A y \in Loggers \ {x} : logger'[y] = logger[y]
      BY <2>1, LoggerMoves DEF LogInv, LogStages, InLog
    <2>3. LogTypeOK'
      BY <1>2, <2>1, <2>2 DEF LogInv, LogTypeOK
    <2>4. \A j \in LogFiles : Content(j)' = IF j = limit THEN <<>> ELSE Content(j)
      BY <1>2, <2>1 DEF LogInv, LogTypeOK, LogFiles, Content
    <2>5. \A j \in LogFiles : j > limit => Content(j)' = <<>>
      BY <1>2, <2>4 DEF LogInv, FilesInUse, LogFiles, Content
    <2>6. LogIsOrdered' /\ OldestGoFirst' /\ FilesInUse'
      BY <1>2, <2>3, <2>4, <2>5, FilesGo DEF LogInv, LogTypeOK, LogKeepsTheLatest
    <2>7. LogKeepsTheLatest' /\ LoggerIsAlone'
      BY <1>1, <1>2, <2>1, <2>2, <2>6 DEF LogInv, LogKeepsTheLatest, LoggerIsAlone
    <2>8. archive'[limit] = <<>> /\ (limit - 1) + 1 = limit /\ limit - 1 < limit
      BY <2>1, <1>2 DEF LogInv, LogTypeOK
    <2>9. StageIsReady'
      BY <1>1, <1>2, <2>2, <2>8 DEF StageIsReady, LogsAt, InLog
    <2>. QED BY <2>3, <2>6, <2>7, <2>9 DEF LogInv
  <1>. QED BY <1>3, <1>4

\* An archive moves up, or the log becomes the first one.
LEMMA MoveKeepsLog == ASSUME LogInv, NEW x \in Loggers, MoveArchive(x) PROVE LogInv'
  <1>0. PICK i : i = logger[x].index
    OBVIOUS
  <1>1. /\ logger[x].pc \in InLog /\ LoggerOf[x] \notin killed /\ logLock = x
        /\ \A y \in Loggers \ {x} : LoggerOf[y] \notin killed => logger[y].pc \notin InLog
    BY OthersAreElsewhere DEF MoveArchive, LogsAt, InLog
  <1>2. /\ limit \in 0 .. MaxLimit /\ MaxLimit \in Nat /\ i \in Nat /\ i < limit
        /\ archive[i + 1] = <<>>
        /\ UNCHANGED <<limit, logLock, mutex, recorded, aged, killed>>
    BY <1>0, FilesHaveContent DEF LogInv, LogTypeOK, StageIsReady, MoveArchive
  <1>3. i \in LogFiles /\ i + 1 \in 1 .. MaxLimit /\ i + 1 \in LogFiles /\ Content(i + 1) = <<>>
    BY <1>2 DEF LogFiles, Content
  <1>4. CASE i > 0
    <2>1. /\ archive' = IF archive[i] = <<>> THEN archive ELSE [archive EXCEPT ![i + 1] = archive[i], ![i] = <<>>]
          /\ LogsNext(x, "move", i - 1) /\ UNCHANGED current /\ i - 1 \in Nat /\ i \in 1 .. MaxLimit
      BY <1>0, <1>2, <1>4 DEF MoveArchive
    <2>2. /\ logger' \in [Loggers -> [pc : LogStages, index : Nat]]
          /\ logger'[x].pc = "move" /\ logger'[x].index = i - 1
          /\ \A y \in Loggers \ {x} : logger'[y] = logger[y]
      BY <2>1, LoggerMoves DEF LogInv, LogStages, InLog
    <2>3. LogTypeOK'
      BY <1>2, <1>3, <2>1, <2>2 DEF LogInv, LogTypeOK
    <2>4. /\ \A j \in 1 .. MaxLimit : j \notin {i, i + 1} => archive'[j] = archive[j]
          /\ archive'[i + 1] = archive[i] /\ archive'[i] = <<>>
      BY <1>2, <1>3, <2>1 DEF LogInv, LogTypeOK
    <2>5. /\ \A j \in LogFiles \ {i, i + 1} : Content(j)' = Content(j)
          /\ Content(i + 1)' = Content(i) /\ Content(i)' = <<>>
      <3>1. \A j \in LogFiles : j = 0 \/ j \in 1 .. MaxLimit
        BY <1>2 DEF LogFiles
      <3>2. i + 1 # 0 /\ i # 0
        BY <1>2, <1>4
      <3>3. Content(i + 1)' = archive'[i + 1] /\ Content(i)' = archive'[i] /\ Content(i) = archive[i]
        BY <3>2 DEF Content
      <3>4. \A j \in LogFiles \ {i, i + 1} : Content(j)' = Content(j)
        BY <3>1, <2>1, <2>4 DEF Content
      <3>. QED BY <3>3, <3>4, <2>4
    <2>6. LogIsOrdered' /\ OldestGoFirst' /\ FilesInUse'
      BY <1>2, <1>3, <2>3, <2>5, FileMoves DEF LogInv, LogKeepsTheLatest
    <2>7. LogKeepsTheLatest' /\ LoggerIsAlone'
      BY <1>1, <1>2, <2>1, <2>2, <2>6 DEF LogInv, LogKeepsTheLatest, LoggerIsAlone
    <2>8. (i - 1) + 1 = i /\ i - 1 < limit
      BY <1>2
    <2>9. StageIsReady'
      BY <1>1, <1>2, <2>2, <2>4, <2>8 DEF StageIsReady, LogsAt, InLog
    <2>. QED BY <2>3, <2>6, <2>7, <2>9 DEF LogInv
  <1>5. CASE i = 0
    <2>1. /\ archive' = IF current = <<>> THEN archive ELSE [archive EXCEPT ![1] = current]
          /\ current' = <<>> /\ LogsNext(x, "append", 0)
      BY <1>0, <1>5 DEF MoveArchive
    <2>2. /\ logger' \in [Loggers -> [pc : LogStages, index : Nat]] /\ logger'[x].pc = "append"
          /\ \A y \in Loggers \ {x} : logger'[y] = logger[y]
      BY <2>1, LoggerMoves DEF LogInv, LogStages, InLog
    <2>3. LogTypeOK'
      <3>1. 1 \in 1 .. MaxLimit /\ current \in Seq(Nat) /\ archive \in [1 .. MaxLimit -> Seq(Nat)] /\ <<>> \in Seq(Nat)
        BY <1>3, <1>5 DEF LogInv, LogTypeOK
      <3>2. archive' \in [1 .. MaxLimit -> Seq(Nat)] /\ current' \in Seq(Nat)
        BY <2>1, <3>1
      <3>. QED BY <1>2, <2>2, <3>2 DEF LogInv, LogTypeOK
    <2>4. archive'[1] = current /\ \A j \in 1 .. MaxLimit : j # 1 => archive'[j] = archive[j]
      BY <1>2, <1>3, <1>5, <2>1 DEF LogInv, LogTypeOK
    <2>5. /\ \A j \in LogFiles \ {0, 0 + 1} : Content(j)' = Content(j)
          /\ Content(0 + 1)' = Content(0) /\ Content(0)' = <<>>
      BY <1>2, <2>1, <2>4 DEF LogFiles, Content
    <2>6. LogIsOrdered' /\ OldestGoFirst' /\ FilesInUse'
      BY <1>2, <1>3, <1>5, <2>3, <2>5, FileMoves DEF LogInv, LogKeepsTheLatest
    <2>7. LogKeepsTheLatest' /\ LoggerIsAlone' /\ StageIsReady'
      BY <1>1, <1>2, <2>1, <2>2, <2>6 DEF LogKeepsTheLatest, LoggerIsAlone, StageIsReady, LogsAt, InLog
    <2>. QED BY <2>3, <2>6, <2>7 DEF LogInv
  <1>. QED BY <1>2, <1>4, <1>5

\* The size of the log after one more line.
LEMMA LogFits ==
    ASSUME LogInv, NEW x \in Loggers, LogsAt(x, "append")
    PROVE  Len(Append(current, Event)) <= Retention
  <1>1. current \in Seq(Nat) /\ recorded \in Nat /\ Retention \in Nat /\ Retention >= 1
    BY LogAssumption DEF LogInv, LogTypeOK
  <1>2. Len(Append(current, Event)) = Len(current) + 1 /\ Len(current) \in Nat
    BY <1>1
  <1>3. current = <<>> => Len(current) = 0
    OBVIOUS
  <1>. QED BY <1>1, <1>2, <1>3 DEF LogInv, StageIsReady

\* The line is written and the locks are released.
LEMMA AppendKeepsLog == ASSUME LogInv, NEW x \in Loggers, AppendEvent(x) PROVE LogInv'
  <1>1. /\ logger[x].pc \in InLog /\ LoggerOf[x] \notin killed /\ logLock = x
        /\ \A y \in Loggers \ {x} : LoggerOf[y] \notin killed => logger[y].pc \notin InLog
    BY OthersAreElsewhere DEF AppendEvent, LogsAt, InLog
  <1>2. /\ logger' \in [Loggers -> [pc : LogStages, index : Nat]] /\ logger'[x].pc = "idle"
        /\ \A y \in Loggers \ {x} : logger'[y] = logger[y]
    BY LoggerMoves DEF LogInv, AppendEvent, LogStages
  <1>3. recorded + 1 \in Nat /\ Append(current, Event) \in Seq(Nat)
    BY DEF LogInv, LogTypeOK, Event
  <1>4. LogTypeOK'
    BY <1>2, <1>3 DEF LogInv, LogTypeOK, AppendEvent, Event
  <1>5. LogIsOrdered' /\ OldestGoFirst' /\ FilesInUse'
    BY <1>4, FileGrows DEF LogInv, LogKeepsTheLatest, AppendEvent
  <1>6. LogKeepsTheLatest'
    BY <1>5, LogFits DEF LogKeepsTheLatest, AppendEvent
  <1>7. LoggerIsAlone' /\ StageIsReady'
    BY <1>1, <1>2 DEF LoggerIsAlone, StageIsReady, LogsAt, InLog, AppendEvent
  <1>. QED BY <1>4, <1>5, <1>6, <1>7 DEF LogInv

\* What a failure or a death leaves of the line it meets: nothing, or a line cut short.
LEMMA CutKeepsLog ==
    ASSUME LogInv, NEW x \in Loggers, MayCut(x), LogTypeOK', UNCHANGED <<limit, archive, aged>>
    PROVE  LogKeepsTheLatest' /\ FilesInUse'
  <1>1. CASE UNCHANGED <<current, recorded>>
    BY <1>1, FilesStay DEF LogInv, LogTypeOK
  <1>2. CASE current' = Append(current, Event) /\ recorded' = Event /\ LogsAt(x, "append")
    <2>1. LogIsOrdered' /\ OldestGoFirst' /\ FilesInUse'
      BY <1>2, FileGrows DEF LogInv, LogKeepsTheLatest
    <2>. QED BY <1>2, <2>1, LogFits DEF LogKeepsTheLatest
  <1>. QED BY <1>1, <1>2 DEF MayCut

\* A failed operation leaves the files as they are, but for a line cut short.
LEMMA FailureKeepsLog == ASSUME LogInv, NEW x \in Loggers, LogFails(x) PROVE LogInv'
  <1>1. /\ logger[x].pc \in InLog /\ LoggerOf[x] \notin killed /\ logLock = x
        /\ \A y \in Loggers \ {x} : LoggerOf[y] \notin killed => logger[y].pc \notin InLog
    BY OthersAreElsewhere DEF LogFails, InLog
  <1>2. /\ logger' \in [Loggers -> [pc : LogStages, index : Nat]] /\ logger'[x].pc = "idle"
        /\ \A y \in Loggers \ {x} : logger'[y] = logger[y]
    BY LoggerMoves DEF LogInv, LogFails, LogStages
  <1>3. recorded + 1 \in Nat /\ Append(current, Event) \in Seq(Nat)
    BY DEF LogInv, LogTypeOK, Event
  <1>4. LogTypeOK'
    BY <1>2, <1>3 DEF LogInv, LogTypeOK, LogFails, MayCut, Event
  <1>5. LogKeepsTheLatest' /\ FilesInUse'
    BY <1>4, CutKeepsLog DEF LogFails
  <1>6. LoggerIsAlone' /\ StageIsReady'
    BY <1>1, <1>2 DEF LoggerIsAlone, StageIsReady, LogsAt, InLog, LogFails
  <1>. QED BY <1>4, <1>5, <1>6 DEF LogInv

\* A process dies, perhaps in the middle of a line.
LEMMA DeathKeepsLog == ASSUME LogInv, NEW x \in Loggers, LoggerDies(x) PROVE LogInv'
  <1>1. /\ killed' = killed \union {LoggerOf[x]} /\ UNCHANGED <<limit, archive, mutex, logger, aged>>
        /\ logLock' = IF logLock # Nobody /\ LoggerOf[logLock] = LoggerOf[x] THEN Nobody ELSE logLock
        /\ killed \subseteq killed'
    BY DEF LoggerDies
  <1>2. LoggerIsAlone'
    BY <1>1 DEF LogInv, LoggerIsAlone
  <1>3. recorded + 1 \in Nat /\ Append(current, Event) \in Seq(Nat)
    BY DEF LogInv, LogTypeOK, Event
  <1>4. LogTypeOK'
    BY <1>1, <1>3 DEF LogInv, LogTypeOK, LoggerDies, MayCut, Event
  <1>5. LogKeepsTheLatest' /\ FilesInUse'
    BY <1>1, <1>4, CutKeepsLog DEF LoggerDies
  <1>6. CASE LogsAt(x, "append")
    <2>1. \A y \in Loggers \ {x} : LoggerOf[y] \notin killed => logger[y].pc \notin InLog
      BY <1>6, OthersAreElsewhere DEF LogsAt, InLog
    <2>2. StageIsReady'
      BY <1>1, <2>1 DEF StageIsReady, LogsAt, InLog
    <2>. QED BY <1>2, <1>4, <1>5, <2>2 DEF LogInv
  <1>7. CASE ~LogsAt(x, "append")
    <2>1. UNCHANGED <<current, recorded>>
      BY <1>7 DEF LoggerDies, MayCut
    <2>2. StageIsReady'
      BY <1>1, <2>1 DEF LogInv, StageIsReady, LogsAt
    <2>. QED BY <1>2, <1>4, <1>5, <2>2 DEF LogInv
  <1>. QED BY <1>6, <1>7

\* The log is what it should be after every step.
LEMMA LogInvariance == LogSpec => []LogInv
  <1>1. LogInit => LogInv
    BY LogInitHolds
  <1>2. LogInv /\ [LogNext]_logVars => LogInv'
    <2> SUFFICES ASSUME LogInv, [LogNext]_logVars PROVE LogInv'
      OBVIOUS
    <2>1. CASE LogNext
      BY <2>1, EntryKeepsLog, ExpiryKeepsLog, RotateKeepsLog, MoveKeepsLog, AppendKeepsLog,
         FailureKeepsLog, DeathKeepsLog DEF LogNext
    <2>2. CASE UNCHANGED logVars
      <3>1. LogTypeOK' /\ LoggerIsAlone' /\ StageIsReady'
        BY <2>2 DEF logVars, LogInv, LogTypeOK, LoggerIsAlone, StageIsReady, LogsAt
      <3>. QED BY <3>1, <2>2, FilesStay DEF logVars, LogInv, LogTypeOK
    <2>. QED BY <2>1, <2>2
  <1>. QED BY <1>1, <1>2, PTL DEF LogSpec

\* The archives and the log hold the end of what was recorded, each event once and in order, however
\* many servers record, rotate, expire and die: ActivityLog::record_locked, rotate and
\* remove_expired_archives, for any max_archives and retention_bytes.
THEOREM TheLatestAreKept == LogSpec => []LogKeepsTheLatest
  BY LogInvariance, PTL DEF LogInv

-----------------------------------------------------------------------------
(* PART THREE: the documentation cache.                                    *)

\* The stages of a generation that its worker runs in, and all of them.
Generating == {"cleanup", "prune", "remove", "check", "generate", "validate", "publish"}
FlightStages == {Unset, "new", "open", "lock", "finish", "leave", "gone"} \union Generating
Ended == {Unset, "ok", "cache", "failed", "cleanup", "cancelled"}
Flight == [pc : FlightStages, file : Files, todo : SUBSET Pages, prune : Entries \union {Unset},
           end : Ended, result : Ended, subs : Nat, cancelled : BOOLEAN]
RequestStages == {"prepare", "step", "read", "complete", "join", "subscribe", "wait", "release",
                  "drain", "result", "done"}
Answers == [status : {Unset, "found", "unavailable"},
            provider : {Unset, "cache", "source", "network", "local"},
            error : BOOLEAN, cleanup : BOOLEAN]
Asking == [pc : RequestStages, step : Nat \ {0}, identity : BOOLEAN, complete : BOOLEAN,
           flight : Requests \union {Unset}, live : BOOLEAN, took : Ended \union {"left"},
           answer : Answers]

\* Every variable has its type.
DocsTypeOK ==
  /\ disk \in [Entries -> [pages : SUBSET Pages, marker : BOOLEAN]]
  /\ lockFile \in [Entries -> Files]
  /\ holder \in [Files -> Requests \union {Unset}]
  /\ table \in [Servers -> [Entries -> Requests \union {Unset}]]
  /\ fl \in [Requests -> Flight]
  /\ rq \in [Requests -> Asking]
  /\ want \in [Requests -> Entries]

\* A living generation past its lock holds the file it opened, which is the one under the name of
\* its entry's lock unless that was replaced in between: no two work on one entry.
LocksAreHeld ==
  \A f \in Requests : Up(f) /\ Inside(f) =>
    /\ holder[fl[f].file] = f
    /\ want[f] \in disturbed \/ fl[f].file = lockFile[want[f]]
\* What a publishing generation has behind it is on disk, and retention removes in its own stage only.
PagesAreThere ==
  /\ \A f \in Requests : Up(f) /\ fl[f].pc = "publish" =>
       want[f] \in disturbed \/ Pages \ fl[f].todo \subseteq disk[want[f]].pages
  /\ \A f \in Requests : fl[f].prune = Unset <=> fl[f].pc # "remove"
DiskInv == LocksAreHeld /\ PagesAreThere /\ CompleteIsWhole

\* The chain of a request has no local generation left.
PastLocal(r) ==
  \A j \in DOMAIN FallbackSteps(Fallback[r]) :
    j >= rq[r].step => FallbackSteps(Fallback[r])[j] # "local"
\* A request starts at most one generation: it is at the only local step of its chain until it
\* has its answer, and has none left afterwards.
StartsOnce ==
  \A r \in Requests :
    /\ rq[r].pc \in {"join", "subscribe", "wait", "release", "drain", "result"} =>
         HasStep(r) /\ StepOf(r) = "local"
    /\ fl[r].pc # Unset =>
         rq[r].pc \in {"subscribe", "wait", "release", "drain", "result", "done"} \/ PastLocal(r)
    /\ rq[r].took # Unset => rq[r].pc \in {"release", "drain", "result", "done"} \/ PastLocal(r)
\* Whoever is in the table, or is subscribed to, was started, by a request that is past its join.
FlightsExist ==
  /\ \A p \in Servers, e \in Entries :
       table[p][e] # Unset => fl[table[p][e]].pc # Unset
  /\ \A r \in Requests : rq[r].pc \in {"subscribe", "wait", "release"} =>
       rq[r].flight \in Requests /\ fl[rq[r].flight].pc # Unset
  /\ \A r \in Requests : rq[r].pc = "subscribe" /\ rq[r].flight = r => fl[r].pc = "new"
\* The count of subscribers is their number, none that found the generation uncancelled sees it
\* cancelled, and only a cancelled one ends as such.
Waiters(f) == {r \in Requests : rq[r].pc \in {"wait", "release"} /\ rq[r].flight = f}
SubscribersCount ==
  /\ \A f \in Requests : fl[f].subs = Cardinality(Waiters(f))
  /\ \A r \in Requests : rq[r].pc \in {"wait", "release"} /\ rq[r].live => ~fl[rq[r].flight].cancelled
  /\ \A f \in Requests : fl[f].end = "cancelled" \/ fl[f].result = "cancelled" => fl[f].cancelled
FlightInv == StartsOnce /\ FlightsExist /\ SubscribersCount /\ CancelStaysOwn

DocsInv == DocsTypeOK /\ DiskInv /\ FlightInv

-----------------------------------------------------------------------------
\* A chain of providers has at most one local step.
LEMMA OneLocalStep ==
    ASSUME NEW policy, NEW i \in DOMAIN FallbackSteps(policy), NEW j \in DOMAIN FallbackSteps(policy),
           FallbackSteps(policy)[i] = "local", FallbackSteps(policy)[j] = "local"
    PROVE  i = j
  <1>1. CASE policy = "off"
    BY <1>1 DEF FallbackSteps
  <1>2. CASE policy = "local"
    BY <1>2 DEF FallbackSteps
  <1>3. CASE policy = "expensive"
    BY <1>3 DEF FallbackSteps
  <1>4. CASE policy \notin {"off", "local", "expensive"}
    <2>1. FallbackSteps(policy) = <<"cache", "source", "network">>
      BY <1>4 DEF FallbackSteps
    <2>. QED BY <2>1
  <1>. QED BY <1>1, <1>2, <1>3, <1>4

\* A chain is a sequence, and a request with a step left is at one of its elements.
LEMMA ChainIsSequence ==
    ASSUME NEW policy
    PROVE  /\ DOMAIN FallbackSteps(policy) = 1 .. Len(FallbackSteps(policy))
           /\ Len(FallbackSteps(policy)) \in Nat
  <1>1. \/ FallbackSteps(policy) = <<"cache">>
        \/ FallbackSteps(policy) = <<"cache", "local", "source">>
        \/ FallbackSteps(policy) = <<"cache", "source", "network", "local">>
        \/ FallbackSteps(policy) = <<"cache", "source", "network">>
    BY DEF FallbackSteps
  <1>. QED BY <1>1

\* Behind its local step a request has none left.
LEMMA LocalIsPast ==
    ASSUME DocsTypeOK, NEW r \in Requests, HasStep(r), StepOf(r) = "local",
           rq'[r].step = rq[r].step + 1
    PROVE  PastLocal(r)'
  <1>1. rq[r].step \in Nat \ {0}
    BY DEF DocsTypeOK, Asking
  <1>2. rq[r].step \in DOMAIN FallbackSteps(Fallback[r])
    BY <1>1, ChainIsSequence DEF HasStep
  <1>3. SUFFICES ASSUME NEW j \in DOMAIN FallbackSteps(Fallback[r]), j >= rq[r].step + 1,
                        FallbackSteps(Fallback[r])[j] = "local"
                 PROVE  FALSE
    BY DEF PastLocal
  <1>4. j = rq[r].step
    BY <1>2, <1>3, OneLocalStep DEF StepOf
  <1>. QED BY <1>1, <1>3, <1>4

\* A request at its local step has not yet passed it.
LEMMA NotYetPast ==
    ASSUME DocsTypeOK, NEW r \in Requests, HasStep(r), StepOf(r) = "local"
    PROVE  ~PastLocal(r)
  <1>1. rq[r].step \in DOMAIN FallbackSteps(Fallback[r]) /\ rq[r].step >= rq[r].step
    BY ChainIsSequence DEF HasStep, DocsTypeOK, Asking
  <1>. QED BY <1>1 DEF PastLocal, StepOf

\* A request that goes on stays past its local step.
LEMMA PastStays ==
    ASSUME DocsTypeOK, NEW r \in Requests, PastLocal(r), rq'[r].step >= rq[r].step,
           rq'[r].step \in Nat
    PROVE  PastLocal(r)'
  <1>1. rq[r].step \in Nat
    BY DEF DocsTypeOK, Asking
  <1>2. \A j \in DOMAIN FallbackSteps(Fallback[r]) : j \in Nat
    BY ChainIsSequence
  <1>. QED BY <1>1, <1>2 DEF PastLocal

-----------------------------------------------------------------------------
\* The flights table and its subscribers.

\* Who waits is decided by the stages of the requests alone.
LEMMA WaitersStay ==
    ASSUME NEW r \in Requests, \A s \in Requests \ {r} : rq'[s] = rq[s],
           \/ rq[r].pc \notin {"wait", "release"} /\ rq'[r].pc \notin {"wait", "release"}
           \/ /\ rq[r].pc \in {"wait", "release"} /\ rq'[r].pc \in {"wait", "release"}
              /\ rq'[r].flight = rq[r].flight
    PROVE  \A f \in Requests : Waiters(f)' = Waiters(f)
  BY DEF Waiters

\* A request that neither subscribes nor releases leaves the flights as they are.
LEMMA RequestKeepsFlights ==
    ASSUME DocsTypeOK, FlightInv, NEW r \in Requests,
           rq' \in [Requests -> Asking], \A s \in Requests \ {r} : rq'[s] = rq[s],
           UNCHANGED <<fl, table>>,
           rq[r].pc \notin {"subscribe", "wait", "release"},
           rq'[r].live = rq[r].live, rq'[r].took = rq[r].took,
           \/ rq'[r].pc = "done"
           \/ /\ rq[r].pc \notin {"drain", "result", "done"}
              /\ rq'[r].pc \in {"step", "read", "complete"} /\ rq'[r].step >= rq[r].step
           \/ /\ rq[r].pc = "result"
              /\ rq'[r].pc = "step" /\ rq'[r].step = rq[r].step + 1
           \/ /\ rq[r].pc = "step" /\ HasStep(r) /\ StepOf(r) = "local"
              /\ rq'[r].pc = "join" /\ rq'[r].step = rq[r].step
           \/ /\ rq[r].pc = "drain"
              /\ rq'[r].pc = "result" /\ rq'[r].step = rq[r].step
    PROVE  FlightInv'
  <1>1. /\ rq'[r].step \in Nat \ {0} /\ rq[r].step \in Nat \ {0}
        /\ rq[r].pc \in RequestStages
    BY DEF DocsTypeOK, Asking
  <1>2. rq'[r].pc \notin {"subscribe", "wait", "release"}
    OBVIOUS
  <1>3. rq'[r].pc # "done" /\ PastLocal(r) => PastLocal(r)'
    <2>1. rq'[r].pc # "done" => rq'[r].step >= rq[r].step
      BY <1>1
    <2>. QED BY <1>1, <2>1, PastStays
  <1>4. StartsOnce'
    <2>1. \A s \in Requests \ {r} :
            /\ HasStep(s)' = HasStep(s) /\ StepOf(s)' = StepOf(s)
            /\ PastLocal(s)' = PastLocal(s)
      BY DEF HasStep, StepOf, PastLocal
    <2>2. rq'[r].pc \in {"join", "subscribe", "wait", "release", "drain", "result"} =>
            HasStep(r)' /\ StepOf(r)' = "local"
      BY DEF HasStep, StepOf, FlightInv, StartsOnce
    <2>3. rq[r].pc = "result" /\ rq'[r].pc # "done" => PastLocal(r)'
      BY LocalIsPast DEF FlightInv, StartsOnce
    <2>4. /\ rq'[r].pc = "join" => ~PastLocal(r)
          /\ rq[r].pc = "drain" => rq'[r].pc \in {"result", "done"}
      BY NotYetPast DEF FlightInv, StartsOnce
    <2>5. fl[r].pc # Unset \/ rq[r].took # Unset =>
            rq[r].pc \in {"drain", "result", "done"} \/ PastLocal(r)
      BY DEF FlightInv, StartsOnce
    <2>6. fl[r].pc # Unset \/ rq[r].took # Unset =>
            rq'[r].pc \in {"drain", "result", "done"} \/ PastLocal(r)'
      BY <1>3, <2>3, <2>4, <2>5
    <2>. QED BY <2>1, <2>2, <2>6 DEF FlightInv, StartsOnce
  <1>5. FlightsExist'
    BY <1>2 DEF FlightInv, FlightsExist
  <1>6. SubscribersCount'
    <2>1. \A f \in Requests : Waiters(f)' = Waiters(f)
      BY <1>2, WaitersStay
    <2>. QED BY <1>2, <2>1 DEF FlightInv, SubscribersCount
  <1>7. CancelStaysOwn'
    BY DEF FlightInv, CancelStaysOwn
  <1>. QED BY <1>4, <1>5, <1>6, <1>7 DEF FlightInv

\* The worker of a generation leaves the count and the cancellation of its flight alone, and
\* reports a cancellation only when there was one.
LEMMA WorkerKeepsFlights ==
    ASSUME DocsTypeOK, FlightInv, NEW f \in Requests, UNCHANGED rq,
           fl' \in [Requests -> Flight], \A g \in Requests \ {f} : fl'[g] = fl[g],
           fl[f].pc \notin {Unset, "new"}, fl'[f].pc # Unset,
           fl'[f].subs = fl[f].subs, fl'[f].cancelled = fl[f].cancelled,
           fl'[f].end = "cancelled" \/ fl'[f].result = "cancelled" => fl[f].cancelled,
           \A p \in Servers, e \in Entries : table'[p][e] \in {table[p][e], Unset}
    PROVE  FlightInv'
  <1>1. \A s \in Requests :
          /\ HasStep(s)' = HasStep(s) /\ StepOf(s)' = StepOf(s)
          /\ PastLocal(s)' = PastLocal(s) /\ Waiters(s)' = Waiters(s)
    BY DEF HasStep, StepOf, PastLocal, Waiters
  <1>2. \A g \in Requests : fl'[g].pc = Unset <=> fl[g].pc = Unset
    OBVIOUS
  <1>3. StartsOnce'
    BY <1>1, <1>2 DEF FlightInv, StartsOnce
  <1>4. FlightsExist'
    <2>1. \A p \in Servers, e \in Entries : table[p][e] # Unset => table[p][e] \in Requests
      BY DEF DocsTypeOK
    <2>2. \A p \in Servers, e \in Entries : table'[p][e] # Unset => fl'[table'[p][e]].pc # Unset
      BY <1>2, <2>1 DEF FlightInv, FlightsExist
    <2>3. \A s \in Requests : rq'[s].pc \in {"subscribe", "wait", "release"} =>
            rq'[s].flight \in Requests /\ fl'[rq'[s].flight].pc # Unset
      BY <1>2 DEF FlightInv, FlightsExist
    <2>4. \A s \in Requests : rq'[s].pc = "subscribe" /\ rq'[s].flight = s => fl'[s].pc = "new"
      BY DEF FlightInv, FlightsExist
    <2>. QED BY <2>2, <2>3, <2>4 DEF FlightsExist
  <1>5. SubscribersCount'
    <2>1. \A g \in Requests : fl'[g].subs = fl[g].subs /\ fl'[g].cancelled = fl[g].cancelled
      OBVIOUS
    <2>2. \A g \in Requests : fl'[g].subs = Cardinality(Waiters(g)')
      BY <1>1, <2>1 DEF FlightInv, SubscribersCount
    <2>3. \A s \in Requests : rq[s].pc \in {"wait", "release"} => rq[s].flight \in Requests
      BY DEF FlightInv, FlightsExist
    <2>. QED BY <2>1, <2>2, <2>3 DEF FlightInv, SubscribersCount
  <1>6. CancelStaysOwn'
    BY DEF FlightInv, CancelStaysOwn
  <1>. QED BY <1>3, <1>4, <1>5, <1>6 DEF FlightInv

\* What a request and the table hold, for citing.
LEMMA RequestFields ==
    ASSUME DocsTypeOK, NEW r \in Requests
    PROVE  /\ rq[r] \in Asking /\ fl[r] \in Flight /\ want[r] \in Entries
           /\ ServerOf[r] \in Servers /\ Unset \notin Requests
           /\ table[ServerOf[r]][want[r]] \in Requests \union {Unset}
           /\ 1 \in Files
  <1>1. /\ rq[r] \in Asking /\ fl[r] \in Flight /\ want[r] \in Entries
        /\ ServerOf[r] \in Servers /\ Unset \notin Requests
    BY DocsAssumption DEF DocsTypeOK, Servers, Unset
  <1>2. Cardinality(Entries) \in Nat /\ Cardinality(Entries) # 0
    BY <1>1, FS_CardinalityType, FS_EmptySet, DocsAssumption
  <1>3. 1 \in Files
    BY <1>2, DocsAssumption DEF Files
  <1>. QED BY <1>1, <1>3 DEF DocsTypeOK

\* A request takes the result, or leaves: it has subscribed still.
LEMMA WaitKeepsFlights ==
    ASSUME DocsTypeOK, FlightInv, NEW r \in Requests, Wait(r)
    PROVE  FlightInv' /\ rq' \in [Requests -> Asking]
  <1> DEFINE f == rq[r].flight
  <1>1. /\ f \in Requests /\ rq[r] \in Asking /\ fl[f] \in Flight /\ rq[r].pc = "wait"
        /\ HasStep(r) /\ StepOf(r) = "local" /\ UNCHANGED <<fl, table>>
    BY RequestFields DEF Wait, Is, FlightInv, FlightsExist, StartsOnce
  <1>2. PICK t \in Ended \union {"left"} :
          /\ rq' = [rq EXCEPT ![r] = [rq[r] EXCEPT !.pc = "release", !.took = t]]
          /\ t = fl[f].result \/ t = "left"
    BY <1>1 DEF Wait, Flight, DocsTypeOK
  <1>3. /\ rq' \in [Requests -> Asking]
        /\ rq'[r].pc = "release" /\ rq'[r].took = t /\ rq'[r].live = rq[r].live
        /\ rq'[r].flight = rq[r].flight /\ rq'[r].step = rq[r].step
        /\ \A s \in Requests \ {r} : rq'[s] = rq[s]
    BY <1>1, <1>2 DEF DocsTypeOK, Asking, RequestStages
  <1>4. StartsOnce'
    <2>1. \A s \in Requests :
            /\ HasStep(s)' = HasStep(s) /\ StepOf(s)' = StepOf(s)
            /\ PastLocal(s)' = PastLocal(s)
      BY <1>3 DEF HasStep, StepOf, PastLocal
    <2>. QED BY <1>1, <1>3, <2>1 DEF FlightInv, StartsOnce
  <1>5. FlightsExist'
    BY <1>1, <1>3 DEF FlightInv, FlightsExist
  <1>6. SubscribersCount'
    <2>1. \A g \in Requests : Waiters(g)' = Waiters(g)
      BY <1>1, <1>3, WaitersStay
    <2>. QED BY <1>1, <1>3, <2>1 DEF FlightInv, SubscribersCount
  <1>7. CancelStaysOwn'
    <2>1. t = "cancelled" => ~rq[r].live
      BY <1>1, <1>2 DEF FlightInv, SubscribersCount
    <2>. QED BY <1>3, <2>1 DEF FlightInv, CancelStaysOwn
  <1>. QED BY <1>3, <1>4, <1>5, <1>6, <1>7 DEF FlightInv

\* A request joins the generation in the table, or puts its own there, its first.
LEMMA JoinKeepsFlights ==
    ASSUME DocsTypeOK, FlightInv, NEW r \in Requests, Join(r)
    PROVE  /\ FlightInv' /\ rq' \in [Requests -> Asking] /\ fl' \in [Requests -> Flight]
           /\ table' \in [Servers -> [Entries -> Requests \union {Unset}]]
           /\ fl[r].pc = Unset /\ \A g \in Requests \ {r} : fl'[g] = fl[g]
           /\ fl'[r] \in {fl[r], [NoFlight EXCEPT !.pc = "new"]}
  <1> DEFINE p == ServerOf[r]
             e == want[r]
  <1>1. /\ rq[r] \in Asking /\ e \in Entries /\ p \in Servers /\ 1 \in Files
        /\ Unset \notin Requests /\ rq[r].pc = "join" /\ HasStep(r) /\ StepOf(r) = "local"
        /\ table[p][e] \in Requests \union {Unset}
    BY RequestFields DEF Join, Is, FlightInv, StartsOnce
  <1>2. fl[r].pc = Unset /\ rq[r].took = Unset
    BY <1>1, NotYetPast DEF FlightInv, StartsOnce
  <1>3. \A s \in Requests : rq[s].pc \in {"subscribe", "wait", "release"} => rq[s].flight # r
    BY <1>2 DEF FlightInv, FlightsExist
  <1>4. PICK f \in Requests : rq' = [rq EXCEPT ![r].pc = "subscribe", ![r].flight = f]
                           /\ \/ f = table[p][e] /\ f # r /\ fl[f].pc # Unset /\ UNCHANGED <<table, fl>>
                              \/ /\ f = r /\ table' = [table EXCEPT ![p][e] = r]
                                 /\ fl' = [fl EXCEPT ![r] = [NoFlight EXCEPT !.pc = "new"]]
    <2>1. table[p][e] # Unset => fl[table[p][e]].pc # Unset /\ table[p][e] # r
      BY <1>1, <1>2 DEF FlightInv, FlightsExist
    <2>. QED BY <1>1, <2>1 DEF Join
  <1>5. /\ rq' \in [Requests -> Asking]
        /\ rq'[r].pc = "subscribe" /\ rq'[r].flight = f /\ rq'[r].step = rq[r].step
        /\ rq'[r].live = rq[r].live /\ rq'[r].took = Unset
        /\ \A s \in Requests \ {r} : rq'[s] = rq[s]
    BY <1>1, <1>2, <1>4 DEF DocsTypeOK, Asking, RequestStages
  <1>6. [NoFlight EXCEPT !.pc = "new"] \in Flight
    BY <1>1 DEF NoFlight, Flight, FlightStages, Ended, Unset
  <1>7. /\ fl' \in [Requests -> Flight] /\ \A g \in Requests \ {r} : fl'[g] = fl[g]
        /\ fl'[r] \in {fl[r], [NoFlight EXCEPT !.pc = "new"]}
        /\ f = r => fl'[r] = [NoFlight EXCEPT !.pc = "new"] /\ fl'[r].pc = "new"
        /\ f # r => fl'[r] = fl[r] /\ fl[f].pc # Unset
    <2>1. [NoFlight EXCEPT !.pc = "new"].pc = "new"
      BY DEF NoFlight
    <2>2. CASE f = r /\ fl' = [fl EXCEPT ![r] = [NoFlight EXCEPT !.pc = "new"]]
      <3> DEFINE new == [NoFlight EXCEPT !.pc = "new"]
      <3>1. fl' = [fl EXCEPT ![r] = new] /\ new \in Flight /\ new.pc = "new"
        BY <1>6, <2>1, <2>2
      <3> HIDE DEF new
      <3>2. /\ fl' \in [Requests -> Flight] /\ \A g \in Requests \ {r} : fl'[g] = fl[g]
            /\ fl'[r] = new /\ fl'[r].pc = "new"
        BY <3>1 DEF DocsTypeOK
      <3>. QED BY <3>2, <2>2 DEF new
    <2>3. CASE f # r /\ fl[f].pc # Unset /\ UNCHANGED fl
      BY <2>3 DEF DocsTypeOK
    <2>. QED BY <1>4, <2>2, <2>3
  <1>8. /\ table' \in [Servers -> [Entries -> Requests \union {Unset}]]
        /\ \A q \in Servers, g \in Entries : table'[q][g] = table[q][g] \/ (f = r /\ table'[q][g] = r)
    <2>1. CASE UNCHANGED table
      BY <2>1 DEF DocsTypeOK
    <2>2. CASE f = r /\ table' = [table EXCEPT ![p][e] = r]
      BY <1>1, <2>2 DEF DocsTypeOK
    <2>. QED BY <1>4, <2>1, <2>2
  <1>9. StartsOnce'
    <2>1. \A s \in Requests :
            /\ HasStep(s)' = HasStep(s) /\ StepOf(s)' = StepOf(s)
            /\ PastLocal(s)' = PastLocal(s)
      BY <1>5 DEF HasStep, StepOf, PastLocal
    <2>. QED BY <1>1, <1>5, <1>7, <2>1 DEF FlightInv, StartsOnce
  <1>10. FlightsExist'
    <2>1. fl'[f].pc # Unset /\ (f = r => fl'[r].pc = "new")
      BY <1>7 DEF Unset
    <2>2. \A g \in Requests : fl[g].pc # Unset => fl'[g] = fl[g]
      BY <1>2, <1>7
    <2>3. \A q \in Servers, g \in Entries : table'[q][g] # Unset => fl'[table'[q][g]].pc # Unset
      <3>1. \A q \in Servers, g \in Entries : table[q][g] # Unset =>
              table[q][g] \in Requests /\ fl[table[q][g]].pc # Unset
        BY DEF DocsTypeOK, FlightInv, FlightsExist
      <3>. QED BY <1>8, <2>1, <2>2, <3>1
    <2>4. \A s \in Requests : rq'[s].pc \in {"subscribe", "wait", "release"} =>
            rq'[s].flight \in Requests /\ fl'[rq'[s].flight].pc # Unset
      BY <1>5, <2>1, <2>2 DEF FlightInv, FlightsExist
    <2>5. \A s \in Requests : rq'[s].pc = "subscribe" /\ rq'[s].flight = s => fl'[s].pc = "new"
      BY <1>5, <1>7, <2>1 DEF FlightInv, FlightsExist
    <2>. QED BY <2>3, <2>4, <2>5 DEF FlightsExist
  <1>11. SubscribersCount'
    <2>1. \A g \in Requests : Waiters(g)' = Waiters(g)
      BY <1>1, <1>5, WaitersStay
    <2>2. Waiters(r) = {}
      BY <1>3 DEF Waiters
    <2>3. fl'[r].subs = Cardinality(Waiters(r)')
      <3>1. fl[r].subs = 0 /\ Cardinality(Waiters(r)) = 0
        BY <2>2, FS_EmptySet DEF FlightInv, SubscribersCount
      <3>2. fl'[r].subs = 0
        BY <3>1, <1>7 DEF NoFlight
      <3>. QED BY <3>1, <3>2, <2>1
    <2>4. \A g \in Requests : fl'[g].subs = Cardinality(Waiters(g)')
      BY <1>7, <2>1, <2>3 DEF FlightInv, SubscribersCount
    <2>5. \A s \in Requests : rq'[s].pc \in {"wait", "release"} /\ rq'[s].live =>
            ~fl'[rq'[s].flight].cancelled
      BY <1>3, <1>5, <1>7 DEF FlightInv, FlightsExist, SubscribersCount
    <2>6. \A g \in Requests : fl'[g].end = "cancelled" \/ fl'[g].result = "cancelled" => fl'[g].cancelled
      BY <1>7 DEF FlightInv, SubscribersCount, NoFlight, Unset
    <2>. QED BY <2>4, <2>5, <2>6 DEF SubscribersCount
  <1>12. CancelStaysOwn'
    BY <1>5 DEF FlightInv, CancelStaysOwn, Unset
  <1>. QED BY <1>2, <1>5, <1>7, <1>8, <1>9, <1>10, <1>11, <1>12 DEF FlightInv

\* A step of one flight.
LEMMA FlightMoves ==
    ASSUME DocsTypeOK, NEW f \in Requests, NEW h \in Flight, fl' = [fl EXCEPT ![f] = h]
    PROVE  /\ fl' \in [Requests -> Flight] /\ fl'[f] = h
           /\ \A g \in Requests \ {f} : fl'[g] = fl[g]
  BY DEF DocsTypeOK

\* Subscribing counts one more; the request remembers whether it found the flight cancelled.
LEMMA SubscribeKeepsFlights ==
    ASSUME DocsTypeOK, FlightInv, NEW r \in Requests, Subscribe(r)
    PROVE  /\ FlightInv' /\ rq' \in [Requests -> Asking] /\ fl' \in [Requests -> Flight]
           /\ \A g \in Requests : \/ fl'[g].pc = fl[g].pc
                                  \/ fl[g].pc = "new" /\ fl'[g].pc = "open"
           /\ \A g \in Requests : /\ fl'[g].file = fl[g].file /\ fl'[g].todo = fl[g].todo
                                  /\ fl'[g].prune = fl[g].prune
  <1>1. PICK f \in Requests : f = rq[r].flight /\ fl[f].pc # Unset
    BY DEF Subscribe, Is, FlightInv, FlightsExist
  <1>2. /\ rq[r] \in Asking /\ fl[f] \in Flight /\ rq[r].pc = "subscribe" /\ UNCHANGED table
        /\ HasStep(r) /\ StepOf(r) = "local" /\ rq[r].took = Unset
        /\ f = r => fl[f].pc = "new"
    <2>1. HasStep(r) /\ StepOf(r) = "local" /\ rq[r].pc = "subscribe"
      BY DEF Subscribe, Is, FlightInv, StartsOnce
    <2>. QED BY <1>1, <2>1, NotYetPast, RequestFields DEF Subscribe, FlightInv, FlightsExist, StartsOnce
  <1>3. PICK stage \in FlightStages :
          /\ fl' = [fl EXCEPT ![f] = [fl[f] EXCEPT !.subs = fl[f].subs + 1, !.pc = stage]]
          /\ stage = IF f = r THEN "open" ELSE fl[f].pc
    BY <1>1, <1>2 DEF Subscribe, Flight, FlightStages, DocsTypeOK
  <1>4. rq' = [rq EXCEPT ![r] = [rq[r] EXCEPT !.pc = "wait", !.live = ~fl[f].cancelled]]
    BY <1>1, <1>2 DEF Subscribe, Asking, DocsTypeOK
  <1>5. /\ rq' \in [Requests -> Asking]
        /\ rq'[r].pc = "wait" /\ rq'[r].flight = f /\ rq'[r].step = rq[r].step
        /\ rq'[r].live = ~fl[f].cancelled /\ rq'[r].took = Unset
        /\ \A s \in Requests \ {r} : rq'[s] = rq[s]
    BY <1>1, <1>2, <1>4 DEF DocsTypeOK, Asking, RequestStages
  <1>6. /\ fl' \in [Requests -> Flight] /\ \A g \in Requests \ {f} : fl'[g] = fl[g]
        /\ fl'[f].subs = fl[f].subs + 1 /\ fl'[f].pc = stage
        /\ fl'[f].cancelled = fl[f].cancelled /\ fl'[f].end = fl[f].end
        /\ fl'[f].result = fl[f].result /\ fl'[f].file = fl[f].file
        /\ fl'[f].todo = fl[f].todo /\ fl'[f].prune = fl[f].prune
    <2>1. PICK h : h = [fl[f] EXCEPT !.subs = fl[f].subs + 1, !.pc = stage]
      OBVIOUS
    <2>2. /\ h \in Flight /\ h.subs = fl[f].subs + 1 /\ h.pc = stage
          /\ h.cancelled = fl[f].cancelled /\ h.end = fl[f].end /\ h.result = fl[f].result
          /\ h.file = fl[f].file /\ h.todo = fl[f].todo /\ h.prune = fl[f].prune
      <3>1. /\ h.subs = fl[f].subs + 1 /\ h.pc = stage
            /\ h.cancelled = fl[f].cancelled /\ h.end = fl[f].end /\ h.result = fl[f].result
            /\ h.file = fl[f].file /\ h.todo = fl[f].todo /\ h.prune = fl[f].prune
        BY <1>2, <2>1 DEF Flight
      <3>2. fl[f].subs \in Nat /\ fl[f].subs + 1 \in Nat
        BY <1>2 DEF Flight
      <3>3. h \in Flight
        BY <1>2, <2>1, <3>2 DEF Flight
      <3>. QED BY <3>1, <3>3
    <2>. QED BY <1>3, <2>1, <2>2, FlightMoves
  <1>7. /\ stage # Unset /\ (f = r => fl[f].pc = "new" /\ stage = "open")
        /\ f # r => stage = fl[f].pc
    BY <1>1, <1>2, <1>3 DEF Unset
  <1>8. \A g \in Requests : fl'[g].pc = Unset <=> fl[g].pc = Unset
    BY <1>1, <1>6, <1>7
  <1>9. StartsOnce'
    <2>1. \A s \in Requests :
            /\ HasStep(s)' = HasStep(s) /\ StepOf(s)' = StepOf(s)
            /\ PastLocal(s)' = PastLocal(s)
      BY <1>5 DEF HasStep, StepOf, PastLocal
    <2>. QED BY <1>2, <1>5, <1>8, <2>1 DEF FlightInv, StartsOnce
  <1>10. FlightsExist'
    <2>1. \A q \in Servers, e \in Entries : table'[q][e] # Unset => fl'[table'[q][e]].pc # Unset
      <3>1. \A q \in Servers, e \in Entries : table[q][e] # Unset =>
              table[q][e] \in Requests /\ fl[table[q][e]].pc # Unset
        BY DEF DocsTypeOK, FlightInv, FlightsExist
      <3>. QED BY <1>2, <1>8, <3>1
    <2>2. \A s \in Requests : rq'[s].pc \in {"subscribe", "wait", "release"} =>
            rq'[s].flight \in Requests /\ fl'[rq'[s].flight].pc # Unset
      BY <1>1, <1>5, <1>8 DEF FlightInv, FlightsExist
    <2>3. \A s \in Requests : rq'[s].pc = "subscribe" /\ rq'[s].flight = s => fl'[s].pc = "new"
      BY <1>5, <1>6, <1>7 DEF FlightInv, FlightsExist
    <2>. QED BY <2>1, <2>2, <2>3 DEF FlightsExist
  <1>11. SubscribersCount'
    <2>1. Waiters(f)' = Waiters(f) \union {r} /\ r \notin Waiters(f)
      BY <1>2, <1>5 DEF Waiters
    <2>2. \A g \in Requests \ {f} : Waiters(g)' = Waiters(g)
      BY <1>2, <1>5 DEF Waiters
    <2>3. IsFiniteSet(Waiters(f))
      BY FS_Subset, DocsAssumption DEF Waiters
    <2>4. Cardinality(Waiters(f)') = Cardinality(Waiters(f)) + 1
      BY <2>1, <2>3, FS_AddElement
    <2>5. \A g \in Requests : fl'[g].subs = Cardinality(Waiters(g)')
      BY <1>6, <2>2, <2>4 DEF FlightInv, SubscribersCount
    <2>6. \A g \in Requests : fl'[g].cancelled = fl[g].cancelled
      BY <1>6
    <2>7. \A s \in Requests : rq'[s].pc \in {"wait", "release"} /\ rq'[s].live =>
            ~fl'[rq'[s].flight].cancelled
      <3>1. \A s \in Requests : rq[s].pc \in {"wait", "release"} /\ rq[s].live =>
              rq[s].flight \in Requests /\ ~fl[rq[s].flight].cancelled
        BY DEF FlightInv, FlightsExist, SubscribersCount
      <3>2. rq'[r].live => ~fl'[rq'[r].flight].cancelled
        BY <1>5, <2>6
      <3>. QED BY <1>5, <2>6, <3>1, <3>2
    <2>8. \A g \in Requests : fl'[g].end = "cancelled" \/ fl'[g].result = "cancelled" => fl'[g].cancelled
      BY <1>6 DEF FlightInv, SubscribersCount
    <2>. QED BY <2>5, <2>7, <2>8 DEF SubscribersCount
  <1>12. CancelStaysOwn'
    BY <1>5 DEF FlightInv, CancelStaysOwn, Unset
  <1>13. /\ \A g \in Requests : fl'[g].pc = fl[g].pc \/ (fl[g].pc = "new" /\ fl'[g].pc = "open")
         /\ \A g \in Requests : /\ fl'[g].file = fl[g].file /\ fl'[g].todo = fl[g].todo
                                /\ fl'[g].prune = fl[g].prune
    BY <1>6, <1>7
  <1>. QED BY <1>5, <1>6, <1>9, <1>10, <1>11, <1>12, <1>13 DEF FlightInv

\* Releasing counts one less; only the last subscriber cancels, and then nobody else waits.
LEMMA ReleaseKeepsFlights ==
    ASSUME DocsTypeOK, FlightInv, NEW r \in Requests, Release(r)
    PROVE  /\ FlightInv' /\ rq' \in [Requests -> Asking] /\ fl' \in [Requests -> Flight]
           /\ \A g \in Requests : /\ fl'[g].pc = fl[g].pc /\ fl'[g].file = fl[g].file
                                  /\ fl'[g].todo = fl[g].todo /\ fl'[g].prune = fl[g].prune
  <1>1. PICK f \in Requests : f = rq[r].flight
    BY DEF Release, Is, FlightInv, FlightsExist
  <1>2. /\ rq[r] \in Asking /\ fl[f] \in Flight /\ rq[r].pc = "release" /\ UNCHANGED table
        /\ HasStep(r) /\ StepOf(r) = "local"
    BY RequestFields DEF Release, Is, FlightInv, StartsOnce
  <1>3. /\ IsFiniteSet(Waiters(f)) /\ r \in Waiters(f) /\ fl[f].subs = Cardinality(Waiters(f))
        /\ IsFiniteSet(Waiters(f) \ {r})
        /\ Cardinality(Waiters(f) \ {r}) = Cardinality(Waiters(f)) - 1
        /\ Cardinality(Waiters(f) \ {r}) \in Nat
    <2>1. IsFiniteSet(Waiters(f))
      BY FS_Subset, DocsAssumption DEF Waiters
    <2>2. r \in Waiters(f)
      BY <1>1, <1>2 DEF Waiters
    <2>. QED BY <2>1, <2>2, FS_RemoveElement, FS_CardinalityType DEF FlightInv, SubscribersCount
  <1>4. PICK last \in BOOLEAN : last <=> (fl[f].subs = 1 /\ fl[f].result = Unset)
    OBVIOUS
  <1>5. PICK stage \in {"drain", "result"} : rq' = [rq EXCEPT ![r] = [rq[r] EXCEPT !.pc = stage]]
    BY <1>1, <1>2 DEF Release, Goto, Asking, DocsTypeOK
  <1>6. fl' = [fl EXCEPT ![f] = [fl[f] EXCEPT !.subs = fl[f].subs - 1, !.cancelled = fl[f].cancelled \/ last]]
    BY <1>1, <1>2, <1>4 DEF Release, Flight, DocsTypeOK
  <1>7. /\ rq' \in [Requests -> Asking]
        /\ rq'[r].pc \in {"drain", "result"} /\ rq'[r].step = rq[r].step
        /\ rq'[r].live = rq[r].live /\ rq'[r].took = rq[r].took
        /\ \A s \in Requests \ {r} : rq'[s] = rq[s]
    BY <1>2, <1>5 DEF DocsTypeOK, Asking, RequestStages
  <1>8. /\ fl' \in [Requests -> Flight] /\ \A g \in Requests \ {f} : fl'[g] = fl[g]
        /\ fl'[f].subs = fl[f].subs - 1 /\ fl'[f].pc = fl[f].pc
        /\ fl'[f].cancelled <=> (fl[f].cancelled \/ last)
        /\ fl'[f].end = fl[f].end
        /\ fl'[f].result = fl[f].result /\ fl'[f].file = fl[f].file
        /\ fl'[f].todo = fl[f].todo /\ fl'[f].prune = fl[f].prune
    <2>1. fl[f].subs - 1 \in Nat
      BY <1>3
    <2>. QED BY <1>2, <1>6, <2>1 DEF DocsTypeOK, Flight
  <1>9. StartsOnce'
    <2>1. \A s \in Requests :
            /\ HasStep(s)' = HasStep(s) /\ StepOf(s)' = StepOf(s)
            /\ PastLocal(s)' = PastLocal(s)
      BY <1>7 DEF HasStep, StepOf, PastLocal
    <2>2. \A g \in Requests : fl'[g].pc = fl[g].pc
      BY <1>8
    <2>. QED BY <1>2, <1>7, <2>1, <2>2 DEF FlightInv, StartsOnce
  <1>10. FlightsExist'
    <2>1. \A g \in Requests : fl'[g].pc = fl[g].pc
      BY <1>8
    <2>2. \A q \in Servers, e \in Entries : table'[q][e] # Unset => fl'[table'[q][e]].pc # Unset
      <3>1. \A q \in Servers, e \in Entries : table[q][e] # Unset =>
              table[q][e] \in Requests /\ fl[table[q][e]].pc # Unset
        BY DEF DocsTypeOK, FlightInv, FlightsExist
      <3>. QED BY <1>2, <2>1, <3>1
    <2>. QED BY <1>7, <2>1, <2>2 DEF FlightInv, FlightsExist
  <1>11. SubscribersCount'
    <2>1. Waiters(f)' = Waiters(f) \ {r}
      BY <1>2, <1>7 DEF Waiters
    <2>2. \A g \in Requests \ {f} : Waiters(g)' = Waiters(g)
      BY <1>1, <1>2, <1>7 DEF Waiters
    <2>3. \A g \in Requests : fl'[g].subs = Cardinality(Waiters(g)')
      <3>1. \A g \in Requests \ {f} : fl'[g].subs = Cardinality(Waiters(g)')
        BY <1>8, <2>2 DEF FlightInv, SubscribersCount
      <3>2. fl'[f].subs = Cardinality(Waiters(f)')
        BY <1>3, <1>8, <2>1
      <3>. QED BY <3>1, <3>2
    <2>4. last => Waiters(f)' = {}
      BY <1>3, <1>4, <2>1, FS_EmptySet
    <2>5. \A s \in Requests : rq'[s].pc \in {"wait", "release"} /\ rq'[s].live =>
            ~fl'[rq'[s].flight].cancelled
      <3>1. SUFFICES ASSUME NEW s \in Requests, rq'[s].pc \in {"wait", "release"}, rq'[s].live
                     PROVE  ~fl'[rq'[s].flight].cancelled
        OBVIOUS
      <3>2. s # r /\ rq'[s] = rq[s] /\ rq[s].flight \in Requests /\ ~fl[rq[s].flight].cancelled
        BY <1>7, <3>1 DEF FlightInv, FlightsExist, SubscribersCount
      <3>3. rq[s].flight = f => ~last
        BY <2>4, <3>1, <3>2 DEF Waiters
      <3>. QED BY <1>8, <3>2, <3>3
    <2>6. \A g \in Requests : fl'[g].end = "cancelled" \/ fl'[g].result = "cancelled" => fl'[g].cancelled
      BY <1>8 DEF FlightInv, SubscribersCount
    <2>. QED BY <2>3, <2>5, <2>6 DEF SubscribersCount
  <1>12. CancelStaysOwn'
    BY <1>7 DEF FlightInv, CancelStaysOwn
  <1>13. \A g \in Requests : /\ fl'[g].pc = fl[g].pc /\ fl'[g].file = fl[g].file
                             /\ fl'[g].todo = fl[g].todo /\ fl'[g].prune = fl[g].prune
    BY <1>8
  <1>. QED BY <1>7, <1>8, <1>9, <1>10, <1>11, <1>12, <1>13 DEF FlightInv

-----------------------------------------------------------------------------
\* The entries on disk and their locks.

\* Two living generations past the lock of one entry: its lock was replaced under one of them.
LEMMA OneGeneratorPerEntry ==
    ASSUME LocksAreHeld, NEW f \in Requests, NEW g \in Requests, f # g,
           Up(f), Inside(f), Up(g), Inside(g), want[f] = want[g]
    PROVE  want[f] \in disturbed
  BY DEF LocksAreHeld

\* A step that touches no file, and no generation past its lock.
LEMMA DiskStays ==
    ASSUME DocsTypeOK, DiskInv, UNCHANGED <<disk, lockFile, holder, want, lost, disturbed>>,
           \A g \in Requests :
             \/ /\ fl'[g].pc = fl[g].pc /\ fl'[g].file = fl[g].file
                /\ fl'[g].todo = fl[g].todo /\ fl'[g].prune = fl[g].prune
             \/ fl[g].pc \notin Generating /\ fl'[g].pc \notin Generating /\ fl'[g].prune = Unset
    PROVE  DiskInv'
  <1>1. /\ \A g \in Requests : Up(g)' = Up(g)
        /\ \A g \in Requests : Inside(g) => fl[g].pc \in Generating
        /\ \A g \in Requests : Inside(g)' => fl'[g].pc \in Generating
    BY DEF Up, Inside, Generating
  <1>2. LocksAreHeld'
    BY <1>1 DEF DiskInv, LocksAreHeld, Inside
  <1>3. \A g \in Requests : fl'[g].prune = fl[g].prune
    BY DEF DiskInv, PagesAreThere, Generating
  <1>4. PagesAreThere'
    <2>1. \A g \in Requests : fl'[g].pc \in {"publish", "remove"} => fl'[g].pc = fl[g].pc /\ fl'[g].todo = fl[g].todo
      BY DEF Generating
    <2>2. \A g \in Requests : fl[g].pc = "remove" => fl'[g].pc = "remove"
      BY DEF Generating
    <2>. QED BY <1>1, <1>3, <2>1, <2>2 DEF DiskInv, PagesAreThere
  <1>5. \A e \in Entries : Removing(e)' = Removing(e)
    BY <1>1, <1>3 DEF Removing
  <1>6. CompleteIsWhole'
    BY <1>5 DEF DiskInv, CompleteIsWhole
  <1>. QED BY <1>2, <1>4, <1>6 DEF DiskInv

\* One generation works on its entry, or another: what the others have published stays.
LEMMA PagesStay ==
    ASSUME DocsTypeOK, DiskInv, NEW f \in Requests, \A g \in Requests \ {f} : fl'[g] = fl[g],
           fl'[f].prune = Unset <=> fl'[f].pc # "remove",
           fl'[f].pc = "publish" => want[f] \in disturbed' \/ Pages \ fl'[f].todo \subseteq disk'[want[f]].pages,
           UNCHANGED <<want, lost>>, disturbed \subseteq disturbed',
           \A g \in Requests \ {f} : Up(g) /\ fl[g].pc = "publish" =>
             want[g] \in disturbed' \/ disk[want[g]].pages \subseteq disk'[want[g]].pages
    PROVE  PagesAreThere'
  <1>1. \A g \in Requests : fl'[g].prune = Unset <=> fl'[g].pc # "remove"
    BY DEF DiskInv, PagesAreThere
  <1>2. SUFFICES ASSUME NEW g \in Requests, Up(g)', fl'[g].pc = "publish"
                 PROVE  want'[g] \in disturbed' \/ Pages \ fl'[g].todo \subseteq disk'[want'[g]].pages
    BY <1>1 DEF PagesAreThere
  <1>3. CASE g # f
    <2>1. Up(g) /\ fl[g].pc = "publish" /\ fl'[g].todo = fl[g].todo
      BY <1>2, <1>3 DEF Up
    <2>2. want[g] \in disturbed \/ Pages \ fl[g].todo \subseteq disk[want[g]].pages
      BY <2>1 DEF DiskInv, PagesAreThere
    <2>. QED BY <1>3, <2>1, <2>2
  <1>4. CASE g = f
    BY <1>2, <1>4
  <1>. QED BY <1>3, <1>4

\* The locks stay with whoever remains past them.
LEMMA LocksStay ==
    ASSUME DocsTypeOK, DiskInv, NEW f \in Requests, \A g \in Requests \ {f} : fl'[g] = fl[g],
           UNCHANGED <<want, lost, lockFile>>, disturbed \subseteq disturbed',
           \/ UNCHANGED holder /\ fl[f].pc \in Generating /\ fl'[f].file = fl[f].file
           \/ /\ fl'[f].pc \notin Generating
              /\ holder' = [x \in Files |-> IF holder[x] = f THEN Unset ELSE holder[x]]
    PROVE  LocksAreHeld'
  <1>1. SUFFICES ASSUME NEW g \in Requests, Up(g)', Inside(g)'
                 PROVE  /\ holder'[fl'[g].file] = g
                        /\ want'[g] \in disturbed' \/ fl'[g].file = lockFile'[want'[g]]
    BY DEF LocksAreHeld
  <1>2. Up(g) /\ Inside(g) /\ fl'[g].file = fl[g].file /\ fl[g].file \in Files
    BY <1>1, RequestFields DEF Up, Inside, Generating, Flight
  <1>3. /\ holder[fl[g].file] = g
        /\ want[g] \in disturbed \/ fl[g].file = lockFile[want[g]]
    BY <1>2 DEF DiskInv, LocksAreHeld
  <1>4. holder'[fl[g].file] = g
    <2>1. CASE UNCHANGED holder
      BY <2>1, <1>3
    <2>2. CASE /\ fl'[f].pc \notin Generating
               /\ holder' = [x \in Files |-> IF holder[x] = f THEN Unset ELSE holder[x]]
      <3>1. g # f
        BY <1>1, <2>2 DEF Inside, Generating
      <3>. QED BY <1>2, <1>3, <2>2, <3>1
    <2>. QED BY <2>1, <2>2
  <1>. QED BY <1>2, <1>3, <1>4

\* A generation ends: its flight, and everybody's locks.
LEMMA EndedGeneration ==
    ASSUME DocsTypeOK, DiskInv, FlightInv, NEW f \in Requests, NEW end \in Ended, Ends(f, end),
           fl[f].pc \in (Generating \ {"remove"}) \union {"lock"},
           end = "cancelled" => fl[f].cancelled,
           UNCHANGED <<rq, table, want, lost, lockFile>>, disturbed \subseteq disturbed'
    PROVE  /\ fl' \in [Requests -> Flight] /\ holder' \in [Files -> Requests \union {Unset}]
           /\ \A g \in Requests \ {f} : fl'[g] = fl[g]
           /\ fl'[f].pc = "finish" /\ fl'[f].prune = Unset
           /\ \A e : Removing(e)' = Removing(e)
           /\ FlightInv' /\ LocksAreHeld'
  <1>1. fl[f] \in Flight /\ 1 \in Files
    BY RequestFields
  <1>2. PICK h : h = [fl[f] EXCEPT !.pc = "finish", !.end = end, !.prune = Unset, !.file = 1, !.todo = {}]
    OBVIOUS
  <1>3. /\ h \in Flight /\ h.pc = "finish" /\ h.prune = Unset /\ h.end = end
        /\ h.subs = fl[f].subs /\ h.cancelled = fl[f].cancelled /\ h.result = fl[f].result
    BY <1>1, <1>2 DEF Flight, FlightStages
  <1>4. fl' = [fl EXCEPT ![f] = h]
    BY <1>2 DEF Ends
  <1>5. /\ fl' \in [Requests -> Flight] /\ fl'[f] = h
        /\ \A g \in Requests \ {f} : fl'[g] = fl[g]
    BY <1>3, <1>4, FlightMoves
  <1>6. holder' \in [Files -> Requests \union {Unset}]
    BY DEF Ends, DocsTypeOK
  <1>7. fl[f].pc \notin {Unset, "new"} /\ fl'[f].pc # Unset /\ fl'[f].pc \notin Generating
    BY <1>3, <1>5 DEF Generating, Unset
  <1>8. FlightInv'
    <2>1. fl[f].result = "cancelled" => fl[f].cancelled
      BY DEF FlightInv, SubscribersCount
    <2>2. \A p \in Servers, e \in Entries : table'[p][e] \in {table[p][e], Unset}
      OBVIOUS
    <2>. QED BY <1>3, <1>5, <1>7, <2>1, <2>2, WorkerKeepsFlights
  <1>9. LocksAreHeld'
    BY <1>5, <1>7, LocksStay DEF Ends
  <1>10. \A e : Removing(e)' = Removing(e)
    <2>1. fl[f].prune = Unset
      BY DEF DiskInv, PagesAreThere, Generating
    <2>2. \A g \in Requests : fl'[g].prune = fl[g].prune /\ Up(g)' = Up(g)
      BY <1>3, <1>5, <2>1 DEF Up
    <2>. QED BY <2>2 DEF Removing
  <1>. QED BY <1>3, <1>5, <1>6, <1>8, <1>9, <1>10

\* A generation that ends leaves the entries as they are.
LEMMA EndKeepsDisk ==
    ASSUME DocsTypeOK, DiskInv, FlightInv, NEW f \in Requests, NEW end \in Ended, Ends(f, end),
           fl[f].pc \in (Generating \ {"remove"}) \union {"lock"},
           end = "cancelled" => fl[f].cancelled,
           UNCHANGED <<rq, table, want, lost, lockFile, disk>>, disturbed \subseteq disturbed'
    PROVE  DocsInv'
  <1>1. /\ fl' \in [Requests -> Flight] /\ holder' \in [Files -> Requests \union {Unset}]
        /\ \A g \in Requests \ {f} : fl'[g] = fl[g]
        /\ fl'[f].pc = "finish" /\ fl'[f].prune = Unset
        /\ \A e : Removing(e)' = Removing(e)
        /\ FlightInv' /\ LocksAreHeld'
    BY EndedGeneration
  <1>2. PagesAreThere'
    BY <1>1, PagesStay
  <1>3. CompleteIsWhole'
    BY <1>1 DEF DiskInv, CompleteIsWhole
  <1>4. DocsTypeOK'
    BY <1>1 DEF DocsTypeOK
  <1>. QED BY <1>1, <1>2, <1>3, <1>4 DEF DocsInv, DiskInv

-----------------------------------------------------------------------------
\* The steps of a worker.

\* A worker goes on, in its own flight.
LEMMA WorkerGoesOn ==
    ASSUME DocsTypeOK, FlightInv, NEW f \in Requests, NEW h \in Flight, fl' = [fl EXCEPT ![f] = h],
           fl[f].pc \notin {Unset, "new"}, h.pc # Unset,
           h.subs = fl[f].subs, h.cancelled = fl[f].cancelled,
           h.end = fl[f].end, h.result = fl[f].result, UNCHANGED <<rq, table>>
    PROVE  /\ fl' \in [Requests -> Flight] /\ fl'[f] = h
           /\ \A g \in Requests \ {f} : fl'[g] = fl[g]
           /\ FlightInv'
  <1>1. /\ fl' \in [Requests -> Flight] /\ fl'[f] = h
        /\ \A g \in Requests \ {f} : fl'[g] = fl[g]
    BY FlightMoves
  <1>2. h.end = "cancelled" \/ h.result = "cancelled" => fl[f].cancelled
    BY DEF FlightInv, SubscribersCount
  <1>3. \A p \in Servers, e \in Entries : table'[p][e] \in {table[p][e], Unset}
    OBVIOUS
  <1>4. FlightInv'
    BY <1>1, <1>2, <1>3, WorkerKeepsFlights
  <1>. QED BY <1>1, <1>4

\* The same for a worker past its lock that only changes its stage and what it has left to publish.
LEMMA GeneratorGoesOn ==
    ASSUME DocsTypeOK, FlightInv, DiskInv, NEW f \in Requests,
           NEW pc \in Generating \ {"remove"}, NEW todo \in SUBSET Pages,
           fl' = [fl EXCEPT ![f] = [fl[f] EXCEPT !.pc = pc, !.todo = todo]],
           fl[f].pc \in Generating \ {"remove"},
           UNCHANGED <<rq, table, holder, lockFile, want, lost>>, disturbed \subseteq disturbed'
    PROVE  /\ fl' \in [Requests -> Flight] /\ fl'[f].pc = pc /\ fl'[f].todo = todo
           /\ fl'[f].prune = Unset
           /\ \A g \in Requests \ {f} : fl'[g] = fl[g]
           /\ FlightInv' /\ LocksAreHeld' /\ \A e : Removing(e)' = Removing(e)
  <1>1. fl[f] \in Flight /\ fl[f].prune = Unset
    BY RequestFields DEF DiskInv, PagesAreThere, Generating
  <1>2. PICK h : h = [fl[f] EXCEPT !.pc = pc, !.todo = todo]
    OBVIOUS
  <1>3. /\ h \in Flight /\ h.pc = pc /\ h.todo = todo /\ h.prune = Unset /\ h.file = fl[f].file
        /\ h.end = fl[f].end /\ h.subs = fl[f].subs /\ h.cancelled = fl[f].cancelled
        /\ h.result = fl[f].result
    BY <1>1, <1>2 DEF Flight, FlightStages
  <1>4. fl[f].pc \notin {Unset, "new"} /\ h.pc # Unset
    BY <1>3 DEF Generating, Unset
  <1>5. /\ fl' \in [Requests -> Flight] /\ fl'[f] = h /\ FlightInv'
        /\ \A g \in Requests \ {f} : fl'[g] = fl[g]
    BY <1>2, <1>3, <1>4, WorkerGoesOn
  <1>6. LocksAreHeld'
    BY <1>3, <1>5, LocksStay
  <1>7. \A e : Removing(e)' = Removing(e)
    <2>1. \A g \in Requests : fl'[g].prune = fl[g].prune /\ Up(g)' = Up(g)
      BY <1>1, <1>3, <1>5 DEF Up
    <2>. QED BY <2>1 DEF Removing
  <1>. QED BY <1>3, <1>5, <1>6, <1>7

\* Opening the lock file: it is not held yet.
LEMMA OpenKeepsDocs == ASSUME DocsInv, NEW f \in Requests, OpenLock(f) PROVE DocsInv'
  <1>1. /\ fl[f] \in Flight /\ want[f] \in Entries /\ lockFile[want[f]] \in Files
        /\ fl[f].pc = "open" /\ fl[f].prune = Unset
    BY RequestFields DEF DocsInv, DocsTypeOK, DiskInv, PagesAreThere, OpenLock, Runs
  <1>2. PICK h : h = [fl[f] EXCEPT !.pc = "lock", !.file = lockFile[want[f]]]
    OBVIOUS
  <1>3. /\ h \in Flight /\ h.pc = "lock" /\ h.prune = Unset
        /\ h.end = fl[f].end /\ h.subs = fl[f].subs /\ h.cancelled = fl[f].cancelled
        /\ h.result = fl[f].result
    BY <1>1, <1>2 DEF Flight, FlightStages
  <1>4. fl' = [fl EXCEPT ![f] = h]
    BY <1>1, <1>2 DEF OpenLock, DocsInv, DocsTypeOK, Flight
  <1>5. /\ fl' \in [Requests -> Flight] /\ fl'[f] = h /\ FlightInv'
        /\ \A g \in Requests \ {f} : fl'[g] = fl[g]
    BY <1>1, <1>3, <1>4, WorkerGoesOn DEF OpenLock, DocsInv, Unset
  <1>6. DiskInv'
    <2>1. fl[f].pc \notin Generating /\ fl'[f].pc \notin Generating /\ fl'[f].prune = Unset
      BY <1>1, <1>3, <1>5 DEF Generating
    <2>. QED BY <1>5, <2>1, DiskStays DEF DocsInv, OpenLock
  <1>. QED BY <1>5, <1>6 DEF DocsInv, DocsTypeOK, OpenLock

\* The lock: whoever is past it has a file of its own.
LEMMA AcquireKeepsDocs == ASSUME DocsInv, NEW f \in Requests, AcquireGenerationLock(f) PROVE DocsInv'
  <1>1. /\ fl[f] \in Flight /\ want[f] \in Entries /\ fl[f].file \in Files
        /\ fl[f].pc = "lock" /\ fl[f].prune = Unset /\ Unset \notin Requests
        /\ UNCHANGED <<disk, lockFile, table, rq, want, lost>>
    BY RequestFields DEF DocsInv, DocsTypeOK, DiskInv, PagesAreThere, AcquireGenerationLock, Runs, Flight
  <1>2. CASE Ends(f, "cache") /\ UNCHANGED disturbed
    BY <1>1, <1>2, EndKeepsDisk DEF DocsInv, Ended
  <1>3. CASE /\ holder[fl[f].file] = Unset
             /\ holder' = [holder EXCEPT ![fl[f].file] = f]
             /\ fl' = [fl EXCEPT ![f].pc = "cleanup"]
             /\ disturbed' = disturbed \union Disturb(f)
    <2>1. PICK h : h = [fl[f] EXCEPT !.pc = "cleanup"]
      OBVIOUS
    <2>2. /\ h \in Flight /\ h.pc = "cleanup" /\ h.prune = Unset /\ h.file = fl[f].file
          /\ h.end = fl[f].end /\ h.subs = fl[f].subs /\ h.cancelled = fl[f].cancelled
          /\ h.result = fl[f].result
      BY <1>1, <2>1 DEF Flight, FlightStages, Generating
    <2>3. fl' = [fl EXCEPT ![f] = h]
      BY <1>1, <1>3, <2>1 DEF DocsInv, DocsTypeOK, Flight
    <2>4. /\ fl' \in [Requests -> Flight] /\ fl'[f] = h /\ FlightInv'
          /\ \A g \in Requests \ {f} : fl'[g] = fl[g]
      BY <1>1, <2>2, <2>3, WorkerGoesOn DEF DocsInv, Unset
    <2>5. /\ holder' \in [Files -> Requests \union {Unset}] /\ holder'[fl[f].file] = f
          /\ \A x \in Files \ {fl[f].file} : holder'[x] = holder[x]
      BY <1>1, <1>3 DEF DocsInv, DocsTypeOK
    <2>6. LocksAreHeld'
      <3>1. \A g \in Requests \ {f} : Up(g)' /\ Inside(g)' =>
              /\ holder'[fl'[g].file] = g
              /\ want'[g] \in disturbed' \/ fl'[g].file = lockFile'[want'[g]]
        <4>1. SUFFICES ASSUME NEW g \in Requests \ {f}, Up(g)', Inside(g)'
                       PROVE  /\ holder'[fl'[g].file] = g
                              /\ want'[g] \in disturbed' \/ fl'[g].file = lockFile'[want'[g]]
          OBVIOUS
        <4>2. Up(g) /\ Inside(g) /\ fl'[g] = fl[g] /\ fl[g].file \in Files
          BY <1>1, <2>4, <4>1, RequestFields DEF Up, Inside, DocsInv, Flight
        <4>3. /\ holder[fl[g].file] = g
              /\ want[g] \in disturbed \/ fl[g].file = lockFile[want[g]]
          BY <4>2 DEF DocsInv, DiskInv, LocksAreHeld
        <4>4. fl[g].file # fl[f].file
          BY <1>1, <1>3, <4>3
        <4>. QED BY <1>1, <1>3, <2>5, <4>2, <4>3, <4>4
      <3>2. holder'[fl'[f].file] = f /\ (want[f] \in disturbed' \/ fl'[f].file = lockFile[want[f]])
        BY <1>3, <2>2, <2>4, <2>5 DEF Disturb
      <3>. QED BY <1>1, <3>1, <3>2 DEF LocksAreHeld
    <2>7. PagesAreThere'
      BY <1>1, <1>3, <2>2, <2>4, PagesStay DEF DocsInv
    <2>8. CompleteIsWhole'
      <3>1. \A g \in Requests : fl'[g].prune = fl[g].prune /\ Up(g)' = Up(g)
        BY <1>1, <2>2, <2>4 DEF Up
      <3>2. \A e : Removing(e)' = Removing(e)
        BY <3>1 DEF Removing
      <3>. QED BY <1>1, <1>3, <3>2 DEF DocsInv, DiskInv, CompleteIsWhole
    <2>. QED BY <1>1, <2>4, <2>5, <2>6, <2>7, <2>8 DEF DocsInv, DiskInv, DocsTypeOK
  <1>. QED BY <1>2, <1>3 DEF AcquireGenerationLock

\* A stage alone, in the form of GeneratorGoesOn.
LEMMA StageOnly ==
    ASSUME DocsTypeOK, NEW f \in Requests, NEW pc, fl' = [fl EXCEPT ![f].pc = pc]
    PROVE  /\ fl' = [fl EXCEPT ![f] = [fl[f] EXCEPT !.pc = pc, !.todo = fl[f].todo]]
           /\ fl[f].todo \in SUBSET Pages
  <1>1. fl[f] \in Flight /\ fl \in [Requests -> Flight]
    BY DEF DocsTypeOK
  <1>2. [fl[f] EXCEPT !.pc = pc] = [fl[f] EXCEPT !.pc = pc, !.todo = fl[f].todo]
    BY <1>1 DEF Flight
  <1>3. fl' = [fl EXCEPT ![f] = [fl[f] EXCEPT !.pc = pc]]
    BY <1>1
  <1>. QED BY <1>1, <1>2, <1>3 DEF Flight

\* A generation that moves to a stage, and nothing else.
LEMMA StageGoesOn ==
    ASSUME DocsTypeOK, FlightInv, DiskInv, NEW f \in Requests,
           NEW pc \in Generating \ {"remove"}, fl' = [fl EXCEPT ![f].pc = pc],
           fl[f].pc \in Generating \ {"remove"},
           UNCHANGED <<rq, table, holder, lockFile, want, lost>>, disturbed \subseteq disturbed'
    PROVE  /\ fl' \in [Requests -> Flight] /\ fl'[f].pc = pc /\ fl'[f].prune = Unset
           /\ \A g \in Requests \ {f} : fl'[g] = fl[g]
           /\ FlightInv' /\ LocksAreHeld' /\ \A e : Removing(e)' = Removing(e)
  <1>1. /\ fl[f].todo \in SUBSET Pages
        /\ fl' = [fl EXCEPT ![f] = [fl[f] EXCEPT !.pc = pc, !.todo = fl[f].todo]]
    BY StageOnly
  <1>2. PICK t \in SUBSET Pages : t = fl[f].todo
    BY <1>1
  <1>3. fl' = [fl EXCEPT ![f] = [fl[f] EXCEPT !.pc = pc, !.todo = t]]
    BY <1>1, <1>2
  <1>. QED BY <1>3, GeneratorGoesOn

\* A lock file that is removed was held by nobody.
LEMMA CleanupKeepsDocs == ASSUME DocsInv, NEW f \in Requests, CleanupGenerationLocks(f) PROVE DocsInv'
  <1>1. /\ want[f] \in Entries /\ Up(f) /\ fl[f].pc = "cleanup"
        /\ UNCHANGED <<disk, holder, table, rq, want, lost, disturbed>>
        /\ fl' = [fl EXCEPT ![f].pc = "prune"]
    BY RequestFields DEF DocsInv, CleanupGenerationLocks, Runs
  <1>2. /\ fl' = [fl EXCEPT ![f] = [fl[f] EXCEPT !.pc = "prune", !.todo = fl[f].todo]]
        /\ fl[f].todo \in SUBSET Pages
    BY <1>1, StageOnly DEF DocsInv
  <1>3. fl[f] \in Flight /\ fl[f].prune = Unset
    BY <1>1, RequestFields DEF DocsInv, DiskInv, PagesAreThere
  <1>4. PICK h : h = [fl[f] EXCEPT !.pc = "prune", !.todo = fl[f].todo]
    OBVIOUS
  <1>5. /\ h \in Flight /\ h.pc = "prune" /\ h.prune = Unset /\ h.file = fl[f].file
        /\ h.end = fl[f].end /\ h.subs = fl[f].subs /\ h.cancelled = fl[f].cancelled
        /\ h.result = fl[f].result
    BY <1>3, <1>4 DEF Flight, FlightStages, Generating
  <1>6. /\ fl' \in [Requests -> Flight] /\ fl'[f] = h /\ FlightInv'
        /\ \A g \in Requests \ {f} : fl'[g] = fl[g]
    <2>1. DocsTypeOK /\ FlightInv /\ fl[f].pc \notin {Unset, "new"} /\ h.pc # Unset
      BY <1>1, <1>5 DEF DocsInv, Unset
    <2>2. fl' = [fl EXCEPT ![f] = h]
      BY <1>2, <1>4
    <2>. QED BY <1>1, <1>5, <2>1, <2>2, WorkerGoesOn
  <1>7. /\ lockFile' \in [Entries -> Files]
        /\ \A e \in Entries : lockFile'[e] = lockFile[e] \/ holder[lockFile[e]] = Unset
    <2>1. lockFile \in [Entries -> Files]
      BY DEF DocsInv, DocsTypeOK
    <2>2. CASE UNCHANGED lockFile
      BY <2>1, <2>2
    <2>3. ASSUME NEW e \in Entries, NEW x \in Files, holder[lockFile[e]] = Unset,
                 lockFile' = [lockFile EXCEPT ![e] = x]
          PROVE  /\ lockFile' \in [Entries -> Files]
                 /\ \A g \in Entries : lockFile'[g] = lockFile[g] \/ holder[lockFile[g]] = Unset
      BY <2>1, <2>3
    <2>. QED BY <2>2, <2>3 DEF CleanupGenerationLocks
  <1>8. LocksAreHeld'
    <2>1. SUFFICES ASSUME NEW g \in Requests, Up(g)', Inside(g)'
                   PROVE  /\ holder'[fl'[g].file] = g
                          /\ want'[g] \in disturbed' \/ fl'[g].file = lockFile'[want'[g]]
      BY DEF LocksAreHeld
    <2>2. Up(g) /\ Inside(g) /\ fl'[g].file = fl[g].file
      BY <1>1, <1>5, <1>6, <2>1 DEF Up, Inside
    <2>3. /\ holder[fl[g].file] = g /\ Unset \notin Requests /\ want[g] \in Entries
          /\ want[g] \in disturbed \/ fl[g].file = lockFile[want[g]]
      BY <2>2, RequestFields DEF DocsInv, DiskInv, LocksAreHeld
    <2>. QED BY <1>1, <1>7, <2>2, <2>3
  <1>9. PagesAreThere'
    BY <1>1, <1>5, <1>6, PagesStay DEF DocsInv
  <1>10. CompleteIsWhole'
    <2>1. \A g \in Requests : fl'[g].prune = fl[g].prune /\ Up(g)' = Up(g)
      BY <1>1, <1>3, <1>5, <1>6 DEF Up
    <2>2. \A e : Removing(e)' = Removing(e)
      BY <2>1 DEF Removing
    <2>. QED BY <1>1, <2>2 DEF DocsInv, DiskInv, CompleteIsWhole
  <1>. QED BY <1>1, <1>6, <1>7, <1>8, <1>9, <1>10 DEF DocsInv, DiskInv, DocsTypeOK

\* Retention picks an entry: from now on it counts as being removed.
LEMMA PruneKeepsDocs == ASSUME DocsInv, NEW f \in Requests, Prune(f) PROVE DocsInv'
  <1>1. /\ want[f] \in Entries /\ Up(f) /\ fl[f].pc = "prune" /\ fl[f] \in Flight /\ fl[f].prune = Unset
        /\ UNCHANGED <<disk, lockFile, holder, table, rq, want, lost, disturbed>>
        /\ fl[f].pc \in Generating \ {"remove"} /\ "check" \in Generating \ {"remove"}
    BY RequestFields DEF DocsInv, DiskInv, PagesAreThere, Prune, Runs, Generating
  <1>2. CASE fl' = [fl EXCEPT ![f].pc = "check"]
    <2>1. /\ fl' \in [Requests -> Flight] /\ fl'[f].pc = "check" /\ fl'[f].prune = Unset
          /\ \A g \in Requests \ {f} : fl'[g] = fl[g]
          /\ FlightInv' /\ LocksAreHeld' /\ \A e : Removing(e)' = Removing(e)
      <3>1. DocsTypeOK /\ FlightInv /\ DiskInv
        BY DEF DocsInv
      <3>2. PICK stage \in Generating \ {"remove"} : stage = "check"
        BY <1>1
      <3>3. /\ fl' = [fl EXCEPT ![f].pc = stage] /\ fl[f].pc \in Generating \ {"remove"}
            /\ UNCHANGED <<rq, table, holder, lockFile, want, lost>> /\ disturbed \subseteq disturbed'
        BY <1>1, <1>2, <3>2
      <3>. QED BY <3>1, <3>2, <3>3, StageGoesOn
    <2>2. PagesAreThere'
      BY <1>1, <2>1, PagesStay DEF DocsInv
    <2>3. CompleteIsWhole'
      BY <1>1, <2>1 DEF DocsInv, DiskInv, CompleteIsWhole
    <2>. QED BY <1>1, <2>1, <2>2, <2>3 DEF DocsInv, DiskInv, DocsTypeOK
  <1>3. ASSUME NEW e \in Prunable(f), fl' = [fl EXCEPT ![f].pc = "remove", ![f].prune = e]
        PROVE  DocsInv'
    <2>1. e \in Entries /\ e # Unset
      BY DocsAssumption DEF Prunable, Unset
    <2>2. PICK h : h = [fl[f] EXCEPT !.pc = "remove", !.prune = e]
      OBVIOUS
    <2>3. /\ h \in Flight /\ h.pc = "remove" /\ h.prune = e /\ h.file = fl[f].file
          /\ h.end = fl[f].end /\ h.subs = fl[f].subs /\ h.cancelled = fl[f].cancelled
          /\ h.result = fl[f].result
      BY <1>1, <2>1, <2>2 DEF Flight, FlightStages, Generating
    <2>4. fl' = [fl EXCEPT ![f] = h]
      BY <1>1, <1>3, <2>2 DEF DocsInv, DocsTypeOK, Flight
    <2>5. /\ fl' \in [Requests -> Flight] /\ fl'[f] = h /\ FlightInv'
          /\ \A g \in Requests \ {f} : fl'[g] = fl[g]
      BY <1>1, <2>3, <2>4, WorkerGoesOn DEF DocsInv, Unset
    <2>6. LocksAreHeld'
      BY <1>1, <2>3, <2>5, LocksStay DEF DocsInv
    <2>7. PagesAreThere'
      BY <1>1, <2>1, <2>3, <2>5, PagesStay DEF DocsInv
    <2>8. CompleteIsWhole'
      <3>1. \A x \in Entries : Removing(x) \subseteq Removing(x)'
        <4>1. \A g \in Requests : Up(g)' = Up(g) /\ (g # f => fl'[g].prune = fl[g].prune)
          BY <1>1, <2>5 DEF Up
        <4>2. \A x \in Entries : fl[f].prune # x
          BY <1>1, DocsAssumption DEF Unset
        <4>. QED BY <4>1, <4>2 DEF Removing
      <3>. QED BY <1>1, <3>1 DEF DocsInv, DiskInv, CompleteIsWhole
    <2>. QED BY <1>1, <2>5, <2>6, <2>7, <2>8 DEF DocsInv, DiskInv, DocsTypeOK
  <1>. QED BY <1>2, <1>3 DEF Prune

\* Clearing an entry: nobody else publishes into it.
LEMMA PrepareGenerationKeepsDocs == ASSUME DocsInv, NEW f \in Requests, PrepareGeneration(f) PROVE DocsInv'
  <1>1. /\ want[f] \in Entries /\ Up(f) /\ Inside(f) /\ fl[f] \in Flight
        /\ UNCHANGED <<lockFile, table, rq, want, lost>> /\ disturbed \subseteq disturbed'
        /\ fl[f].pc \in Generating \ {"remove"} /\ "generate" \in Generating \ {"remove"}
    BY RequestFields DEF DocsInv, PrepareGeneration, Runs, Generating, Inside
  <1>2. CASE \E end \in {"ok", "cache"} : Ends(f, end) /\ UNCHANGED disk
    BY <1>1, <1>2, EndKeepsDisk DEF DocsInv, Ended
  <1>3. CASE disk' = Clear(want[f]) /\ fl' = [fl EXCEPT ![f].pc = "generate"] /\ UNCHANGED holder
    <2>1. /\ fl' \in [Requests -> Flight] /\ fl'[f].pc = "generate" /\ fl'[f].prune = Unset
          /\ \A g \in Requests \ {f} : fl'[g] = fl[g]
          /\ FlightInv' /\ LocksAreHeld' /\ \A e : Removing(e)' = Removing(e)
      <3>1. DocsTypeOK /\ FlightInv /\ DiskInv
        BY DEF DocsInv
      <3>2. PICK stage \in Generating \ {"remove"} : stage = "generate"
        BY <1>1
      <3>3. /\ fl' = [fl EXCEPT ![f].pc = stage] /\ fl[f].pc \in Generating \ {"remove"}
            /\ UNCHANGED <<rq, table, holder, lockFile, want, lost>> /\ disturbed \subseteq disturbed'
        BY <1>1, <1>3, <3>2
      <3>. QED BY <3>1, <3>2, <3>3, StageGoesOn
    <2>2. /\ disk' \in [Entries -> [pages : SUBSET Pages, marker : BOOLEAN]]
          /\ disk'[want[f]].marker = FALSE
          /\ \A e \in Entries \ {want[f]} : disk'[e] = disk[e]
      BY <1>1, <1>3 DEF Clear, Empty, DocsInv, DocsTypeOK
    <2>3. \A g \in Requests \ {f} : Up(g) /\ fl[g].pc = "publish" =>
            want[g] \in Entries /\ (want[g] \in disturbed' \/ want[g] # want[f])
      BY <1>1, OneGeneratorPerEntry, RequestFields DEF DocsInv, DiskInv, Inside
    <2>4. PagesAreThere'
      BY <1>1, <2>1, <2>2, <2>3, PagesStay DEF DocsInv
    <2>5. CompleteIsWhole'
      BY <1>1, <2>1, <2>2 DEF DocsInv, DiskInv, CompleteIsWhole
    <2>. QED BY <1>1, <1>3, <2>1, <2>2, <2>4, <2>5 DEF DocsInv, DiskInv, DocsTypeOK
  <1>. QED BY <1>2, <1>3 DEF PrepareGeneration

\* cargo doc, in a directory of its own.
LEMMA GenerateKeepsDocs == ASSUME DocsInv, NEW f \in Requests, Generate(f) PROVE DocsInv'
  <1>1. /\ UNCHANGED <<disk, lockFile, table, rq, want, lost, disturbed>>
        /\ fl[f].pc \in Generating \ {"remove"} /\ "validate" \in Generating \ {"remove"}
    BY DEF Generate, Runs, Generating
  <1>2. CASE \E end \in {"failed", "cleanup"} : Ends(f, end)
    BY <1>1, <1>2, EndKeepsDisk DEF DocsInv, Ended
  <1>3. CASE fl[f].cancelled /\ Ends(f, "cancelled")
    BY <1>1, <1>3, EndKeepsDisk DEF DocsInv, Ended
  <1>4. CASE fl' = [fl EXCEPT ![f].pc = "validate"] /\ UNCHANGED holder
    <2>1. /\ fl' \in [Requests -> Flight] /\ fl'[f].pc = "validate" /\ fl'[f].prune = Unset
          /\ \A g \in Requests \ {f} : fl'[g] = fl[g]
          /\ FlightInv' /\ LocksAreHeld' /\ \A e : Removing(e)' = Removing(e)
      <3>1. DocsTypeOK /\ FlightInv /\ DiskInv
        BY DEF DocsInv
      <3>2. PICK stage \in Generating \ {"remove"} : stage = "validate"
        BY <1>1
      <3>3. /\ fl' = [fl EXCEPT ![f].pc = stage] /\ fl[f].pc \in Generating \ {"remove"}
            /\ UNCHANGED <<rq, table, holder, lockFile, want, lost>> /\ disturbed \subseteq disturbed'
        BY <1>1, <1>4, <3>2
      <3>. QED BY <3>1, <3>2, <3>3, StageGoesOn
    <2>2. PagesAreThere'
      BY <1>1, <2>1, PagesStay DEF DocsInv
    <2>3. CompleteIsWhole'
      BY <1>1, <2>1 DEF DocsInv, DiskInv, CompleteIsWhole
    <2>. QED BY <1>1, <1>4, <2>1, <2>2, <2>3 DEF DocsInv, DiskInv, DocsTypeOK
  <1>. QED BY <1>2, <1>3, <1>4 DEF Generate

\* The second clearing: nobody else publishes into the entry.
LEMMA ValidateKeepsDocs == ASSUME DocsInv, NEW f \in Requests, Validate(f) PROVE DocsInv'
  <1>1. /\ want[f] \in Entries /\ Up(f) /\ Inside(f) /\ fl[f] \in Flight
        /\ UNCHANGED <<lockFile, table, rq, want, lost, disturbed>>
        /\ fl[f].pc \in Generating \ {"remove"} /\ "publish" \in Generating \ {"remove"}
    BY RequestFields DEF DocsInv, Validate, Runs, Generating, Inside
  <1>2. CASE Ends(f, "cache") /\ UNCHANGED disk
    BY <1>1, <1>2, EndKeepsDisk DEF DocsInv, Ended
  <1>3. CASE fl[f].cancelled /\ Ends(f, "cancelled") /\ UNCHANGED disk
    BY <1>1, <1>3, EndKeepsDisk DEF DocsInv, Ended
  <1>4. CASE /\ fl' = [fl EXCEPT ![f].pc = "publish", ![f].todo = Collected]
             /\ disk' = IF disk[want[f]].marker THEN disk ELSE Clear(want[f])
             /\ UNCHANGED holder
    <2>1. fl' = [fl EXCEPT ![f] = [fl[f] EXCEPT !.pc = "publish", !.todo = Pages]]
      BY <1>1, <1>4 DEF Collected, DocsInv, DocsTypeOK, Flight
    <2>2. /\ fl' \in [Requests -> Flight] /\ fl'[f].pc = "publish" /\ fl'[f].todo = Pages
          /\ fl'[f].prune = Unset /\ \A g \in Requests \ {f} : fl'[g] = fl[g]
          /\ FlightInv' /\ LocksAreHeld' /\ \A e : Removing(e)' = Removing(e)
      <3>1. PICK t \in SUBSET Pages : t = Pages
        OBVIOUS
      <3>2. fl' = [fl EXCEPT ![f] = [fl[f] EXCEPT !.pc = "publish", !.todo = t]]
        BY <2>1, <3>1
      <3>3. /\ fl' \in [Requests -> Flight] /\ fl'[f].pc = "publish" /\ fl'[f].todo = t
            /\ fl'[f].prune = Unset /\ \A g \in Requests \ {f} : fl'[g] = fl[g]
            /\ FlightInv' /\ LocksAreHeld' /\ \A e : Removing(e)' = Removing(e)
        <4>1. /\ DocsTypeOK /\ FlightInv /\ DiskInv /\ fl[f].pc \in Generating \ {"remove"}
              /\ UNCHANGED <<rq, table, holder, lockFile, want, lost>> /\ disturbed \subseteq disturbed'
          BY <1>1, <1>4 DEF DocsInv
        <4>2. PICK stage \in Generating \ {"remove"} : stage = "publish"
          BY <1>1
        <4>3. fl' = [fl EXCEPT ![f] = [fl[f] EXCEPT !.pc = stage, !.todo = t]]
          BY <3>2, <4>2
        <4>. QED BY <4>1, <4>2, <4>3, GeneratorGoesOn
      <3>. QED BY <3>1, <3>3
    <2>3. /\ disk' \in [Entries -> [pages : SUBSET Pages, marker : BOOLEAN]]
          /\ disk'[want[f]].marker => disk'[want[f]] = disk[want[f]]
          /\ \A e \in Entries \ {want[f]} : disk'[e] = disk[e]
      <3>1. CASE disk[want[f]].marker
        BY <1>1, <1>4, <3>1 DEF DocsInv, DocsTypeOK
      <3>2. CASE ~disk[want[f]].marker
        BY <1>1, <1>4, <3>2 DEF Clear, Empty, DocsInv, DocsTypeOK
      <3>. QED BY <3>1, <3>2
    <2>4. \A g \in Requests \ {f} : Up(g) /\ fl[g].pc = "publish" =>
            want[g] \in Entries /\ (want[g] \in disturbed' \/ want[g] # want[f])
      BY <1>1, OneGeneratorPerEntry, RequestFields DEF DocsInv, DiskInv, Inside
    <2>5. Pages \ fl'[f].todo \subseteq disk'[want[f]].pages
      BY <2>2
    <2>6. PagesAreThere'
      BY <1>1, <2>2, <2>3, <2>4, <2>5, PagesStay DEF DocsInv
    <2>7. CompleteIsWhole'
      BY <1>1, <2>2, <2>3 DEF DocsInv, DiskInv, CompleteIsWhole
    <2>. QED BY <1>1, <1>4, <2>2, <2>3, <2>6, <2>7 DEF DocsInv, DiskInv, DocsTypeOK
  <1>. QED BY <1>2, <1>3, <1>4 DEF Validate

\* One page more.
LEMMA PublishPageKeepsDocs == ASSUME DocsInv, NEW f \in Requests, PublishPage(f) PROVE DocsInv'
  <1>1. /\ want[f] \in Entries /\ Up(f) /\ Inside(f) /\ fl[f] \in Flight /\ fl[f].pc = "publish"
        /\ UNCHANGED <<lockFile, table, rq, want, lost, disturbed>>
        /\ fl[f].pc \in Generating \ {"remove"} /\ "publish" \in Generating \ {"remove"}
    BY RequestFields DEF DocsInv, PublishPage, Runs, Generating, Inside
  <1>2. CASE Ends(f, "cache") /\ UNCHANGED disk
    BY <1>1, <1>2, EndKeepsDisk DEF DocsInv, Ended
  <1>3. ASSUME NEW p \in fl[f].todo, UNCHANGED holder,
               disk' = [disk EXCEPT ![want[f]].pages = @ \union {p}],
               fl' = [fl EXCEPT ![f].todo = @ \ {p}]
        PROVE  DocsInv'
    <2>1. /\ fl[f].todo \in SUBSET Pages /\ fl[f].todo \ {p} \in SUBSET Pages /\ p \in Pages
          /\ fl' = [fl EXCEPT ![f] = [fl[f] EXCEPT !.pc = "publish", !.todo = fl[f].todo \ {p}]]
      BY <1>1, <1>3 DEF DocsInv, DocsTypeOK, Flight
    <2>2. /\ fl' \in [Requests -> Flight] /\ fl'[f].pc = "publish" /\ fl'[f].todo = fl[f].todo \ {p}
          /\ fl'[f].prune = Unset /\ \A g \in Requests \ {f} : fl'[g] = fl[g]
          /\ FlightInv' /\ LocksAreHeld' /\ \A e : Removing(e)' = Removing(e)
      <3>1. PICK t \in SUBSET Pages : t = fl[f].todo \ {p}
        BY <2>1
      <3>2. fl' = [fl EXCEPT ![f] = [fl[f] EXCEPT !.pc = "publish", !.todo = t]]
        BY <2>1, <3>1
      <3>3. /\ fl' \in [Requests -> Flight] /\ fl'[f].pc = "publish" /\ fl'[f].todo = t
            /\ fl'[f].prune = Unset /\ \A g \in Requests \ {f} : fl'[g] = fl[g]
            /\ FlightInv' /\ LocksAreHeld' /\ \A e : Removing(e)' = Removing(e)
        <4>1. /\ DocsTypeOK /\ FlightInv /\ DiskInv /\ fl[f].pc \in Generating \ {"remove"}
              /\ UNCHANGED <<rq, table, holder, lockFile, want, lost>> /\ disturbed \subseteq disturbed'
          BY <1>1, <1>3 DEF DocsInv
        <4>2. PICK stage \in Generating \ {"remove"} : stage = "publish"
          BY <1>1
        <4>3. fl' = [fl EXCEPT ![f] = [fl[f] EXCEPT !.pc = stage, !.todo = t]]
          BY <3>2, <4>2
        <4>. QED BY <4>1, <4>2, <4>3, GeneratorGoesOn
      <3>. QED BY <3>1, <3>3
    <2>3. /\ disk' \in [Entries -> [pages : SUBSET Pages, marker : BOOLEAN]]
          /\ disk'[want[f]].pages = disk[want[f]].pages \union {p}
          /\ disk'[want[f]].marker = disk[want[f]].marker
          /\ \A e \in Entries \ {want[f]} : disk'[e] = disk[e]
      <3>1. PICK d : d = [disk[want[f]] EXCEPT !.pages = disk[want[f]].pages \union {p}]
        OBVIOUS
      <3>2. disk[want[f]] \in [pages : SUBSET Pages, marker : BOOLEAN]
        BY <1>1 DEF DocsInv, DocsTypeOK
      <3>3. /\ d \in [pages : SUBSET Pages, marker : BOOLEAN]
            /\ d.pages = disk[want[f]].pages \union {p} /\ d.marker = disk[want[f]].marker
        BY <2>1, <3>1, <3>2
      <3>4. disk' = [disk EXCEPT ![want[f]] = d]
        BY <1>3, <3>1
      <3>. QED BY <1>1, <3>3, <3>4 DEF DocsInv, DocsTypeOK
    <2>4. want[f] \in disturbed \/ Pages \ fl'[f].todo \subseteq disk'[want[f]].pages
      BY <1>1, <2>2, <2>3 DEF DocsInv, DiskInv, PagesAreThere
    <2>5. \A g \in Requests \ {f} : Up(g) /\ fl[g].pc = "publish" =>
            disk[want[g]].pages \subseteq disk'[want[g]].pages
      BY <2>3, RequestFields DEF DocsInv
    <2>6. PagesAreThere'
      BY <1>1, <2>2, <2>4, <2>5, PagesStay DEF DocsInv
    <2>7. CompleteIsWhole'
      <3>1. SUFFICES ASSUME NEW e \in Entries, disk'[e].marker, e \notin disturbed', Removing(e)' = {}
                     PROVE  disk'[e].pages = Pages
        BY DEF CompleteIsWhole
      <3>2. disk[e].marker /\ e \notin disturbed /\ Removing(e) = {}
        BY <1>1, <2>2, <2>3, <3>1
      <3>3. disk[e].pages = Pages
        BY <3>2 DEF DocsInv, DiskInv, CompleteIsWhole
      <3>. QED BY <2>1, <2>3, <3>3
    <2>. QED BY <1>1, <1>3, <2>2, <2>3, <2>6, <2>7 DEF DocsInv, DiskInv, DocsTypeOK
  <1>. QED BY <1>2, <1>3 DEF PublishPage

\* The marker comes when nothing is left to publish: every page is there.
LEMMA PublishMarkerKeepsDocs == ASSUME DocsInv, NEW f \in Requests, PublishMarker(f) PROVE DocsInv'
  <1>1. /\ want[f] \in Entries /\ Up(f) /\ fl[f].pc = "publish" /\ fl[f].todo = {}
        /\ UNCHANGED <<lockFile, table, rq, want, lost, disturbed>>
        /\ fl[f].pc \in (Generating \ {"remove"}) \union {"lock"}
    BY RequestFields DEF DocsInv, PublishMarker, Runs, Generating
  <1>2. CASE Ends(f, "cache") /\ UNCHANGED disk
    BY <1>1, <1>2, EndKeepsDisk DEF DocsInv, Ended
  <1>3. CASE disk' = [disk EXCEPT ![want[f]].marker = TRUE] /\ Ends(f, "ok")
    <2>1. /\ fl' \in [Requests -> Flight] /\ holder' \in [Files -> Requests \union {Unset}]
          /\ \A g \in Requests \ {f} : fl'[g] = fl[g]
          /\ fl'[f].pc = "finish" /\ fl'[f].prune = Unset
          /\ \A e : Removing(e)' = Removing(e)
          /\ FlightInv' /\ LocksAreHeld'
      <3>1. DocsTypeOK /\ FlightInv /\ DiskInv
        BY DEF DocsInv
      <3>2. PICK end \in Ended : end = "ok"
        BY DEF Ended
      <3>3. Ends(f, end) /\ end # "cancelled" /\ disturbed \subseteq disturbed'
        BY <1>1, <1>3, <3>2
      <3>. QED BY <1>1, <3>1, <3>2, <3>3, EndedGeneration
    <2>2. /\ disk' \in [Entries -> [pages : SUBSET Pages, marker : BOOLEAN]]
          /\ \A e \in Entries : disk'[e].pages = disk[e].pages
          /\ \A e \in Entries \ {want[f]} : disk'[e] = disk[e]
      BY <1>1, <1>3 DEF DocsInv, DocsTypeOK
    <2>3. \A g \in Requests : want[g] \in Entries
      BY RequestFields DEF DocsInv
    <2>4. PagesAreThere'
      BY <1>1, <2>1, <2>2, <2>3, PagesStay DEF DocsInv
    <2>5. want[f] \in disturbed \/ disk[want[f]].pages = Pages
      BY <1>1 DEF DocsInv, DiskInv, PagesAreThere, DocsTypeOK
    <2>6. CompleteIsWhole'
      BY <1>1, <2>1, <2>2, <2>5 DEF DocsInv, DiskInv, CompleteIsWhole
    <2>. QED BY <1>1, <2>1, <2>2, <2>4, <2>6 DEF DocsInv, DiskInv, DocsTypeOK
  <1>. QED BY <1>2, <1>3 DEF PublishMarker

\* Retention takes an entry apart, or stops: it disturbs who works on it.
LEMMA RemoveKeepsDocs == ASSUME DocsInv, NEW f \in Requests, RemoveEntry(f) PROVE DocsInv'
  <1>1. PICK e : e = fl[f].prune
    OBVIOUS
  <1>2. /\ e \in Entries /\ Up(f) /\ fl[f] \in Flight /\ fl[f].pc = "remove"
        /\ UNCHANGED <<lockFile, holder, table, rq, want, lost>> /\ disturbed \subseteq disturbed'
        /\ f \in Removing(e)
    BY <1>1, RequestFields DEF DocsInv, DiskInv, PagesAreThere, RemoveEntry, Runs, Flight, Removing
  <1>3. CASE /\ UNCHANGED fl
             /\ \/ \E p \in disk[e].pages : disk' = [disk EXCEPT ![e].pages = @ \ {p}]
                \/ disk' = [disk EXCEPT ![e].marker = FALSE]
             /\ disturbed' = disturbed \union
                  ({e} \intersect {want[g] : g \in {g \in Requests : Up(g) /\ Inside(g)}})
    <2>1. /\ disk' \in [Entries -> [pages : SUBSET Pages, marker : BOOLEAN]]
          /\ \A x \in Entries \ {e} : disk'[x] = disk[x]
      <3>1. disk[e] \in [pages : SUBSET Pages, marker : BOOLEAN]
        BY <1>2 DEF DocsInv, DocsTypeOK
      <3>2. PICK d \in [pages : SUBSET Pages, marker : BOOLEAN] : disk' = [disk EXCEPT ![e] = d]
        <4>1. ASSUME NEW p, disk' = [disk EXCEPT ![e].pages = @ \ {p}]
              PROVE  \E d \in [pages : SUBSET Pages, marker : BOOLEAN] : disk' = [disk EXCEPT ![e] = d]
          <5>1. [disk[e] EXCEPT !.pages = disk[e].pages \ {p}] \in [pages : SUBSET Pages, marker : BOOLEAN]
            BY <3>1
          <5>. QED BY <4>1, <5>1
        <4>2. ASSUME disk' = [disk EXCEPT ![e].marker = FALSE]
              PROVE  \E d \in [pages : SUBSET Pages, marker : BOOLEAN] : disk' = [disk EXCEPT ![e] = d]
          <5>1. [disk[e] EXCEPT !.marker = FALSE] \in [pages : SUBSET Pages, marker : BOOLEAN]
            BY <3>1
          <5>. QED BY <4>2, <5>1
        <4>. QED BY <1>3, <4>1, <4>2
      <3>. QED BY <1>2, <3>2 DEF DocsInv, DocsTypeOK
    <2>2. DocsTypeOK' /\ FlightInv'
      <3>1. FlightInv'
        BY <1>2, <1>3 DEF DocsInv, FlightInv, StartsOnce, FlightsExist, SubscribersCount,
           CancelStaysOwn, HasStep, StepOf, PastLocal, Waiters
      <3>. QED BY <1>2, <1>3, <2>1, <3>1 DEF DocsInv, DocsTypeOK
    <2>3. LocksAreHeld'
      BY <1>2, <1>3 DEF DocsInv, DiskInv, LocksAreHeld, Up, Inside
    <2>4. PagesAreThere'
      <3>1. \A g \in Requests : Up(g) /\ fl[g].pc = "publish" =>
              want[g] \in Entries /\ (want[g] \in disturbed' \/ disk'[want[g]] = disk[want[g]])
        BY <1>3, <2>1, RequestFields DEF Inside, DocsInv
      <3>. QED BY <1>2, <1>3, <3>1 DEF DocsInv, DiskInv, PagesAreThere, Up
    <2>5. CompleteIsWhole'
      <3>1. \A x : Removing(x)' = Removing(x)
        BY <1>2, <1>3 DEF Removing, Up
      <3>. QED BY <1>2, <2>1, <3>1 DEF DocsInv, DiskInv, CompleteIsWhole
    <2>. QED BY <2>2, <2>3, <2>4, <2>5 DEF DocsInv, DiskInv
  <1>4. CASE /\ UNCHANGED disk /\ fl' = [fl EXCEPT ![f].pc = "check", ![f].prune = Unset]
             /\ disk[e] = Empty \/ e \in disturbed'
    <2>1. PICK h : h = [fl[f] EXCEPT !.pc = "check", !.prune = Unset]
      OBVIOUS
    <2>2. /\ h \in Flight /\ h.pc = "check" /\ h.prune = Unset /\ h.file = fl[f].file
          /\ h.end = fl[f].end /\ h.subs = fl[f].subs /\ h.cancelled = fl[f].cancelled
          /\ h.result = fl[f].result
      BY <1>2, <2>1 DEF Flight, FlightStages, Generating
    <2>3. fl' = [fl EXCEPT ![f] = h]
      BY <1>2, <1>4, <2>1 DEF DocsInv, DocsTypeOK, Flight
    <2>4. /\ fl' \in [Requests -> Flight] /\ fl'[f] = h /\ FlightInv'
          /\ \A g \in Requests \ {f} : fl'[g] = fl[g]
      BY <1>2, <2>2, <2>3, WorkerGoesOn DEF DocsInv, Unset
    <2>5. LocksAreHeld'
      BY <1>2, <1>4, <2>2, <2>4, LocksStay DEF DocsInv, Generating
    <2>6. PagesAreThere'
      BY <1>2, <1>4, <2>2, <2>4, PagesStay DEF DocsInv
    <2>7. CompleteIsWhole'
      <3>1. \A x \in Entries \ {e} : Removing(x)' = Removing(x)
        <4>1. \A g \in Requests : Up(g)' = Up(g) /\ (g # f => fl'[g].prune = fl[g].prune)
          BY <1>2, <2>4 DEF Up
        <4>2. \A x \in Entries \ {e} : fl[f].prune # x /\ fl'[f].prune # x
          BY <1>1, <2>2, <2>4, DocsAssumption DEF Unset
        <4>. QED BY <4>1, <4>2 DEF Removing
      <3>2. e \in disturbed' \/ disk[e].marker = FALSE
        BY <1>4 DEF Empty
      <3>. QED BY <1>2, <1>4, <3>1, <3>2 DEF DocsInv, DiskInv, CompleteIsWhole
    <2>. QED BY <1>2, <1>4, <2>4, <2>5, <2>6, <2>7 DEF DocsInv, DiskInv, DocsTypeOK
  <1>. QED
    <2>1. CASE /\ UNCHANGED fl
               /\ disturbed' = disturbed \union
                    ({e} \intersect {want[g] : g \in {g \in Requests : Up(g) /\ Inside(g)}})
               /\ \/ \E p \in disk[e].pages : disk' = [disk EXCEPT ![e].pages = @ \ {p}]
                  \/ disk' = [disk EXCEPT ![e].marker = FALSE]
      BY <1>3, <2>1
    <2>. QED BY <1>1, <1>4, <2>1 DEF RemoveEntry

\* The result, and the end of the entry in the table.
LEMMA FinishKeepsDocs ==
    ASSUME DocsInv, NEW f \in Requests, Finish(f) \/ Leave(f)
    PROVE  DocsInv'
  <1>1. /\ fl[f] \in Flight /\ fl[f].pc \in {"finish", "leave"} /\ fl[f].prune = Unset
        /\ want[f] \in Entries /\ ServerOf[f] \in Servers
        /\ UNCHANGED <<disk, lockFile, holder, rq, want, lost, disturbed>>
    BY RequestFields DEF DocsInv, DiskInv, PagesAreThere, Finish, Leave, Runs
  <1>2. PICK h \in Flight :
          /\ fl' = [fl EXCEPT ![f] = h] /\ h.pc \in {"leave", "gone"} /\ h.prune = Unset
          /\ h.subs = fl[f].subs /\ h.cancelled = fl[f].cancelled
          /\ h.result \in {fl[f].result, fl[f].end} /\ h.end \in {fl[f].end, Unset}
    <2>1. CASE Finish(f)
      <3>1. PICK h : h = [fl[f] EXCEPT !.pc = "leave", !.result = fl[f].end, !.end = Unset]
        OBVIOUS
      <3>2. /\ h \in Flight /\ h.pc = "leave" /\ h.prune = Unset /\ h.subs = fl[f].subs
            /\ h.cancelled = fl[f].cancelled /\ h.result = fl[f].end /\ h.end = Unset
        BY <1>1, <3>1 DEF Flight, FlightStages, Ended
      <3>3. fl' = [fl EXCEPT ![f] = h]
        BY <1>1, <2>1, <3>1 DEF Finish, DocsInv, DocsTypeOK, Flight
      <3>. QED BY <3>2, <3>3
    <2>2. CASE Leave(f)
      <3>1. PICK h : h = [fl[f] EXCEPT !.pc = "gone"]
        OBVIOUS
      <3>2. /\ h \in Flight /\ h.pc = "gone" /\ h.prune = Unset /\ h.subs = fl[f].subs
            /\ h.cancelled = fl[f].cancelled /\ h.result = fl[f].result /\ h.end = fl[f].end
        BY <1>1, <3>1 DEF Flight, FlightStages, Ended
      <3>3. fl' = [fl EXCEPT ![f] = h]
        BY <1>1, <2>2, <3>1 DEF Leave, DocsInv, DocsTypeOK, Flight
      <3>. QED BY <3>2, <3>3
    <2>. QED BY <2>1, <2>2
  <1>3. /\ fl' \in [Requests -> Flight] /\ fl'[f] = h
        /\ \A g \in Requests \ {f} : fl'[g] = fl[g]
    BY <1>2, FlightMoves DEF DocsInv
  <1>4. /\ table' \in [Servers -> [Entries -> Requests \union {Unset}]]
        /\ \A p \in Servers, e \in Entries : table'[p][e] \in {table[p][e], Unset}
    <2>1. CASE UNCHANGED table
      BY <2>1 DEF DocsInv, DocsTypeOK
    <2>2. CASE table' = [table EXCEPT ![ServerOf[f]][want[f]] = Unset]
      BY <1>1, <2>2 DEF DocsInv, DocsTypeOK
    <2>. QED BY <2>1, <2>2 DEF Finish, Leave
  <1>5. FlightInv'
    <2>1. h.end = "cancelled" \/ h.result = "cancelled" => fl[f].cancelled
      BY <1>2 DEF DocsInv, FlightInv, SubscribersCount, Unset
    <2>2. fl[f].pc \notin {Unset, "new"} /\ h.pc # Unset
      BY <1>1, <1>2 DEF Unset
    <2>. QED BY <1>1, <1>2, <1>3, <1>4, <2>1, <2>2, WorkerKeepsFlights DEF DocsInv
  <1>6. DiskInv'
    <2>1. fl[f].pc \notin Generating /\ fl'[f].pc \notin Generating /\ fl'[f].prune = Unset
      BY <1>1, <1>2, <1>3 DEF Generating
    <2>. QED BY <1>1, <1>3, <2>1, DiskStays DEF DocsInv
  <1>. QED BY <1>1, <1>3, <1>4, <1>5, <1>6 DEF DocsInv, DocsTypeOK

-----------------------------------------------------------------------------
\* The steps of a request, and of the environment.

\* A request answers, and keeps what it got from a generation.
LEMMA AnswerMoves ==
    ASSUME DocsTypeOK, NEW r \in Requests, NEW a \in Answers, Answer(r, a)
    PROVE  /\ rq' \in [Requests -> Asking] /\ \A s \in Requests \ {r} : rq'[s] = rq[s]
           /\ rq'[r].pc = "done" /\ rq'[r].live = rq[r].live /\ rq'[r].took = rq[r].took
  <1>1. rq[r] \in Asking
    BY DEF DocsTypeOK
  <1>2. PICK q : q = [NewRequest EXCEPT !.pc = "done", !.answer = a, !.live = rq[r].live, !.took = rq[r].took]
    OBVIOUS
  <1>3. /\ q = [pc |-> "done", step |-> 1, identity |-> FALSE, complete |-> FALSE, flight |-> Unset,
                live |-> rq[r].live, took |-> rq[r].took, answer |-> a]
    BY <1>2 DEF NewRequest
  <1>4. q \in Asking /\ q.pc = "done" /\ q.live = rq[r].live /\ q.took = rq[r].took
    BY <1>1, <1>3 DEF Asking, RequestStages
  <1>. QED BY <1>2, <1>4 DEF Answer, DocsTypeOK

\* The answers a request gives.
LEMMA AnswersAreAnswers ==
    /\ \A error \in BOOLEAN, cleanup \in BOOLEAN :
         [NoAnswer EXCEPT !.status = "unavailable", !.error = error, !.cleanup = cleanup] \in Answers
    /\ \A provider \in {"cache", "source", "network", "local"} :
         [NoAnswer EXCEPT !.status = "found", !.provider = provider] \in Answers
  BY DEF NoAnswer, Answers

\* A request that answers.
LEMMA Answered ==
    ASSUME DocsTypeOK, NEW r \in Requests,
           \/ \E error \in BOOLEAN, cleanup \in BOOLEAN : Unavailable(r, error, cleanup)
           \/ \E provider \in {"cache", "source", "network", "local"} : Found(r, provider)
    PROVE  /\ rq' \in [Requests -> Asking] /\ \A s \in Requests \ {r} : rq'[s] = rq[s]
           /\ rq'[r].pc = "done" /\ rq'[r].live = rq[r].live /\ rq'[r].took = rq[r].took
  <1>1. PICK a \in Answers : Answer(r, a)
    BY AnswersAreAnswers DEF Unavailable, Found
  <1>. QED BY <1>1, AnswerMoves

\* A request that goes on to its next provider.
LEMMA NextStepMoves ==
    ASSUME DocsTypeOK, NEW r \in Requests, NextStep(r)
    PROVE  /\ rq' \in [Requests -> Asking] /\ \A s \in Requests \ {r} : rq'[s] = rq[s]
           /\ rq'[r].pc = "step" /\ rq'[r].step = rq[r].step + 1
           /\ rq'[r].live = rq[r].live /\ rq'[r].took = rq[r].took
  <1>1. rq[r] \in Asking /\ rq[r].step + 1 \in Nat \ {0}
    BY DEF DocsTypeOK, Asking
  <1>. QED BY <1>1 DEF NextStep, DocsTypeOK, Asking, RequestStages

\* A request that stays at its provider.
LEMMA GotoMoves ==
    ASSUME DocsTypeOK, NEW r \in Requests, NEW pc \in RequestStages, Goto(r, pc)
    PROVE  /\ rq' \in [Requests -> Asking] /\ \A s \in Requests \ {r} : rq'[s] = rq[s]
           /\ rq'[r].pc = pc /\ rq'[r].step = rq[r].step
           /\ rq'[r].live = rq[r].live /\ rq'[r].took = rq[r].took
  <1>1. rq \in [Requests -> Asking] /\ rq[r] \in Asking
    BY DEF DocsTypeOK
  <1>2. PICK q : q = [rq[r] EXCEPT !.pc = pc]
    OBVIOUS
  <1>3. q \in Asking /\ q.pc = pc /\ q.step = rq[r].step /\ q.live = rq[r].live /\ q.took = rq[r].took
    BY <1>1, <1>2 DEF Asking
  <1>4. rq' = [rq EXCEPT ![r] = q]
    BY <1>1, <1>2 DEF Goto
  <1>. QED BY <1>1, <1>3, <1>4

\* Steps that leave the disk and the flights alone.
LEMMA RequestKeepsDocs ==
    ASSUME DocsInv, NEW r \in Requests,
           \/ Prepare(r) \/ ProviderStep(r) \/ ReadPage(r) \/ IsComplete(r) \/ Drain(r) \/ Result(r)
    PROVE  DocsInv'
  <1>1. /\ UNCHANGED <<disk, lockFile, holder, table, fl, want, lost, disturbed>>
        /\ DocsTypeOK /\ FlightInv /\ rq[r] \in Asking
        /\ rq[r].pc \in {"prepare", "step", "read", "complete", "drain", "result"}
    BY RequestFields DEF Prepare, ProviderStep, ReadPage, IsComplete, Drain, Result, Is, DocsInv
  <1>2. SUFFICES ASSUME TRUE
                 PROVE  /\ rq' \in [Requests -> Asking] /\ \A s \in Requests \ {r} : rq'[s] = rq[s]
                        /\ rq'[r].live = rq[r].live /\ rq'[r].took = rq[r].took
                        /\ \/ rq'[r].pc = "done"
                           \/ /\ rq[r].pc \notin {"drain", "result", "done"}
                              /\ rq'[r].pc \in {"step", "read", "complete"} /\ rq'[r].step >= rq[r].step
                           \/ /\ rq[r].pc = "result"
                              /\ rq'[r].pc = "step" /\ rq'[r].step = rq[r].step + 1
                           \/ /\ rq[r].pc = "step" /\ HasStep(r) /\ StepOf(r) = "local"
                              /\ rq'[r].pc = "join" /\ rq'[r].step = rq[r].step
                           \/ /\ rq[r].pc = "drain"
                              /\ rq'[r].pc = "result" /\ rq'[r].step = rq[r].step
    <2>1. rq[r].pc \notin {"subscribe", "wait", "release"} /\ UNCHANGED <<fl, table>>
      BY <1>1
    <2>2. FlightInv'
      BY <1>1, <1>2, <2>1, RequestKeepsFlights
    <2>3. DiskInv'
      BY <1>1, DiskStays DEF DocsInv
    <2>. QED BY <1>1, <1>2, <2>2, <2>3 DEF DocsInv, DocsTypeOK
  <1>3. rq[r].step \in Nat \ {0} /\ rq[r].step + 1 >= rq[r].step /\ rq[r].step >= rq[r].step
    BY <1>1 DEF Asking
  <1>4. CASE \/ \E error \in BOOLEAN, cleanup \in BOOLEAN : Unavailable(r, error, cleanup)
             \/ \E provider \in {"cache", "source", "network", "local"} : Found(r, provider)
    BY <1>1, <1>4, Answered
  <1>5. CASE NextStep(r) /\ rq[r].pc \in {"step", "result"}
    BY <1>1, <1>3, <1>5, NextStepMoves
  <1>6. CASE Prepare(r)
    <2>1. CASE \E id \in BOOLEAN : rq' = [rq EXCEPT ![r].pc = "step", ![r].identity = id]
      <3>1. PICK id \in BOOLEAN : rq' = [rq EXCEPT ![r].pc = "step", ![r].identity = id]
        BY <2>1
      <3>2. /\ rq' \in [Requests -> Asking] /\ \A s \in Requests \ {r} : rq'[s] = rq[s]
            /\ rq'[r].pc = "step" /\ rq'[r].step = rq[r].step
            /\ rq'[r].live = rq[r].live /\ rq'[r].took = rq[r].took
        BY <1>1, <3>1 DEF DocsTypeOK, Asking, RequestStages
      <3>3. rq[r].pc = "prepare"
        BY <1>6 DEF Prepare, Is
      <3>. QED BY <1>3, <3>2, <3>3
    <2>. QED BY <1>4, <1>6, <2>1 DEF Prepare
  <1>7. CASE ProviderStep(r)
    <2>1. rq[r].pc = "step"
      BY <1>7 DEF ProviderStep, Is
    <2>2. CASE \E pc \in {"read", "complete"} : Goto(r, pc)
      <3>1. PICK pc \in {"read", "complete"} : Goto(r, pc)
        BY <2>2
      <3>. QED BY <1>1, <1>3, <2>1, <3>1, GotoMoves DEF RequestStages
    <2>3. CASE HasStep(r) /\ StepOf(r) = "local" /\ Goto(r, "join")
      BY <1>1, <2>1, <2>3, GotoMoves DEF RequestStages
    <2>4. \/ \E error \in BOOLEAN, cleanup \in BOOLEAN : Unavailable(r, error, cleanup)
          \/ \E provider \in {"cache", "source", "network", "local"} : Found(r, provider)
          \/ NextStep(r)
          \/ \E pc \in {"read", "complete"} : Goto(r, pc)
          \/ HasStep(r) /\ StepOf(r) = "local" /\ Goto(r, "join")
      BY <1>7 DEF ProviderStep
    <2>. QED BY <1>4, <1>5, <2>1, <2>2, <2>3, <2>4
  <1>8. CASE ReadPage(r)
    <2>1. CASE Goto(r, "complete")
      <3>1. rq[r].pc = "read"
        BY <1>8 DEF ReadPage, Is
      <3>. QED BY <1>1, <1>3, <2>1, <3>1, GotoMoves DEF RequestStages
    <2>. QED BY <1>4, <1>8, <2>1 DEF ReadPage
  <1>9. CASE IsComplete(r)
    <2>1. /\ rq[r].pc = "complete" /\ disk[want[r]].marker \in BOOLEAN
          /\ rq[r].step + 1 \in Nat \ {0}
      BY <1>1, <1>3, <1>9, RequestFields DEF IsComplete, Is, DocsTypeOK
    <2>2. PICK c \in BOOLEAN : rq' = [rq EXCEPT ![r].pc = "step", ![r].step = @ + 1, ![r].complete = c]
      BY <1>9, <2>1 DEF IsComplete, CompleteIdentityMatches
    <2>3. /\ rq' \in [Requests -> Asking] /\ \A s \in Requests \ {r} : rq'[s] = rq[s]
          /\ rq'[r].pc = "step" /\ rq'[r].step = rq[r].step + 1
          /\ rq'[r].live = rq[r].live /\ rq'[r].took = rq[r].took
      BY <1>1, <2>1, <2>2 DEF DocsTypeOK, Asking, RequestStages
    <2>. QED BY <1>3, <2>1, <2>3
  <1>10. CASE Drain(r)
    <2>1. rq[r].pc = "drain" /\ Goto(r, "result")
      BY <1>10 DEF Drain, Is
    <2>. QED BY <1>1, <2>1, GotoMoves DEF RequestStages
  <1>11. CASE Result(r)
    <2>1. rq[r].pc = "result"
      BY <1>11 DEF Result, Is
    <2>2. \/ \E error \in BOOLEAN, cleanup \in BOOLEAN : Unavailable(r, error, cleanup)
          \/ \E provider \in {"cache", "source", "network", "local"} : Found(r, provider)
          \/ NextStep(r)
      BY <1>11 DEF Result
    <2>. QED BY <1>4, <1>5, <2>1, <2>2
  <1>. QED BY <1>6, <1>7, <1>8, <1>9, <1>10, <1>11

\* Steps that join, leave or follow a generation.
LEMMA SubscriberKeepsDocs ==
    ASSUME DocsInv, NEW r \in Requests, Join(r) \/ Subscribe(r) \/ Wait(r) \/ Release(r)
    PROVE  DocsInv'
  <1>1. /\ UNCHANGED <<disk, lockFile, holder, want, lost, disturbed>>
        /\ DocsTypeOK /\ FlightInv /\ DiskInv
    BY DEF Join, Subscribe, Wait, Release, DocsInv
  <1>2. CASE Join(r)
    <2>1. /\ FlightInv' /\ rq' \in [Requests -> Asking] /\ fl' \in [Requests -> Flight]
          /\ table' \in [Servers -> [Entries -> Requests \union {Unset}]]
          /\ fl[r].pc = Unset /\ \A g \in Requests \ {r} : fl'[g] = fl[g]
          /\ fl'[r] \in {fl[r], [NoFlight EXCEPT !.pc = "new"]}
      BY <1>1, <1>2, JoinKeepsFlights
    <2>2. \/ fl'[r] = fl[r]
          \/ fl[r].pc \notin Generating /\ fl'[r].pc \notin Generating /\ fl'[r].prune = Unset
      <3>1. CASE fl'[r] = fl[r]
        BY <3>1
      <3>2. CASE fl'[r] = [NoFlight EXCEPT !.pc = "new"]
        <4>1. fl'[r].pc = "new" /\ fl'[r].prune = Unset
          BY <3>2 DEF NoFlight
        <4>2. Unset \notin Generating /\ "new" \notin Generating
          BY DEF Generating, Unset
        <4>. QED BY <2>1, <4>1, <4>2
      <3>. QED BY <2>1, <3>1, <3>2
    <2>3. DiskInv'
      BY <1>1, <2>1, <2>2, DiskStays
    <2>. QED BY <1>1, <2>1, <2>3 DEF DocsInv, DocsTypeOK
  <1>3. CASE Subscribe(r)
    <2>1. /\ FlightInv' /\ rq' \in [Requests -> Asking] /\ fl' \in [Requests -> Flight]
          /\ \A g \in Requests : \/ fl'[g].pc = fl[g].pc
                                 \/ fl[g].pc = "new" /\ fl'[g].pc = "open"
          /\ \A g \in Requests : /\ fl'[g].file = fl[g].file /\ fl'[g].todo = fl[g].todo
                                 /\ fl'[g].prune = fl[g].prune
      BY <1>1, <1>3, SubscribeKeepsFlights
    <2>2. \A g \in Requests : fl[g].pc = "new" => fl[g].prune = Unset
      BY <1>1 DEF DiskInv, PagesAreThere
    <2>3. "new" \notin Generating /\ "open" \notin Generating
      BY DEF Generating
    <2>4. DiskInv'
      BY <1>1, <2>1, <2>2, <2>3, DiskStays
    <2>. QED BY <1>1, <1>3, <2>1, <2>4 DEF DocsInv, DocsTypeOK, Subscribe
  <1>4. CASE Wait(r)
    <2>1. FlightInv' /\ rq' \in [Requests -> Asking] /\ UNCHANGED <<fl, table>>
      <3>1. UNCHANGED <<fl, table>>
        BY <1>4 DEF Wait
      <3>. QED BY <1>1, <1>4, <3>1, WaitKeepsFlights
    <2>2. DiskInv'
      BY <1>1, <2>1, DiskStays
    <2>. QED BY <1>1, <2>1, <2>2 DEF DocsInv, DocsTypeOK
  <1>5. CASE Release(r)
    <2>1. /\ FlightInv' /\ rq' \in [Requests -> Asking] /\ fl' \in [Requests -> Flight]
          /\ \A g \in Requests : /\ fl'[g].pc = fl[g].pc /\ fl'[g].file = fl[g].file
                                 /\ fl'[g].todo = fl[g].todo /\ fl'[g].prune = fl[g].prune
          /\ UNCHANGED table
      <3>1. UNCHANGED table
        BY <1>5 DEF Release
      <3>. QED BY <1>1, <1>5, <3>1, ReleaseKeepsFlights
    <2>2. DiskInv'
      BY <1>1, <2>1, DiskStays
    <2>. QED BY <1>1, <2>1, <2>2 DEF DocsInv, DocsTypeOK
  <1>. QED BY <1>2, <1>3, <1>4, <1>5

\* Steps of the environment that touch neither disk nor flights.
LEMMA LatenessKeepsDocs ==
    ASSUME DocsInv, UNCHANGED <<disk, lockFile, holder, table, fl, rq, want, lost, disturbed>>
    PROVE  DocsInv'
  <1>1. FlightInv'
    BY DEF DocsInv, FlightInv, StartsOnce, FlightsExist, SubscribersCount, CancelStaysOwn,
       HasStep, StepOf, PastLocal, Waiters
  <1>2. DiskInv'
    BY DiskStays DEF DocsInv
  <1>. QED BY <1>1, <1>2 DEF DocsInv, DocsTypeOK

\* A server dies: its locks are free, and what it was removing counts as disturbed.
LEMMA ServerDiesKeepsDocs == ASSUME DocsInv, NEW p \in Servers, ServerDies(p) PROVE DocsInv'
  <1>1. /\ lost' = lost \union {p} /\ UNCHANGED <<disk, lockFile, table, fl, rq, want>>
        /\ holder' = [x \in Files |-> IF holder[x] # Unset /\ ServerOf[holder[x]] = p
                                      THEN Unset ELSE holder[x]]
        /\ disturbed \subseteq disturbed'
        /\ \A f \in Requests : ServerOf[f] = p /\ fl[f].prune # Unset => fl[f].prune \in disturbed'
    BY DEF ServerDies
  <1>2. FlightInv'
    BY <1>1 DEF DocsInv, FlightInv, StartsOnce, FlightsExist, SubscribersCount, CancelStaysOwn,
       HasStep, StepOf, PastLocal, Waiters
  <1>3. \A f \in Requests : Up(f)' => Up(f) /\ ServerOf[f] # p
    BY <1>1 DEF Up
  <1>4. DocsTypeOK'
    BY <1>1 DEF DocsInv, DocsTypeOK
  <1>5. LocksAreHeld'
    <2>1. SUFFICES ASSUME NEW g \in Requests, Up(g)', Inside(g)'
                   PROVE  /\ holder'[fl'[g].file] = g
                          /\ want'[g] \in disturbed' \/ fl'[g].file = lockFile'[want'[g]]
      BY DEF LocksAreHeld
    <2>2. Up(g) /\ Inside(g) /\ ServerOf[g] # p /\ fl[g].file \in Files
      BY <1>1, <1>3, <2>1, RequestFields DEF Inside, DocsInv, Flight
    <2>3. /\ holder[fl[g].file] = g
          /\ want[g] \in disturbed \/ fl[g].file = lockFile[want[g]]
      BY <2>2 DEF DocsInv, DiskInv, LocksAreHeld
    <2>. QED BY <1>1, <2>2, <2>3
  <1>6. PagesAreThere'
    BY <1>1, <1>3 DEF DocsInv, DiskInv, PagesAreThere
  <1>7. CompleteIsWhole'
    <2>1. \A e \in Entries : e \notin disturbed' /\ Removing(e)' = {} => Removing(e) = {}
      <3>1. SUFFICES ASSUME NEW e \in Entries, e \notin disturbed', Removing(e)' = {},
                            NEW f \in Removing(e)
                     PROVE  FALSE
        OBVIOUS
      <3>2. f \in Requests /\ Up(f) /\ fl[f].prune = e /\ e # Unset
        BY DocsAssumption DEF Removing, Unset
      <3>3. ServerOf[f] # p
        BY <1>1, <3>1, <3>2
      <3>4. f \in Removing(e)'
        BY <1>1, <3>2, <3>3 DEF Removing, Up
      <3>. QED BY <3>1, <3>4
    <2>. QED BY <1>1, <2>1 DEF DocsInv, DiskInv, CompleteIsWhole
  <1>. QED BY <1>2, <1>4, <1>5, <1>6, <1>7 DEF DocsInv, DiskInv

\* There are enough lock files for the entries.
LEMMA LockFilesAreFiles == LockFiles \in [Entries -> Files]
  <1>1. PICK n \in Nat : ExistsBijection(1 .. n, Entries)
    BY FS_NatBijection, DocsAssumption
  <1>2. Cardinality(Entries) = n
    BY <1>1, FS_CountingElements
  <1>3. ExistsBijection(Entries, 1 .. n)
    BY <1>1, Fun_ExistsBijSymmetric
  <1>4. PICK f : f \in Bijection(Entries, 1 .. n)
    BY <1>3 DEF ExistsBijection
  <1>5. f \in [Entries -> 1 .. Cardinality(Entries)] /\ \A e, g \in Entries : f[e] = f[g] => e = g
    BY <1>2, <1>4 DEF Bijection, Injection, IsInjective
  <1>6. LockFiles \in [Entries -> 1 .. Cardinality(Entries)]
    BY <1>5 DEF LockFiles
  <1>7. 1 .. Cardinality(Entries) \subseteq Files
    BY <1>2, DocsAssumption DEF Files
  <1>. QED BY <1>6, <1>7

\* The invariant holds at the start.
LEMMA DocsBegin == ASSUME DocsInit PROVE DocsInv
  <1>1. PICK s \in Starts :
          /\ want = s.want
          /\ rq = [r \in Requests |-> IF r \in s.requests THEN NewRequest
                                                          ELSE [NewRequest EXCEPT !.pc = "done"]]
          /\ disk = [e \in Entries |-> IF e \in s.complete THEN [pages |-> Pages, marker |-> TRUE] ELSE Empty]
    BY DEF DocsInit
  <1>2. want \in [Requests -> Entries]
    BY <1>1, DocsAssumption
  <1>3. \A r \in Requests : 1 \in Files
    <2>1. SUFFICES ASSUME NEW r \in Requests PROVE 1 \in Files
      OBVIOUS
    <2>2. Cardinality(Entries) \in Nat /\ Cardinality(Entries) # 0
      BY <1>2, FS_CardinalityType, FS_EmptySet, DocsAssumption
    <2>. QED BY <2>2, DocsAssumption DEF Files
  <1>4. NewRequest \in Asking /\ [NewRequest EXCEPT !.pc = "done"] \in Asking
    <2>1. NoAnswer \in Answers /\ Unset \in Ended \union {"left"}
      BY DEF NoAnswer, Answers, Ended
    <2>2. NewRequest \in Asking
      BY <2>1 DEF NewRequest, Asking, RequestStages
    <2>. QED BY <2>2 DEF Asking, RequestStages
  <1>5. /\ rq \in [Requests -> Asking]
        /\ \A r \in Requests : rq[r].pc \in {"prepare", "done"} /\ rq[r].took = Unset
    BY <1>1, <1>4 DEF NewRequest
  <1>6. fl \in [Requests -> Flight] /\ \A f \in Requests : fl[f] = NoFlight
    BY <1>3 DEF DocsInit, NoFlight, Flight, FlightStages, Ended
  <1>7. DocsTypeOK
    <2>1. disk \in [Entries -> [pages : SUBSET Pages, marker : BOOLEAN]]
      BY <1>1 DEF Empty
    <2>2. lockFile \in [Entries -> Files] /\ holder \in [Files -> Requests \union {Unset}]
      BY LockFilesAreFiles DEF DocsInit
    <2>3. table \in [Servers -> [Entries -> Requests \union {Unset}]]
      BY DEF DocsInit
    <2>. QED BY <1>2, <1>5, <1>6, <2>1, <2>2, <2>3 DEF DocsTypeOK
  <1>8. \A f \in Requests : /\ fl[f].pc = Unset /\ fl[f].prune = Unset /\ fl[f].subs = 0
                            /\ fl[f].end = Unset /\ fl[f].result = Unset /\ ~Inside(f)
    BY <1>6 DEF NoFlight, Inside, Unset
  <1>9. DiskInv
    <2>1. LocksAreHeld /\ PagesAreThere
      BY <1>8 DEF LocksAreHeld, PagesAreThere, Unset
    <2>2. CompleteIsWhole
      BY <1>1 DEF CompleteIsWhole, Empty
    <2>. QED BY <2>1, <2>2 DEF DiskInv
  <1>10. FlightInv
    <2>1. StartsOnce
      BY <1>5, <1>8 DEF StartsOnce
    <2>2. FlightsExist
      BY <1>5 DEF FlightsExist, DocsInit
    <2>3. \A f \in Requests : Waiters(f) = {}
      BY <1>5 DEF Waiters
    <2>4. SubscribersCount
      BY <1>5, <1>8, <2>3, FS_EmptySet DEF SubscribersCount, Unset
    <2>5. CancelStaysOwn
      BY <1>5 DEF CancelStaysOwn, Unset
    <2>. QED BY <2>1, <2>2, <2>4, <2>5 DEF FlightInv
  <1>. QED BY <1>7, <1>9, <1>10 DEF DocsInv

\* The invariant is inductive.
LEMMA DocsInvariance == DocsSpec => []DocsInv
  <1>1. DocsInit => DocsInv
    BY DocsBegin
  <1>2. DocsInv /\ [DocsNext]_docsVars => DocsInv'
    <2>. SUFFICES ASSUME DocsInv, [DocsNext]_docsVars PROVE DocsInv'
      OBVIOUS
    <2>1. ASSUME NEW r \in Requests, Cancel(r) \/ Expire(r) PROVE DocsInv'
      BY <2>1, LatenessKeepsDocs DEF Cancel, Expire
    <2>2. ASSUME NEW f \in Requests,
                 \/ OpenLock(f) \/ AcquireGenerationLock(f) \/ CleanupGenerationLocks(f) \/ Prune(f)
                 \/ RemoveEntry(f) \/ PrepareGeneration(f) \/ Generate(f) \/ Validate(f)
                 \/ PublishPage(f) \/ PublishMarker(f) \/ Finish(f) \/ Leave(f)
          PROVE  DocsInv'
      BY <2>2, OpenKeepsDocs, AcquireKeepsDocs, CleanupKeepsDocs, PruneKeepsDocs, RemoveKeepsDocs,
         PrepareGenerationKeepsDocs, GenerateKeepsDocs, ValidateKeepsDocs, PublishPageKeepsDocs,
         PublishMarkerKeepsDocs, FinishKeepsDocs
    <2>3. CASE DocsNext
      BY <2>1, <2>2, <2>3, RequestKeepsDocs, SubscriberKeepsDocs, ServerDiesKeepsDocs DEF DocsNext
    <2>4. CASE UNCHANGED docsVars
      BY <2>4, LatenessKeepsDocs DEF docsVars
    <2>. QED BY <2>3, <2>4
  <1>. QED BY <1>1, <1>2, PTL DEF DocsSpec

\* An entry of the documentation cache that is marked complete holds every page, unless retention
\* or an unlinked lock file has disturbed it, and nobody's cancellation reaches another request:
\* docs/cache.rs, docs/resolver.rs, for any requests, processes, entries, pages and faults.
THEOREM GenerationsAreSound == DocsSpec => []GenerationIsSound
  <1>1. DocsInv => GenerationIsSound
    BY DEF DocsInv, DiskInv, FlightInv, GenerationIsSound
  <1>. QED BY <1>1, DocsInvariance, PTL
=============================================================================
