----------------------- MODULE ProcessSupervisorProofs -----------------------
(***************************************************************************)
(* The safety properties of ProcessSupervisor for any number of runs,      *)
(* servers and failing system calls.                                       *)
(***************************************************************************)
EXTENDS ProcessSupervisor, TLAPS

Working == Stages \ {"idle"}

\* The table holds the runs under way and the retained ones of living servers.
Table ==
    \A r \in Run :
        /\ pc[r] \in Working => r \in active
        /\ pc[r] = "retained" /\ Up(ServerOf[r]) => r \in active
        /\ pc[r] = "lost" => server[ServerOf[r]] = "dead"
        /\ r \in active => Up(ServerOf[r])
        /\ server[ServerOf[r]] \in {"off", "recovering"} => pc[r] = "idle"

\* A child exists from its spawn on, its entry from the record on.
Children ==
    \A r \in Run :
        /\ pc[r] \in {"idle", "reserved", "checked", "returned"} => leader[r] = "none"
        /\ leader[r] = "none" => kids[r] = "none"
        /\ pc[r] \in {"idle", "reserved", "checked", "spawned"} => r \notin recorded

\* A kill that succeeded has left nobody alive, and no other ends a run clean.
Killed ==
    \A r \in Run :
        /\ pc[r] \in {"loop", "reap", "remove"} /\ force[r] = "ok" => leader[r] # "up" /\ kids[r] # "up"
        /\ pc[r] = "remove" => force[r] = "ok"
        /\ pc[r] = "clean" => leader[r] # "up" /\ kids[r] # "up"
        /\ pc[r] = "dropped" => leader[r] # "up"
        /\ pc[r] \in {"idle", "reserved", "checked", "spawned"} => force[r] = "no"

\* A recovery past the owner check looks at an orphan; when it is about to
\* remove the entry the leader has been killed or is gone.
Orphans ==
    \A s \in Server :
        /\ stage[s] # "owner" => server[ServerOf[entry[s]]] = "dead"
        /\ stage[s] = "remove" => leader[entry[s]] \in {"doomed", "gone"}

\* After a report without remaining runs the table stays empty.
Emptied ==
    \A s \in Server : server[s] = "closed" /\ left[s] = {} => active \cap RunsOf(s) = {}

IInv == TypeOK /\ Table /\ Children /\ Killed /\ LeaderInJournal /\ Orphans /\ Emptied

USE DEF Stages, Ends, Working, Up, RunsOf, GroupEmpty, Fault, Goto, End, Finished, group, locals, run,
        closing, recovery, RunKeeps, LoopKeeps, Asked, ServerKeeps, Elsewhere, KillGroup

-----------------------------------------------------------------------------

\* Initially nothing runs and the journal is empty.
LEMMA InitIInv == Init => IInv
  BY RunsHaveServers, FaultBound
  DEF Init, IInv, TypeOK, Table, Children, Killed, LeaderInJournal, Orphans, Emptied

\* A leader that forks is alive, so its group has not been killed.
LEMMA ForkStep == ASSUME IInv, NEW r \in Run, Fork(r) PROVE IInv'
  <1>. USE RunsHaveServers, FaultBound, NoRunIsNone DEF IInv, Fork
  <1>1. TypeOK' BY DEF TypeOK
  <1>2. Table' BY DEF TypeOK, Table
  <1>3. Children' BY DEF TypeOK, Children
  <1>4. Killed' BY DEF TypeOK, Killed, Children
  <1>5. LeaderInJournal' BY DEF TypeOK, LeaderInJournal, Children, Killed, Orphans
  <1>6. Orphans' BY DEF TypeOK, Orphans, Children, Table
  <1>7. Emptied' BY DEF TypeOK, Emptied, Table
  <1>. QED BY <1>1, <1>2, <1>3, <1>4, <1>5, <1>6, <1>7

\* A leader that is gone stays gone.
LEMMA LeaderExitsStep == ASSUME IInv, NEW r \in Run, LeaderExits(r) PROVE IInv'
  <1>. USE RunsHaveServers, FaultBound, NoRunIsNone DEF IInv, LeaderExits
  <1>1. TypeOK' BY DEF TypeOK
  <1>2. Table' BY DEF TypeOK, Table
  <1>3. Children' BY DEF TypeOK, Children
  <1>4. Killed' BY DEF TypeOK, Killed, Children
  <1>5. LeaderInJournal' BY DEF TypeOK, LeaderInJournal, Children, Killed, Orphans
  <1>6. Orphans' BY DEF TypeOK, Orphans, Children, Table
  <1>7. Emptied' BY DEF TypeOK, Emptied, Table
  <1>. QED BY <1>1, <1>2, <1>3, <1>4, <1>5, <1>6, <1>7

\* Descendants that exit disturb nothing.
LEMMA KidsExitStep == ASSUME IInv, NEW r \in Run, KidsExit(r) PROVE IInv'
  <1>. USE RunsHaveServers, FaultBound, NoRunIsNone DEF IInv, KidsExit
  <1>1. TypeOK' BY DEF TypeOK
  <1>2. Table' BY DEF TypeOK, Table
  <1>3. Children' BY DEF TypeOK, Children
  <1>4. Killed' BY DEF TypeOK, Killed, Children
  <1>5. LeaderInJournal' BY DEF TypeOK, LeaderInJournal, Children, Killed, Orphans
  <1>6. Orphans' BY DEF TypeOK, Orphans, Children, Table
  <1>7. Emptied' BY DEF TypeOK, Emptied, Table
  <1>. QED BY <1>1, <1>2, <1>3, <1>4, <1>5, <1>6, <1>7

\* Only a server that is up puts a run into its table.
LEMMA ReserveStep == ASSUME IInv, NEW r \in Run, Reserve(r) PROVE IInv'
  <1>. USE RunsHaveServers, FaultBound, NoRunIsNone DEF IInv, Reserve
  <1>1. TypeOK' BY DEF TypeOK
  <1>2. Table' BY DEF TypeOK, Table
  <1>3. Children' BY DEF TypeOK, Children
  <1>4. Killed' BY DEF TypeOK, Killed, Children
  <1>5. LeaderInJournal' BY DEF TypeOK, LeaderInJournal, Children, Killed, Orphans
  <1>6. Orphans' BY DEF TypeOK, Orphans, Children, Table
  <1>7. Emptied' BY DEF TypeOK, Emptied, Table
  <1>. QED BY <1>1, <1>2, <1>3, <1>4, <1>5, <1>6, <1>7

\* A cancelled token only changes what the run will see.
LEMMA CallerCancelsStep == ASSUME IInv, NEW r \in Run, CallerCancels(r) PROVE IInv'
  <1>. USE RunsHaveServers, FaultBound, NoRunIsNone DEF IInv, CallerCancels
  <1>1. TypeOK' BY DEF TypeOK
  <1>2. Table' BY DEF TypeOK, Table
  <1>3. Children' BY DEF TypeOK, Children
  <1>4. Killed' BY DEF TypeOK, Killed, Children
  <1>5. LeaderInJournal' BY DEF TypeOK, LeaderInJournal, Children, Killed, Orphans
  <1>6. Orphans' BY DEF TypeOK, Orphans, Children, Table
  <1>7. Emptied' BY DEF TypeOK, Emptied, Table
  <1>. QED BY <1>1, <1>2, <1>3, <1>4, <1>5, <1>6, <1>7

\* A run that was told to stop leaves the table without a child.
LEMMA CheckStep == ASSUME IInv, NEW r \in Run, Check(r) PROVE IInv'
  <1>. USE RunsHaveServers, FaultBound, NoRunIsNone DEF IInv, Check
  <1>1. TypeOK'
    <2>1. CASE SeesStop(r)
      <3>1. pc' \in [Run -> Stages \cup Ends] BY <2>1 DEF TypeOK
      <3>2. force' \in [Run -> {"no", "ok", "failed"}] BY <2>1 DEF TypeOK
      <3>3. active' \subseteq Run BY <2>1 DEF TypeOK
      <3>4. stop' \in [Run -> BOOLEAN] BY <2>1 DEF TypeOK
      <3>5. token' \in [Run -> BOOLEAN] BY <2>1 DEF TypeOK
      <3>6. order' \in [Run -> BOOLEAN] BY <2>1 DEF TypeOK
      <3>. QED BY <3>1, <3>2, <3>3, <3>4, <3>5, <3>6 DEF TypeOK
    <2>2. CASE ~SeesStop(r) BY <2>2 DEF TypeOK
    <2>. QED BY <2>1, <2>2
  <1>2. Table' BY DEF TypeOK, Table
  <1>3. Children' BY DEF TypeOK, Children
  <1>4. Killed' BY DEF TypeOK, Killed, Children
  <1>5. LeaderInJournal' BY DEF TypeOK, LeaderInJournal, Children, Killed, Orphans
  <1>6. Orphans' BY DEF TypeOK, Orphans, Children, Table
  <1>7. Emptied' BY DEF TypeOK, Emptied, Table
  <1>. QED BY <1>1, <1>2, <1>3, <1>4, <1>5, <1>6, <1>7

\* The child of a run starts before there is an entry for it.
LEMMA SpawnStep == ASSUME IInv, NEW r \in Run, Spawn(r) PROVE IInv'
  <1>. USE RunsHaveServers, FaultBound, NoRunIsNone DEF IInv, Spawn
  <1>1. TypeOK' BY DEF TypeOK
  <1>2. Table' BY DEF TypeOK, Table
  <1>3. Children' BY DEF TypeOK, Children
  <1>4. Killed' BY DEF TypeOK, Killed, Children
  <1>5. LeaderInJournal' BY DEF TypeOK, LeaderInJournal, Children, Killed, Orphans
  <1>6. Orphans' BY DEF TypeOK, Orphans, Children, Table
  <1>7. Emptied' BY DEF TypeOK, Emptied, Table
  <1>. QED BY <1>1, <1>2, <1>3, <1>4, <1>5, <1>6, <1>7

\* A run without a child leaves the table.
LEMMA SpawnFailsStep == ASSUME IInv, NEW r \in Run, SpawnFails(r) PROVE IInv'
  <1>. USE RunsHaveServers, FaultBound, NoRunIsNone DEF IInv, SpawnFails
  <1>1. TypeOK' BY DEF TypeOK
  <1>2. Table' BY DEF TypeOK, Table
  <1>3. Children' BY DEF TypeOK, Children
  <1>4. Killed' BY DEF TypeOK, Killed, Children
  <1>5. LeaderInJournal' BY DEF TypeOK, LeaderInJournal, Children, Killed, Orphans
  <1>6. Orphans' BY DEF TypeOK, Orphans, Children, Table
  <1>7. Emptied' BY DEF TypeOK, Emptied, Table
  <1>. QED BY <1>1, <1>2, <1>3, <1>4, <1>5, <1>6, <1>7

\* From here on the leader is in the journal.
LEMMA RecordStep == ASSUME IInv, NEW r \in Run, Record(r) PROVE IInv'
  <1>. USE RunsHaveServers, FaultBound, NoRunIsNone DEF IInv, Record
  <1>1. TypeOK' BY DEF TypeOK
  <1>2. Table' BY DEF TypeOK, Table
  <1>3. Children' BY DEF TypeOK, Children
  <1>4. Killed' BY DEF TypeOK, Killed, Children
  <1>5. LeaderInJournal' BY DEF TypeOK, LeaderInJournal, Children, Killed, Orphans
  <1>6. Orphans' BY DEF TypeOK, Orphans, Children, Table
  <1>7. Emptied' BY DEF TypeOK, Emptied, Table
  <1>. QED BY <1>1, <1>2, <1>3, <1>4, <1>5, <1>6, <1>7

\* Without an entry the run goes on.
LEMMA RecordFailsStep == ASSUME IInv, NEW r \in Run, RecordFails(r) PROVE IInv'
  <1>. USE RunsHaveServers, FaultBound, NoRunIsNone DEF IInv, RecordFails
  <1>1. TypeOK' BY DEF TypeOK
  <1>2. Table' BY DEF TypeOK, Table
  <1>3. Children' BY DEF TypeOK, Children
  <1>4. Killed' BY DEF TypeOK, Killed, Children
  <1>5. LeaderInJournal' BY DEF TypeOK, LeaderInJournal, Children, Killed, Orphans
  <1>6. Orphans' BY DEF TypeOK, Orphans, Children, Table
  <1>7. Emptied' BY DEF TypeOK, Emptied, Table
  <1>. QED BY <1>1, <1>2, <1>3, <1>4, <1>5, <1>6, <1>7

\* SIGTERM kills nobody for certain; the kill in its place does.
LEMMA StopSeenStep == ASSUME IInv, NEW r \in Run, StopSeen(r) PROVE IInv'
  <1>. USE RunsHaveServers, FaultBound, NoRunIsNone DEF IInv, StopSeen, SeesStop, RequestStop, ForceKill
  <1>1. TypeOK' BY DEF TypeOK
  <1>2. Table' BY DEF TypeOK, Table
  <1>3. Children' BY DEF TypeOK, Children
  <1>4. Killed' BY DEF TypeOK, Killed, Children
  <1>5. LeaderInJournal' BY DEF TypeOK, LeaderInJournal, Children, Killed, Orphans
  <1>6. Orphans' BY DEF TypeOK, Orphans, Children, Table
  <1>7. Emptied' BY DEF TypeOK, Emptied, Table
  <1>. QED BY <1>1, <1>2, <1>3, <1>4, <1>5, <1>6, <1>7

\* The deadline acts like a stop.
LEMMA TimeOutStep == ASSUME IInv, NEW r \in Run, TimeOut(r) PROVE IInv'
  <1>. USE RunsHaveServers, FaultBound, NoRunIsNone DEF IInv, TimeOut, RequestStop, ForceKill
  <1>1. TypeOK' BY DEF TypeOK
  <1>2. Table' BY DEF TypeOK, Table
  <1>3. Children' BY DEF TypeOK, Children
  <1>4. Killed' BY DEF TypeOK, Killed, Children
  <1>5. LeaderInJournal' BY DEF TypeOK, LeaderInJournal, Children, Killed, Orphans
  <1>6. Orphans' BY DEF TypeOK, Orphans, Children, Table
  <1>7. Emptied' BY DEF TypeOK, Emptied, Table
  <1>. QED BY <1>1, <1>2, <1>3, <1>4, <1>5, <1>6, <1>7

\* The kill at the end of the grace.
LEMMA GraceEndsStep == ASSUME IInv, NEW r \in Run, GraceEnds(r) PROVE IInv'
  <1>. USE RunsHaveServers, FaultBound, NoRunIsNone DEF IInv, GraceEnds, TryForceKill, ForceKill
  <1>1. TypeOK'
    <2>1. CASE ForceKill(r, TRUE) /\ UNCHANGED faults BY <2>1 DEF TypeOK
    <2>2. CASE ForceKill(r, FALSE) /\ Fault BY <2>2 DEF TypeOK
    <2>. QED BY <2>1, <2>2
  <1>2. Table' BY DEF TypeOK, Table
  <1>3. Children' BY DEF TypeOK, Children
  <1>4. Killed' BY DEF TypeOK, Killed, Children
  <1>5. LeaderInJournal' BY DEF TypeOK, LeaderInJournal, Children, Killed, Orphans
  <1>6. Orphans' BY DEF TypeOK, Orphans, Children, Table
  <1>7. Emptied' BY DEF TypeOK, Emptied, Table
  <1>. QED BY <1>1, <1>2, <1>3, <1>4, <1>5, <1>6, <1>7

\* A run that gives up is retained.
LEMMA CleanupBoundStep == ASSUME IInv, NEW r \in Run, CleanupBound(r) PROVE IInv'
  <1>. USE RunsHaveServers, FaultBound, NoRunIsNone DEF IInv, CleanupBound
  <1>1. TypeOK' BY DEF TypeOK
  <1>2. Table' BY DEF TypeOK, Table
  <1>3. Children' BY DEF TypeOK, Children
  <1>4. Killed' BY DEF TypeOK, Killed, Children
  <1>5. LeaderInJournal' BY DEF TypeOK, LeaderInJournal, Children, Killed, Orphans
  <1>6. Orphans' BY DEF TypeOK, Orphans, Children, Table
  <1>7. Emptied' BY DEF TypeOK, Emptied, Table
  <1>. QED BY <1>1, <1>2, <1>3, <1>4, <1>5, <1>6, <1>7

\* A failed poll kills the group.
LEMMA PollFailsStep == ASSUME IInv, NEW r \in Run, PollFails(r) PROVE IInv'
  <1>. USE RunsHaveServers, FaultBound, NoRunIsNone DEF IInv, PollFails, ForceKill
  <1>1. TypeOK'
    <2>1. force' \in [Run -> {"no", "ok", "failed"}] BY DEF TypeOK
    <2>2. leader' \in [Run -> {"none", "up", "doomed", "gone"}] BY DEF TypeOK
    <2>3. kids' \in [Run -> {"none", "up", "doomed"}] BY DEF TypeOK
    <2>4. faults' \in 0 .. MaxFaults BY DEF TypeOK
    <2>. QED BY <2>1, <2>2, <2>3, <2>4 DEF TypeOK
  <1>2. Table' BY DEF TypeOK, Table
  <1>3. Children' BY DEF TypeOK, Children
  <1>4. Killed' BY DEF TypeOK, Killed, Children
  <1>5. LeaderInJournal' BY DEF TypeOK, LeaderInJournal, Children, Killed, Orphans
  <1>6. Orphans' BY DEF TypeOK, Orphans, Children, Table
  <1>7. Emptied' BY DEF TypeOK, Emptied, Table
  <1>. QED BY <1>1, <1>2, <1>3, <1>4, <1>5, <1>6, <1>7

\* A leader that exits takes its group with it.
LEMMA PollExitStep == ASSUME IInv, NEW r \in Run, PollExit(r) PROVE IInv'
  <1>. USE RunsHaveServers, FaultBound, NoRunIsNone DEF IInv, PollExit, TryForceKill, ForceKill
  <1>1. TypeOK'
    <2>1. CASE stop[r] BY <2>1 DEF TypeOK
    <2>2. CASE ~stop[r] /\ ForceKill(r, TRUE) /\ UNCHANGED faults BY <2>2 DEF TypeOK
    <2>3. CASE ~stop[r] /\ ForceKill(r, FALSE) /\ Fault BY <2>3 DEF TypeOK
    <2>. QED BY <2>1, <2>2, <2>3
  <1>2. Table' BY DEF TypeOK, Table
  <1>3. Children' BY DEF TypeOK, Children
  <1>4. Killed' BY DEF TypeOK, Killed, Children
  <1>5. LeaderInJournal' BY DEF TypeOK, LeaderInJournal, Children, Killed, Orphans
  <1>6. Orphans' BY DEF TypeOK, Orphans, Children, Table
  <1>7. Emptied' BY DEF TypeOK, Emptied, Table
  <1>. QED BY <1>1, <1>2, <1>3, <1>4, <1>5, <1>6, <1>7

\* Only a successful kill lets the entry be removed.
LEMMA ReapStep == ASSUME IInv, NEW r \in Run, Reap(r) PROVE IInv'
  <1>. USE RunsHaveServers, FaultBound, NoRunIsNone DEF IInv, Reap
  <1>1. TypeOK'
    <2>1. CASE Goto(r, "remove") /\ UNCHANGED locals BY <2>1 DEF TypeOK
    <2>2. CASE End(r, "retained") BY <2>2 DEF TypeOK
    <2>. QED BY <2>1, <2>2
  <1>2. Table' BY DEF TypeOK, Table
  <1>3. Children' BY DEF TypeOK, Children
  <1>4. Killed' BY DEF TypeOK, Killed, Children
  <1>5. LeaderInJournal' BY DEF TypeOK, LeaderInJournal, Children, Killed, Orphans
  <1>6. Orphans' BY DEF TypeOK, Orphans, Children, Table
  <1>7. Emptied' BY DEF TypeOK, Emptied, Table
  <1>. QED BY <1>1, <1>2, <1>3, <1>4, <1>5, <1>6, <1>7

\* The entry that is removed is that of a killed group.
LEMMA RemoveStep == ASSUME IInv, NEW r \in Run, Remove(r) PROVE IInv'
  <1>. USE RunsHaveServers, FaultBound, NoRunIsNone DEF IInv, Remove
  <1>1. TypeOK' BY DEF TypeOK
  <1>2. Table' BY DEF TypeOK, Table
  <1>3. Children' BY DEF TypeOK, Children
  <1>4. Killed' BY DEF TypeOK, Killed, Children
  <1>5. LeaderInJournal' BY DEF TypeOK, LeaderInJournal, Children, Killed, Orphans
  <1>6. Orphans' BY DEF TypeOK, Orphans, Children, Table
  <1>7. Emptied' BY DEF TypeOK, Emptied, Table
  <1>. QED BY <1>1, <1>2, <1>3, <1>4, <1>5, <1>6, <1>7

\* A dropped future kills its leader.
LEMMA DropStep == ASSUME IInv, NEW r \in Run, Drop(r) PROVE IInv'
  <1>. USE RunsHaveServers, FaultBound, NoRunIsNone DEF IInv, Drop
  <1>1. TypeOK' BY DEF TypeOK
  <1>2. Table' BY DEF TypeOK, Table
  <1>3. Children' BY DEF TypeOK, Children
  <1>4. Killed' BY DEF TypeOK, Killed, Children
  <1>5. LeaderInJournal' BY DEF TypeOK, LeaderInJournal, Children, Killed, Orphans
  <1>6. Orphans' BY DEF TypeOK, Orphans, Children, Table
  <1>7. Emptied' BY DEF TypeOK, Emptied, Table
  <1>. QED BY <1>1, <1>2, <1>3, <1>4, <1>5, <1>6, <1>7

\* A recovery starts with the entries of the moment.
LEMMA StartStep == ASSUME IInv, NEW s \in Server, Start(s) PROVE IInv'
  <1>. USE RunsHaveServers, FaultBound, NoRunIsNone DEF IInv, Start
  <1>1. TypeOK' BY DEF TypeOK
  <1>2. Table' BY DEF TypeOK, Table
  <1>3. Children' BY DEF TypeOK, Children
  <1>4. Killed' BY DEF TypeOK, Killed, Children
  <1>5. LeaderInJournal' BY DEF TypeOK, LeaderInJournal, Children, Killed, Orphans
  <1>6. Orphans' BY DEF TypeOK, Orphans, Children, Table
  <1>7. Emptied' BY DEF TypeOK, Emptied, Table
  <1>. QED BY <1>1, <1>2, <1>3, <1>4, <1>5, <1>6, <1>7

\* The next entry is picked up.
LEMMA ReadEntryStep == ASSUME IInv, NEW s \in Server, NEW r \in Run, ReadEntry(s, r) PROVE IInv'
  <1>. USE RunsHaveServers, FaultBound, NoRunIsNone DEF IInv, ReadEntry
  <1>1. TypeOK' BY DEF TypeOK
  <1>2. Table' BY DEF TypeOK, Table
  <1>3. Children' BY DEF TypeOK, Children
  <1>4. Killed' BY DEF TypeOK, Killed, Children
  <1>5. LeaderInJournal' BY DEF TypeOK, LeaderInJournal, Children, Killed, Orphans
  <1>6. Orphans' BY DEF TypeOK, Orphans, Children, Table
  <1>7. Emptied' BY DEF TypeOK, Emptied, Table
  <1>. QED BY <1>1, <1>2, <1>3, <1>4, <1>5, <1>6, <1>7

\* A recovery goes on with an entry of a dead server only.
LEMMA OwnerStateStep == ASSUME IInv, NEW s \in Server, OwnerState(s) PROVE IInv'
  <1>. USE RunsHaveServers, FaultBound, NoRunIsNone DEF IInv, OwnerState, Skip, Proceed
  <1>1. TypeOK'
    <2>1. CASE Proceed(s, "verify") BY <2>1 DEF TypeOK
    <2>2. CASE Skip(s) BY <2>2 DEF TypeOK
    <2>. QED BY <2>1, <2>2
  <1>2. Table' BY DEF TypeOK, Table
  <1>3. Children' BY DEF TypeOK, Children
  <1>4. Killed' BY DEF TypeOK, Killed, Children
  <1>5. LeaderInJournal' BY DEF TypeOK, LeaderInJournal, Children, Killed, Orphans
  <1>6. Orphans' BY DEF TypeOK, Orphans, Children, Table
  <1>7. Emptied' BY DEF TypeOK, Emptied, Table
  <1>. QED BY <1>1, <1>2, <1>3, <1>4, <1>5, <1>6, <1>7

\* A recovery removes the entry of a leader that is gone.
LEMMA VerifyChildStep == ASSUME IInv, NEW s \in Server, VerifyChild(s) PROVE IInv'
  <1>. USE RunsHaveServers, FaultBound, NoRunIsNone DEF IInv, VerifyChild, Skip, Proceed
  <1>1. TypeOK'
    <2>1. CASE Proceed(s, "kill") BY <2>1 DEF TypeOK
    <2>2. CASE Proceed(s, "remove") BY <2>2 DEF TypeOK
    <2>3. CASE Skip(s) BY <2>3 DEF TypeOK
    <2>. QED BY <2>1, <2>2, <2>3
  <1>2. Table' BY DEF TypeOK, Table
  <1>3. Children' BY DEF TypeOK, Children
  <1>4. Killed' BY DEF TypeOK, Killed, Children
  <1>5. LeaderInJournal' BY DEF TypeOK, LeaderInJournal, Children, Killed, Orphans
  <1>6. Orphans' BY DEF TypeOK, Orphans, Children, Table
  <1>7. Emptied' BY DEF TypeOK, Emptied, Table
  <1>. QED BY <1>1, <1>2, <1>3, <1>4, <1>5, <1>6, <1>7

\* A recovery that has killed a group removes its entry.
LEMMA KillOrphanStep == ASSUME IInv, NEW s \in Server, KillOrphan(s) PROVE IInv'
  <1>. USE RunsHaveServers, FaultBound, NoRunIsNone DEF IInv, KillOrphan, Skip, Proceed
  <1>1. TypeOK'
    <2>1. CASE KillGroup(entry[s]) /\ Proceed(s, "remove") BY <2>1 DEF TypeOK
    <2>2. CASE UNCHANGED group /\ Skip(s) BY <2>2 DEF TypeOK
    <2>. QED BY <2>1, <2>2
  <1>2. Table' BY DEF TypeOK, Table
  <1>3. Children' BY DEF TypeOK, Children
  <1>4. Killed' BY DEF TypeOK, Killed, Children
  <1>5. LeaderInJournal' BY DEF TypeOK, LeaderInJournal, Children, Killed, Orphans
  <1>6. Orphans'
    <2>1. CASE KillGroup(entry[s]) /\ Proceed(s, "remove") /\ ~GroupEmpty(entry[s])
      <3>1. entry[s] \in Run /\ leader[entry[s]] # "none"
        BY <2>1 DEF TypeOK, Children
      <3>2. leader'[entry[s]] \in {"doomed", "gone"}
        BY <2>1, <3>1 DEF TypeOK
      <3>3. ASSUME NEW q \in Run, leader[q] \in {"doomed", "gone"} PROVE leader'[q] \in {"doomed", "gone"}
        BY <2>1, <3>1, <3>3 DEF TypeOK
      <3>. QED BY <2>1, <3>1, <3>2, <3>3 DEF TypeOK, Orphans
    <2>2. CASE UNCHANGED group /\ Skip(s) BY <2>2 DEF TypeOK, Orphans
    <2>. QED BY <2>1, <2>2
  <1>7. Emptied' BY DEF TypeOK, Emptied, Table
  <1>. QED BY <1>1, <1>2, <1>3, <1>4, <1>5, <1>6, <1>7

\* The removed entry is of no running leader.
LEMMA RemoveEntryStep == ASSUME IInv, NEW s \in Server, RemoveEntry(s) PROVE IInv'
  <1>. USE RunsHaveServers, FaultBound, NoRunIsNone DEF IInv, RemoveEntry, Skip
  <1>1. TypeOK' BY DEF TypeOK
  <1>2. Table' BY DEF TypeOK, Table
  <1>3. Children' BY DEF TypeOK, Children
  <1>4. Killed' BY DEF TypeOK, Killed, Children
  <1>5. LeaderInJournal' BY DEF TypeOK, LeaderInJournal, Children, Killed, Orphans
  <1>6. Orphans' BY DEF TypeOK, Orphans, Children, Table
  <1>7. Emptied' BY DEF TypeOK, Emptied, Table
  <1>. QED BY <1>1, <1>2, <1>3, <1>4, <1>5, <1>6, <1>7

\* A server that starts to serve has no runs yet.
LEMMA ServeStep == ASSUME IInv, NEW s \in Server, Serve(s) PROVE IInv'
  <1>. USE RunsHaveServers, FaultBound, NoRunIsNone DEF IInv, Serve
  <1>1. TypeOK' BY DEF TypeOK
  <1>2. Table' BY DEF TypeOK, Table
  <1>3. Children' BY DEF TypeOK, Children
  <1>4. Killed' BY DEF TypeOK, Killed, Children
  <1>5. LeaderInJournal' BY DEF TypeOK, LeaderInJournal, Children, Killed, Orphans
  <1>6. Orphans' BY DEF TypeOK, Orphans, Children, Table
  <1>7. Emptied' BY DEF TypeOK, Emptied, Table
  <1>. QED BY <1>1, <1>2, <1>3, <1>4, <1>5, <1>6, <1>7

\* close takes no run from the table.
LEMMA CloseStep == ASSUME IInv, NEW s \in Server, Close(s) PROVE IInv'
  <1>. USE RunsHaveServers, FaultBound, NoRunIsNone DEF IInv, Close
  <1>1. TypeOK' BY DEF TypeOK
  <1>2. Table' BY DEF TypeOK, Table
  <1>3. Children' BY DEF TypeOK, Children
  <1>4. Killed' BY DEF TypeOK, Killed, Children
  <1>5. LeaderInJournal' BY DEF TypeOK, LeaderInJournal, Children, Killed, Orphans
  <1>6. Orphans' BY DEF TypeOK, Orphans, Children, Table
  <1>7. Emptied' BY DEF TypeOK, Emptied, Table
  <1>. QED BY <1>1, <1>2, <1>3, <1>4, <1>5, <1>6, <1>7

\* The report counts the table.
LEMMA CloseEndsStep == ASSUME IInv, NEW s \in Server, CloseEnds(s) PROVE IInv'
  <1>. USE RunsHaveServers, FaultBound, NoRunIsNone DEF IInv, CloseEnds, Report
  <1>1. TypeOK' BY DEF TypeOK
  <1>2. Table' BY DEF TypeOK, Table
  <1>3. Children' BY DEF TypeOK, Children
  <1>4. Killed' BY DEF TypeOK, Killed, Children
  <1>5. LeaderInJournal' BY DEF TypeOK, LeaderInJournal, Children, Killed, Orphans
  <1>6. Orphans' BY DEF TypeOK, Orphans, Children, Table
  <1>7. Emptied' BY DEF TypeOK, Emptied, Table
  <1>. QED BY <1>1, <1>2, <1>3, <1>4, <1>5, <1>6, <1>7

\* The report counts the table.
LEMMA CloseTimesOutStep == ASSUME IInv, NEW s \in Server, CloseTimesOut(s) PROVE IInv'
  <1>. USE RunsHaveServers, FaultBound, NoRunIsNone DEF IInv, CloseTimesOut, Report
  <1>1. TypeOK' BY DEF TypeOK
  <1>2. Table' BY DEF TypeOK, Table
  <1>3. Children' BY DEF TypeOK, Children
  <1>4. Killed' BY DEF TypeOK, Killed, Children
  <1>5. LeaderInJournal' BY DEF TypeOK, LeaderInJournal, Children, Killed, Orphans
  <1>6. Orphans' BY DEF TypeOK, Orphans, Children, Table
  <1>7. Emptied' BY DEF TypeOK, Emptied, Table
  <1>. QED BY <1>1, <1>2, <1>3, <1>4, <1>5, <1>6, <1>7

\* The leaders of a server that exits are killed.
LEMMA ExitStep == ASSUME IInv, NEW s \in Server, Exit(s) PROVE IInv'
  <1>. USE RunsHaveServers, FaultBound, NoRunIsNone DEF IInv, Exit, Gone, Skip
  <1>1. TypeOK' BY DEF TypeOK
  <1>2. Table' BY DEF TypeOK, Table
  <1>3. Children' BY DEF TypeOK, Children
  <1>4. Killed' BY DEF TypeOK, Killed, Children
  <1>5. LeaderInJournal' BY DEF TypeOK, LeaderInJournal, Children, Killed, Orphans
  <1>6. Orphans' BY DEF TypeOK, Orphans, Children, Table
  <1>7. Emptied'
    <2>. SUFFICES ASSUME NEW t \in Server, server'[t] = "closed", left'[t] = {}
                  PROVE  active' \cap RunsOf(t) = {}
      BY DEF Emptied
    <2>1. server[t] = "closed" /\ left[t] = {} /\ active' \subseteq active
      BY DEF TypeOK
    <2>. QED BY <2>1 DEF Emptied
  <1>. QED BY <1>1, <1>2, <1>3, <1>4, <1>5, <1>6, <1>7

\* What a crashed server recorded stays recorded.
LEMMA CrashStep == ASSUME IInv, NEW s \in Server, Crash(s) PROVE IInv'
  <1>. USE RunsHaveServers, FaultBound, NoRunIsNone DEF IInv, Crash, Gone, Skip
  <1>1. TypeOK' BY DEF TypeOK
  <1>2. Table' BY DEF TypeOK, Table
  <1>3. Children' BY DEF TypeOK, Children
  <1>4. Killed' BY DEF TypeOK, Killed, Children
  <1>5. LeaderInJournal' BY DEF TypeOK, LeaderInJournal, Children, Killed, Orphans
  <1>6. Orphans' BY DEF TypeOK, Orphans, Children, Table
  <1>7. Emptied'
    <2>. SUFFICES ASSUME NEW t \in Server, server'[t] = "closed", left'[t] = {}
                  PROVE  active' \cap RunsOf(t) = {}
      BY DEF Emptied
    <2>1. server[t] = "closed" /\ left[t] = {} /\ active' \subseteq active
      BY DEF TypeOK
    <2>. QED BY <2>1 DEF Emptied
  <1>. QED BY <1>1, <1>2, <1>3, <1>4, <1>5, <1>6, <1>7

-----------------------------------------------------------------------------

\* Every step keeps the invariant.
LEMMA NextIInv == IInv /\ [Next]_vars => IInv'
  <1>. SUFFICES ASSUME IInv, [Next]_vars PROVE IInv'
    OBVIOUS
  <1>1. CASE UNCHANGED vars
    BY <1>1 DEF vars, IInv, TypeOK, Table, Children, Killed, LeaderInJournal, Orphans, Emptied
  <1>2. ASSUME NEW r \in Run, RunStep(r) PROVE IInv'
    BY <1>2, CheckStep, SpawnStep, SpawnFailsStep, RecordStep, RecordFailsStep, StopSeenStep,
       GraceEndsStep, CleanupBoundStep, PollExitStep, ReapStep, RemoveStep
    DEF RunStep
  <1>3. ASSUME NEW r \in Run,
               \/ Reserve(r) \/ CallerCancels(r) \/ TimeOut(r) \/ PollFails(r) \/ Drop(r)
               \/ Fork(r) \/ LeaderExits(r) \/ KidsExit(r)
        PROVE  IInv'
    BY <1>3, ReserveStep, CallerCancelsStep, TimeOutStep, PollFailsStep, DropStep, ForkStep,
       LeaderExitsStep, KidsExitStep
  <1>4. ASSUME NEW s \in Server, ServerStep(s) PROVE IInv'
    BY <1>4, ReadEntryStep, OwnerStateStep, VerifyChildStep, KillOrphanStep, RemoveEntryStep, ServeStep
    DEF ServerStep
  <1>5. ASSUME NEW s \in Server,
               Start(s) \/ Close(s) \/ CloseEnds(s) \/ CloseTimesOut(s) \/ Exit(s) \/ Crash(s)
        PROVE  IInv'
    BY <1>5, StartStep, CloseStep, CloseEndsStep, CloseTimesOutStep, ExitStep, CrashStep
  <1>. QED BY <1>1, <1>2, <1>3, <1>4, <1>5 DEF Next

\* The inductive invariant holds of every state.
THEOREM Invariance == Spec => []IInv
  BY InitIInv, NextIInv, PTL DEF Spec

\* Every variable keeps its type, and a recovery past the owner check has an entry.
THEOREM TypesHold == Spec => []TypeOK
  <1>1. IInv => TypeOK BY DEF IInv
  <1>. QED BY <1>1, Invariance, PTL

\* The journal names every running leader whose entry was written: a crash, a
\* dropped future, a failed kill or another server's recovery never loses it.
THEOREM LeadersStayInJournal == Spec => []LeaderInJournal
  <1>1. IInv => LeaderInJournal BY DEF IInv
  <1>. QED BY <1>1, Invariance, PTL

\* cleanup_complete is only reported of a group that was killed.
THEOREM CleanRunsAreDead == Spec => []CleanMeansKilled
  <1>1. IInv => CleanMeansKilled BY DEF IInv, Killed, CleanMeansKilled
  <1>. QED BY <1>1, Invariance, PTL

\* A ShutdownReport with remaining = 0 is true from then on.
THEOREM ReportsAreTrue == Spec => []ReportIsTrue
  <1>1. ASSUME IInv PROVE ReportIsTrue
    <2>. SUFFICES ASSUME NEW s \in Server, server[s] = "closed", left[s] = {},
                         NEW r \in Run, ServerOf[r] = s
                  PROVE  leader[r] # "up" /\ (kids[r] = "up" => pc[r] = "dropped")
      BY DEF ReportIsTrue
    <2>1. r \notin active
      BY <1>1 DEF IInv, Emptied
    <2>2. pc[r] \in {"idle", "returned", "clean", "dropped"}
      BY <1>1, <2>1 DEF IInv, TypeOK, Table
    <2>. QED BY <1>1, <2>2 DEF IInv, Children, Killed
  <1>. QED BY <1>1, Invariance, PTL

\* While a server lives, nobody but the run itself kills its group.
THEOREM RecoveriesSpareTheLiving == Spec => OnlyOrphansKilled
  <1>1. IInv /\ [Next]_vars => [KillStep]_vars
    <2>. SUFFICES ASSUME IInv, Next, NEW q \in Run, GroupKilled(q)
                  PROVE  server[ServerOf[q]] = "dead" \/ pc'[q] # pc[q] \/ force'[q] # force[q]
      BY DEF KillStep
    <2>. USE DEF IInv, GroupKilled
    <2>1. ASSUME NEW r \in Run, RunStep(r) \/ TimeOut(r) \/ PollFails(r)
          PROVE  force'[q] # force[q]
      <3>1. ASSUME NEW p \in Run, ForceKill(p, TRUE) \/ ForceKill(p, FALSE) PROVE force'[q] # force[q]
        BY <3>1 DEF TypeOK, ForceKill
      <3>2. UNCHANGED group \/ ForceKill(r, TRUE) \/ ForceKill(r, FALSE) \/ Spawn(r)
        BY <2>1 DEF RunStep, TimeOut, PollFails, Check, SpawnFails, Record, RecordFails, StopSeen,
           RequestStop, GraceEnds, TryForceKill, CleanupBound, PollExit, Reap, Remove
      <3>3. ~Spawn(r)
        BY DEF TypeOK, Spawn
      <3>4. ~UNCHANGED group
        OBVIOUS
      <3>. QED BY <3>1, <3>2, <3>3, <3>4
    <2>2. ASSUME NEW r \in Run, Drop(r) PROVE pc'[q] # pc[q]
      BY <2>2 DEF Drop, TypeOK
    <2>3. ASSUME NEW r \in Run,
                 Reserve(r) \/ CallerCancels(r) \/ Fork(r) \/ LeaderExits(r) \/ KidsExit(r)
          PROVE  FALSE
      BY <2>3 DEF TypeOK, Reserve, CallerCancels, Fork, LeaderExits, KidsExit
    <2>4. ASSUME NEW s \in Server, ServerStep(s) PROVE server[ServerOf[q]] = "dead"
      <3>1. KillOrphan(s)
        BY <2>4 DEF ServerStep, ReadEntry, OwnerState, VerifyChild, RemoveEntry, Serve
      <3>2. q = entry[s] /\ stage[s] = "kill"
        BY <3>1 DEF TypeOK, KillOrphan
      <3>. QED BY <3>2 DEF Orphans
    <2>5. ASSUME NEW s \in Server, Start(s) \/ Close(s) \/ CloseEnds(s) \/ CloseTimesOut(s) \/ Crash(s)
          PROVE  FALSE
      BY <2>5 DEF TypeOK, Start, Close, CloseEnds, CloseTimesOut, Report, Crash, Gone
    <2>6. ASSUME NEW s \in Server, Exit(s) PROVE pc'[q] # pc[q]
      BY <2>6 DEF TypeOK, Exit, Gone
    <2>. QED BY <2>1, <2>2, <2>3, <2>4, <2>5, <2>6 DEF Next
  <1>. QED BY <1>1, Invariance, PTL DEF Spec, OnlyOrphansKilled

=============================================================================
