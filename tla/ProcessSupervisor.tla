-------------------------- MODULE ProcessSupervisor --------------------------
(***************************************************************************)
(* Child processes of the servers: ProcessSupervisor runs a command in a   *)
(* process group of its own, stops it at its deadline or on request, first *)
(* with SIGTERM and then by killing the group, and reaps it; the journal,  *)
(* a directory shared by all servers, lets a later server kill what a dead *)
(* one left behind.  (process/supervisor.rs, process/journal.rs)           *)
(*                                                                         *)
(* A process group is its leader and its descendants.  A killed member is  *)
(* doomed at once and dies later.  Descendants that leave the group, pid   *)
(* reuse between the check and the signal of a recovery, and the output of *)
(* the children are left out.  Deadlines are steps that may happen.        *)
(***************************************************************************)
EXTENDS Naturals, FiniteSets

CONSTANTS Run,        \* commands to run, one child process group each
          Server,     \* server processes; each starts once
          ServerOf,   \* the server a run belongs to
          MaxFaults,  \* bound on system calls that fail
          NoRun       \* no journal entry under inspection

ASSUME RunsHaveServers == ServerOf \in [Run -> Server]
ASSUME FaultBound == MaxFaults \in Nat
ASSUME NoRunIsNone == NoRun \notin Run

VARIABLES pc,        \* where run_spec_inner is
          leader,    \* the group leader: "none", "up", "doomed", "gone"
          kids,      \* its descendants: "none", "up", "doomed"
          stop,      \* stop_reason is set
          force,     \* force_kill: "no", "ok" or "failed"
          token,     \* the caller's cancellation token
          order,     \* StopCommand::Cancel was sent
          active,    \* SupervisorState.active of all servers
          recorded,  \* runs whose journal_recorded is set
          journal,   \* the runs with an entry on disk
          server,    \* "off", "recovering", "up", "closing", "closed", "dead"
          waiting,   \* the runs close waits for
          left,      \* what ShutdownReport.remaining counts
          todo,      \* entries a recovery has yet to look at
          entry,     \* the entry a recovery is looking at
          stage,     \* how far it has come: "owner", "verify", "kill", "remove"
          faults     \* system calls that have failed

group == <<leader, kids>>
locals == <<stop, force, token, order>>
run == <<pc, locals, active, recorded>>
closing == <<waiting, left>>
recovery == <<todo, entry, stage>>
vars == <<group, run, journal, server, closing, recovery, faults>>

Stages == {"idle", "reserved", "checked", "spawned", "loop", "reap", "remove"}
Ends == {"returned", "clean", "retained", "dropped", "lost"}

TypeOK ==
    /\ pc \in [Run -> Stages \cup Ends]
    /\ leader \in [Run -> {"none", "up", "doomed", "gone"}]
    /\ kids \in [Run -> {"none", "up", "doomed"}]
    /\ stop \in [Run -> BOOLEAN] /\ token \in [Run -> BOOLEAN] /\ order \in [Run -> BOOLEAN]
    /\ force \in [Run -> {"no", "ok", "failed"}]
    /\ active \subseteq Run /\ recorded \subseteq Run /\ journal \subseteq Run
    /\ server \in [Server -> {"off", "recovering", "up", "closing", "closed", "dead"}]
    /\ waiting \in [Server -> SUBSET Run] /\ left \in [Server -> SUBSET Run]
    /\ todo \in [Server -> SUBSET Run]
    /\ entry \in [Server -> Run \cup {NoRun}]
    /\ stage \in [Server -> {"owner", "verify", "kill", "remove"}]
    /\ \A s \in Server : stage[s] # "owner" => entry[s] # NoRun
    /\ faults \in 0 .. MaxFaults

Init ==
    /\ pc = [r \in Run |-> "idle"]
    /\ leader = [r \in Run |-> "none"] /\ kids = [r \in Run |-> "none"]
    /\ stop = [r \in Run |-> FALSE] /\ force = [r \in Run |-> "no"]
    /\ token = [r \in Run |-> FALSE] /\ order = [r \in Run |-> FALSE]
    /\ active = {} /\ recorded = {} /\ journal = {}
    /\ server = [s \in Server |-> "off"]
    /\ waiting = [s \in Server |-> {}] /\ left = [s \in Server |-> {}]
    /\ todo = [s \in Server |-> {}] /\ entry = [s \in Server |-> NoRun]
    /\ stage = [s \in Server |-> "owner"]
    /\ faults = 0

Up(s) == server[s] \in {"up", "closing", "closed"}
RunsOf(s) == {r \in Run : ServerOf[r] = s}
GroupEmpty(r) == leader[r] \in {"none", "gone"} /\ kids[r] = "none"

Fault == faults < MaxFaults /\ faults' = faults + 1
Goto(r, where) == pc' = [pc EXCEPT ![r] = where]
\* The future ends, and its locals with it.
End(r, how) ==
    /\ Goto(r, how)
    /\ stop' = [stop EXCEPT ![r] = FALSE] /\ force' = [force EXCEPT ![r] = "no"]
    /\ token' = [token EXCEPT ![r] = FALSE] /\ order' = [order EXCEPT ![r] = FALSE]

-----------------------------------------------------------------------------
(* The children themselves (external).                                     *)

Elsewhere == UNCHANGED <<run, journal, server, closing, recovery, faults>>

\* The leader starts a descendant.
Fork(r) ==
    /\ leader[r] = "up" /\ kids[r] = "none"
    /\ kids' = [kids EXCEPT ![r] = "up"]
    /\ UNCHANGED leader /\ Elsewhere

\* The leader exits: by itself, on SIGTERM, or because it was killed.
LeaderExits(r) ==
    /\ leader[r] \in {"up", "doomed"}
    /\ leader' = [leader EXCEPT ![r] = "gone"]
    /\ UNCHANGED kids /\ Elsewhere

KidsExit(r) ==
    /\ kids[r] \in {"up", "doomed"}
    /\ kids' = [kids EXCEPT ![r] = "none"]
    /\ UNCHANGED leader /\ Elsewhere

\* SIGKILL to the group of r.
KillGroup(r) ==
    /\ leader' = [leader EXCEPT ![r] = IF @ = "up" THEN "doomed" ELSE @]
    /\ kids' = [kids EXCEPT ![r] = IF @ = "up" THEN "doomed" ELSE @]

-----------------------------------------------------------------------------
(* run_spec_inner up to its loop: no await, but other threads interleave.  *)

RunKeeps == UNCHANGED <<server, closing, recovery>>

\* Mutant: a closing supervisor still takes runs.
Reserve_WhileClosing(r) ==
    /\ pc[r] = "idle" /\ Up(ServerOf[r])
    /\ Goto(r, "reserved") /\ active' = active \cup {r}
    /\ RunKeeps /\ UNCHANGED <<group, locals, recorded, journal, faults>>
\* SupervisorInner::reserve
Reserve(r) ==
    /\ pc[r] = "idle" /\ Up(ServerOf[r])
    /\ IF server[ServerOf[r]] = "up"
       THEN Goto(r, "reserved") /\ active' = active \cup {r}
       ELSE Goto(r, "returned") /\ UNCHANGED active
    /\ RunKeeps /\ UNCHANGED <<group, locals, recorded, journal, faults>>

\* The caller's token is cancelled.
CallerCancels(r) ==
    /\ pc[r] \in {"reserved", "checked", "spawned", "loop"} /\ ~token[r]
    /\ token' = [token EXCEPT ![r] = TRUE]
    /\ RunKeeps /\ UNCHANGED <<group, pc, stop, force, order, active, recorded, journal, faults>>

\* Mutant: the select of the loop has no branch for the stop channel.
SeesStop_TokenOnly(r) == token[r]
\* The token or the stop channel, as checked before the spawn and awaited in
\* the loop: a watch value that was sent before the loop still counts there.
SeesStop(r) == token[r] \/ order[r]

\* RunRegistration::finish, or its drop: the run leaves the table.
Finished(r) == active' = active \ {r}

\* The last look before the spawn.
Check(r) ==
    /\ pc[r] = "reserved"
    /\ IF SeesStop(r)
       THEN End(r, "returned") /\ Finished(r)
       ELSE Goto(r, "checked") /\ UNCHANGED <<locals, active>>
    /\ RunKeeps /\ UNCHANGED <<group, recorded, journal, faults>>

Spawn(r) ==
    /\ pc[r] = "checked"
    /\ leader' = [leader EXCEPT ![r] = "up"]
    /\ Goto(r, "spawned")
    /\ RunKeeps /\ UNCHANGED <<kids, locals, active, recorded, journal, faults>>

\* A specification that does not normalise, a deadline that has passed, or a
\* spawn that fails.
SpawnFails(r) ==
    /\ pc[r] = "checked"
    /\ End(r, "returned") /\ Finished(r)
    /\ RunKeeps /\ UNCHANGED <<group, recorded, journal, faults>>

\* ProcessJournal::record_with_alternate: a rename, so all or nothing.
Record(r) ==
    /\ pc[r] = "spawned"
    /\ Goto(r, "loop")
    /\ journal' = journal \cup {r} /\ recorded' = recorded \cup {r}
    /\ RunKeeps /\ UNCHANGED <<group, locals, active, faults>>

RecordFails(r) ==
    /\ pc[r] = "spawned" /\ Fault
    /\ Goto(r, "loop")
    /\ RunKeeps /\ UNCHANGED <<group, locals, active, recorded, journal>>

-----------------------------------------------------------------------------
(* The loop of run_spec_inner and what follows it.                         *)

LoopKeeps == RunKeeps /\ UNCHANGED <<active, recorded, journal>>
Asked == UNCHANGED <<token, order>>

\* force_kill, with success or not: once only; an empty group (ESRCH) counts
\* as killed.
ForceKill(r, ok) ==
    IF force[r] # "no" THEN UNCHANGED <<group, force>>
    ELSE IF ok THEN KillGroup(r) /\ force' = [force EXCEPT ![r] = "ok"]
    ELSE /\ ~GroupEmpty(r)
         /\ force' = [force EXCEPT ![r] = "failed"] /\ UNCHANGED group
TryForceKill(r) ==
    \/ ForceKill(r, TRUE) /\ UNCHANGED faults
    \/ ForceKill(r, FALSE) /\ Fault

\* request_stop, at the deadline or on a cancellation: SIGTERM, or at once
\* the kill when the signal cannot be sent.
RequestStop(r) ==
    /\ stop' = [stop EXCEPT ![r] = TRUE]
    /\ \/ UNCHANGED <<group, force, faults>>
       \/ GroupEmpty(r) /\ ForceKill(r, TRUE) /\ UNCHANGED faults
       \/ Fault /\ \E ok \in BOOLEAN : ForceKill(r, ok)

StopSeen(r) ==
    /\ pc[r] = "loop" /\ ~stop[r] /\ SeesStop(r)
    /\ RequestStop(r)
    /\ LoopKeeps /\ Asked /\ UNCHANGED pc

TimeOut(r) ==
    /\ pc[r] = "loop" /\ ~stop[r]
    /\ RequestStop(r)
    /\ LoopKeeps /\ Asked /\ UNCHANGED pc

\* force_at has come.
GraceEnds(r) ==
    /\ pc[r] = "loop" /\ stop[r] /\ force[r] = "no"
    /\ TryForceKill(r)
    /\ LoopKeeps /\ Asked /\ UNCHANGED <<pc, stop>>

\* cleanup_deadline has come, which is never before force_at.
CleanupBound(r) ==
    /\ pc[r] = "loop" /\ stop[r] /\ force[r] # "no"
    /\ End(r, "retained")
    /\ LoopKeeps /\ UNCHANGED <<group, faults>>

\* try_wait fails: the group is killed, the loop goes on.
PollFails(r) ==
    /\ pc[r] = "loop" /\ Fault
    /\ \E ok \in BOOLEAN : ForceKill(r, ok)
    /\ LoopKeeps /\ Asked /\ UNCHANGED <<pc, stop>>

\* try_wait reports the exit of the leader.  Nobody asked for it: the rest of
\* the group is killed now.  Somebody did: that is left to the end of the grace.
PollExit(r) ==
    /\ pc[r] = "loop" /\ leader[r] = "gone"
    /\ IF stop[r] THEN force[r] # "no" /\ UNCHANGED <<group, force, faults>>
                  ELSE TryForceKill(r)
    /\ Goto(r, "reap")
    /\ LoopKeeps /\ Asked /\ UNCHANGED stop

\* Mutant: cleanup_complete does not ask whether the kill succeeded.
Reap_AnyKill(r) ==
    /\ pc[r] = "reap"
    /\ (Goto(r, "remove") /\ UNCHANGED locals) \/ End(r, "retained")
    /\ LoopKeeps /\ UNCHANGED <<group, faults>>
\* Draining the output, joining the readers, waiting for the child: in time or
\* not.  Without a proof of the cleanup the registration is retained.
Reap(r) ==
    /\ pc[r] = "reap"
    /\ \/ force[r] = "ok" /\ Goto(r, "remove") /\ UNCHANGED locals
       \/ End(r, "retained")
    /\ LoopKeeps /\ UNCHANGED <<group, faults>>

\* The entry is removed, or cannot be, and the run leaves the table.
Remove(r) ==
    /\ pc[r] = "remove"
    /\ \/ journal' = journal \ {r} /\ UNCHANGED faults
       \/ r \in recorded /\ Fault /\ UNCHANGED journal
    /\ End(r, "clean") /\ Finished(r)
    /\ RunKeeps /\ UNCHANGED <<group, recorded>>

\* The future is dropped where it awaits: kill_on_drop kills the leader, and
\* the drop of the registration takes the run from the table.
Drop(r) ==
    /\ pc[r] \in {"loop", "reap"}
    /\ leader' = [leader EXCEPT ![r] = IF @ = "up" THEN "doomed" ELSE @]
    /\ End(r, "dropped") /\ Finished(r)
    /\ RunKeeps /\ UNCHANGED <<kids, recorded, journal, faults>>

-----------------------------------------------------------------------------
(* A server: startup recovery, close, exit and crash.                      *)

ServerKeeps == UNCHANGED <<run, faults>>

\* ServerState: the journal is recovered before anything runs.
Start(s) ==
    /\ server[s] = "off"
    /\ server' = [server EXCEPT ![s] = "recovering"]
    /\ todo' = [todo EXCEPT ![s] = journal]
    /\ ServerKeeps /\ UNCHANGED <<group, journal, closing, entry, stage>>

\* recover_entry reads the next entry, if it is still there.
ReadEntry(s, r) ==
    /\ server[s] = "recovering" /\ stage[s] = "owner" /\ entry[s] = NoRun /\ r \in todo[s]
    /\ todo' = [todo EXCEPT ![s] = @ \ {r}]
    /\ entry' = [entry EXCEPT ![s] = IF r \in journal THEN r ELSE NoRun]
    /\ ServerKeeps /\ UNCHANGED <<group, journal, server, closing, stage>>

\* The recovery leaves the entry as it is and goes on.
Skip(s) ==
    /\ entry' = [entry EXCEPT ![s] = NoRun]
    /\ stage' = [stage EXCEPT ![s] = "owner"]
Proceed(s, next) == stage' = [stage EXCEPT ![s] = next] /\ UNCHANGED entry

\* owner_state: an owner that lives keeps its children, and so does one whose
\* pid is in use again or cannot be looked up.
OwnerState(s) ==
    /\ server[s] = "recovering" /\ stage[s] = "owner" /\ entry[s] # NoRun
    /\ \/ server[ServerOf[entry[s]]] = "dead" /\ Proceed(s, "verify")
       \/ Skip(s)
    /\ ServerKeeps /\ UNCHANGED <<group, journal, server, closing, todo>>

\* Mutant: an entry that does not match the live process is removed.
VerifyChild_RemovesMismatch(s) ==
    /\ server[s] = "recovering" /\ stage[s] = "verify"
    /\ \/ leader[entry[s]] \in {"up", "doomed"} /\ Proceed(s, "kill")
       \/ Proceed(s, "remove")
    /\ ServerKeeps /\ UNCHANGED <<group, journal, server, closing, todo>>
\* verify_child: the leader is there and is the recorded one, it is gone, or
\* something does not match (its pid is in use again) or cannot be read.
VerifyChild(s) ==
    /\ server[s] = "recovering" /\ stage[s] = "verify"
    /\ \/ leader[entry[s]] \in {"up", "doomed"} /\ Proceed(s, "kill")
       \/ leader[entry[s]] = "gone" /\ Proceed(s, "remove")
       \/ Skip(s)
    /\ ServerKeeps /\ UNCHANGED <<group, journal, server, closing, todo>>

\* force_kill_group: kill fails on an empty group.
KillOrphan(s) ==
    /\ server[s] = "recovering" /\ stage[s] = "kill"
    /\ \/ ~GroupEmpty(entry[s]) /\ KillGroup(entry[s]) /\ Proceed(s, "remove")
       \/ UNCHANGED group /\ Skip(s)
    /\ ServerKeeps /\ UNCHANGED <<journal, server, closing, todo>>

RemoveEntry(s) ==
    /\ server[s] = "recovering" /\ stage[s] = "remove"
    /\ journal' = journal \ {entry[s]}
    /\ Skip(s)
    /\ ServerKeeps /\ UNCHANGED <<group, server, closing, todo>>

\* The server takes requests.
Serve(s) ==
    /\ server[s] = "recovering" /\ todo[s] = {} /\ entry[s] = NoRun
    /\ server' = [server EXCEPT ![s] = "up"]
    /\ ServerKeeps /\ UNCHANGED <<group, journal, closing, recovery>>

\* ProcessSupervisor::close: no more reservations, and a stop command for
\* every run in the table.
Close(s) ==
    /\ server[s] = "up"
    /\ server' = [server EXCEPT ![s] = "closing"]
    /\ waiting' = [waiting EXCEPT ![s] = active \cap RunsOf(s)]
    /\ order' = [r \in Run |-> order[r] \/ r \in active \cap RunsOf(s)]
    /\ UNCHANGED <<group, pc, stop, force, token, active, recorded, journal, left, recovery, faults>>

\* The completions have come, or shutdown_timeout has passed; the report.
Report(s) ==
    /\ server[s] = "closing"
    /\ server' = [server EXCEPT ![s] = "closed"]
    /\ left' = [left EXCEPT ![s] = active \cap RunsOf(s)]
    /\ waiting' = [waiting EXCEPT ![s] = {}]
    /\ ServerKeeps /\ UNCHANGED <<group, journal, recovery>>
CloseEnds(s) == waiting[s] \cap active = {} /\ Report(s)
CloseTimesOut(s) == waiting[s] \cap active # {} /\ Report(s)

\* The server is gone; what its runs were doing ends as given.
Gone(s, how) ==
    /\ server' = [server EXCEPT ![s] = "dead"]
    /\ pc' = [r \in Run |-> IF r \in RunsOf(s) /\ pc[r] \in Stages THEN how ELSE pc[r]]
    /\ stop' = [r \in Run |-> r \notin RunsOf(s) /\ stop[r]]
    /\ force' = [r \in Run |-> IF r \in RunsOf(s) THEN "no" ELSE force[r]]
    /\ token' = [r \in Run |-> r \notin RunsOf(s) /\ token[r]]
    /\ order' = [r \in Run |-> r \notin RunsOf(s) /\ order[r]]
    /\ active' = active \ RunsOf(s)
    /\ todo' = [todo EXCEPT ![s] = {}] /\ Skip(s)
    /\ UNCHANGED <<kids, recorded, journal, closing, faults>>

\* main returns, by its own deadline even before close has: the runtime drops
\* every future at its next await.
Exit(s) ==
    /\ server[s] \in {"closing", "closed"}
    /\ \A r \in RunsOf(s) : pc[r] \in {"idle", "loop", "reap"} \cup Ends
    /\ leader' = [r \in Run |-> IF r \in RunsOf(s) /\ pc[r] \in {"loop", "reap"} /\ leader[r] = "up"
                                THEN "doomed" ELSE leader[r]]
    /\ Gone(s, "dropped")

\* The server is killed; its children are not.
Crash(s) ==
    /\ server[s] \in {"recovering", "up", "closing", "closed"}
    /\ UNCHANGED leader
    /\ Gone(s, "lost")

-----------------------------------------------------------------------------

\* What the task of a run does by itself; its deadline is not relied on.
RunStep(r) ==
    \/ Check(r) \/ Spawn(r) \/ SpawnFails(r) \/ Record(r) \/ RecordFails(r)
    \/ StopSeen(r) \/ GraceEnds(r) \/ CleanupBound(r) \/ PollExit(r)
    \/ Reap(r) \/ Remove(r)
ServerStep(s) ==
    \/ (\E r \in Run : ReadEntry(s, r)) \/ OwnerState(s) \/ VerifyChild(s)
    \/ KillOrphan(s) \/ RemoveEntry(s) \/ Serve(s)

Next ==
    \/ \E r \in Run :
          \/ RunStep(r) \/ Reserve(r) \/ CallerCancels(r)
          \/ TimeOut(r) \/ PollFails(r) \/ Drop(r)
          \/ Fork(r) \/ LeaderExits(r) \/ KidsExit(r)
    \/ \E s \in Server :
          \/ ServerStep(s) \/ Start(s) \/ Close(s) \/ CloseEnds(s) \/ CloseTimesOut(s)
          \/ Exit(s) \/ Crash(s)

Spec == Init /\ [][Next]_vars

\* Tokio polls the task of every run, and its timers fire.
FairSpec == Spec /\ \A r \in Run : WF_vars(RunStep(r))

-----------------------------------------------------------------------------
\* A leader that runs and was not killed is in the journal, where a later server
\* finds it, once its entry was written: whatever fails, is dropped or crashes
\* here or in a recovery.  (If the entry cannot be written the caller is warned.)
LeaderInJournal ==
    \A r \in recorded : leader[r] = "up" => r \in journal

\* A run that left the table as cleaned up has no group member that was not
\* killed: cleanup_complete is a proof.
CleanMeansKilled ==
    \A r \in Run : pc[r] = "clean" => leader[r] # "up" /\ kids[r] # "up"

\* A report of close that nothing remains is true, and stays true: no child of
\* the server runs on.  (Of a dropped future this holds for the leader only.)
ReportIsTrue ==
    \A s \in Server : server[s] = "closed" /\ left[s] = {} =>
        \A r \in RunsOf(s) : /\ leader[r] # "up"
                             /\ kids[r] = "up" => pc[r] = "dropped"

\* Only its own run_spec_inner kills a group while its server lives; a recovery
\* kills the children of dead servers only.
GroupKilled(r) ==
    \/ leader[r] = "up" /\ leader'[r] = "doomed"
    \/ kids[r] = "up" /\ kids'[r] = "doomed"
KillStep ==
    \A r \in Run : GroupKilled(r) =>
        server[ServerOf[r]] = "dead" \/ pc'[r] # pc[r] \/ force'[r] # force[r]
OnlyOrphansKilled == [][KillStep]_vars

\* A run that is told to stop ends, although nobody waits for its deadline: by
\* SIGTERM, by SIGKILL, or retained when neither can be shown to have worked.
StopEndsRun ==
    \A r \in Run : (r \in active /\ order[r]) ~> pc[r] \in Ends

=============================================================================
