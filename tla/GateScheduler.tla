---------------------------- MODULE GateScheduler ----------------------------
(***************************************************************************)
(* The validation gate of one server and one worktree: check requests are  *)
(* prepared (the source is hashed), submitted to the scheduler, joined to  *)
(* an identical running job or given a new one, and answered with the      *)
(* evidence of that job.  (gate/scheduler.rs, tools/check.rs)              *)
(*                                                                         *)
(* A request is also the name of the job it may create.  A Command stands  *)
(* for everything in the singleflight key but the source hash: target,     *)
(* options, detail, timings, root epoch.  The source is a version that     *)
(* edits only ever raise: content that returns to an earlier hash is left  *)
(* out.  Leases are those of GateLease, seen by one server.                *)
(***************************************************************************)
EXTENDS Integers, FiniteSets

CONSTANTS Request,      \* check requests; each creates at most one job
          Command,      \* validation commands
          MaxEdits,     \* bound on edits of the worktree
          MaxDirty,     \* bound on mark_dirty calls
          MaxCancels,   \* bound on requests their client cancels
          Closes,       \* whether the server is shut down
          Faulty,       \* whether steps fail by themselves
          NTargets,     \* Cargo targets run by a job
          None          \* no job

ASSUME RequestIsFinite == IsFiniteSet(Request)
ASSUME BoundsAreNat == MaxEdits \in Nat /\ MaxDirty \in Nat /\ MaxCancels \in Nat
ASSUME FlagsAreBoolean == Closes \in BOOLEAN /\ Faulty \in BOOLEAN
ASSUME TargetsArePositive == NTargets \in Nat \ {0}
ASSUME NoneIsNoRequest == None \notin Request

VARIABLES source,      \* version of the worktree
          generation,  \* scheduler generation of the root
          dirty,       \* mark_dirty calls so far
          cancels,     \* requests cancelled by their client so far
          phase,       \* "open", "shutdown", "closing", "closed"
          listed,      \* the jobs in SchedulerState.jobs
          rpc, rcmd, rver, rjob, token, answer,    \* requests
          jpc, jcmd, jver, jgen, reason, subs, ran, saw, result   \* jobs

service == <<source, generation, dirty, cancels, phase, listed>>
requests == <<rpc, rcmd, rver, rjob, token, answer>>
jobs == <<jpc, jcmd, jver, jgen, reason, subs, ran, saw, result>>
vars == <<service, requests, jobs>>

Version == 0 .. MaxEdits
Reasons == {"cancelled", "superseded", "shutdown", "timed_out"}
Outcome == {"pass", "fail", "stale", "error"}

TypeOK ==
    /\ source \in Version /\ generation \in Nat /\ dirty \in 0 .. MaxDirty
    /\ cancels \in 0 .. MaxCancels
    /\ phase \in {"open", "shutdown", "closing", "closed"}
    /\ listed \subseteq Request
    /\ rpc \in [Request -> {"idle", "prepare", "submit", "subscribe", "wait", "done"}]
    /\ rcmd \in [Request -> Command] /\ rver \in [Request -> Version]
    /\ rjob \in [Request -> Request \cup {None}]
    /\ token \in [Request -> BOOLEAN]
    /\ answer \in [Request -> Outcome \cup Reasons \cup {"none", "refused"}]
    /\ jpc \in [Request -> {"none", "queue", "run", "publish", "finish",
                            "retire", "gone"}]
    /\ jcmd \in [Request -> Command] /\ jver \in [Request -> Version]
    /\ jgen \in [Request -> Nat]
    /\ reason \in [Request -> Reasons \cup {"none"}]
    /\ subs \in [Request -> 0 .. Cardinality(Request)]
    /\ ran \in [Request -> 0 .. NTargets]
    /\ saw \in [Request -> SUBSET Version]
    /\ result \in [Request -> Outcome \cup Reasons \cup {"none"}]

Init ==
    /\ source = 0 /\ generation = 0 /\ dirty = 0 /\ cancels = 0 /\ phase = "open" /\ listed = {}
    /\ rpc = [r \in Request |-> "idle"]
    /\ \E c \in Command : rcmd = [r \in Request |-> c] /\ jcmd = [r \in Request |-> c]
    /\ rver = [r \in Request |-> 0] /\ rjob = [r \in Request |-> None]
    /\ token = [r \in Request |-> FALSE] /\ answer = [r \in Request |-> "none"]
    /\ jpc = [r \in Request |-> "none"] /\ jver = [r \in Request |-> 0]
    /\ jgen = [r \in Request |-> 0] /\ reason = [r \in Request |-> "none"]
    /\ subs = [r \in Request |-> 0] /\ ran = [r \in Request |-> 0]
    /\ saw = [r \in Request |-> {}] /\ result = [r \in Request |-> "none"]

-----------------------------------------------------------------------------
(* Jobs as the scheduler sees them.                                        *)

Exists(j) == jpc[j] # "none"
Complete(j) == jpc[j] \in {"retire", "gone"}
\* A job that still runs and that nothing has cancelled.
Live(j) == Exists(j) /\ ~Complete(j) /\ reason[j] = "none"
\* Its result can be read; before that, result is what the work returned.
Published(j) == jpc[j] \in {"finish", "retire", "gone"}

\* JobState::is_joinable
Joinable(j) == ~Complete(j) /\ reason[j] = "none"

\* JobState::cancel on every job of the set: the first reason stays.
CancelAll(set, why) ==
    reason' = [j \in Request |-> IF j \in set /\ reason[j] = "none" THEN why
                                 ELSE reason[j]]

\* The job found in the table under the composite key of request r.
Found(r, gen) ==
    {j \in listed : jcmd[j] = rcmd[r] /\ jver[j] = rver[r] /\ jgen[j] = gen}

\* Running jobs of the root whose source is not the one of request r.
Conflicts(r) == {j \in listed : jver[j] # rver[r] /\ ~Complete(j)}

-----------------------------------------------------------------------------
(* The worktree and the scheduler's other entry points.                    *)

\* An editor changes the sources (external).
Edit ==
    /\ source < MaxEdits
    /\ source' = source + 1
    /\ UNCHANGED <<generation, dirty, cancels, phase, listed, requests, jobs>>

\* GateScheduler::mark_dirty
MarkDirty ==
    /\ dirty < MaxDirty
    /\ dirty' = dirty + 1
    /\ generation' = generation + 1
    /\ CancelAll({j \in listed : ~Complete(j)}, "superseded")
    /\ UNCHANGED <<source, cancels, phase, listed, requests,
                   jpc, jcmd, jver, jgen, subs, ran, saw, result>>

\* CheckService::close, first the shutdown token ...
Shutdown ==
    /\ Closes /\ phase = "open"
    /\ phase' = "shutdown"
    /\ UNCHANGED <<source, generation, dirty, cancels, listed, requests, jobs>>

\* ... then GateScheduler::close under the lock ...
CloseScheduler ==
    /\ phase = "shutdown"
    /\ phase' = "closing"
    /\ CancelAll(listed, "shutdown")
    /\ UNCHANGED <<source, generation, dirty, cancels, listed, requests,
                   jpc, jcmd, jver, jgen, subs, ran, saw, result>>

\* ... which waits for the jobs it found in the table.  The wait of each job
\* is bounded by hard_timeout; the bound is left out.
Closed ==
    /\ phase = "closing"
    /\ \A j \in listed : Complete(j)
    /\ phase' = "closed"
    /\ UNCHANGED <<source, generation, dirty, cancels, listed, requests, jobs>>

-----------------------------------------------------------------------------
(* A check request: CheckService::run.                                     *)

Answer(r, a) ==
    /\ rpc' = [rpc EXCEPT ![r] = "done"]
    /\ answer' = [answer EXCEPT ![r] = a]

Accept(r, c) ==
    /\ rpc[r] = "idle"
    /\ rpc' = [rpc EXCEPT ![r] = "prepare"]
    /\ rcmd' = [rcmd EXCEPT ![r] = c]
    /\ token' = [token EXCEPT ![r] = phase # "open"]
    /\ UNCHANGED <<service, rver, rjob, answer, jobs>>

\* The client cancels, or goes away.
ClientCancels(r) ==
    /\ rpc[r] \in {"prepare", "submit", "subscribe", "wait"}
    /\ ~token[r] /\ cancels < MaxCancels
    /\ token' = [token EXCEPT ![r] = TRUE]
    /\ cancels' = cancels + 1
    /\ UNCHANGED <<source, generation, dirty, phase, listed,
                   rpc, rcmd, rver, rjob, answer, jobs>>

\* forward_cancellation: the shutdown token reaches the request.
ForwardShutdown(r) ==
    /\ rpc[r] \in {"prepare", "submit", "subscribe", "wait"}
    /\ ~token[r] /\ phase # "open"
    /\ token' = [token EXCEPT ![r] = TRUE]
    /\ UNCHANGED <<service, rpc, rcmd, rver, rjob, answer, jobs>>

\* prepare: metadata, scope, targets, and the identity of the sources; then
\* a last look at the token.  It may still be cancelled before the submission.
Prepare(r) ==
    /\ rpc[r] = "prepare" /\ ~token[r]
    /\ rver' = [rver EXCEPT ![r] = source]
    /\ rpc' = [rpc EXCEPT ![r] = "submit"]
    /\ UNCHANGED <<service, rcmd, rjob, token, answer, jobs>>

\* Any early return of run: admission, preflight errors, deadline, an
\* incomplete identity.
PrepareFails(r) ==
    /\ Faulty /\ rpc[r] = "prepare"
    /\ Answer(r, "refused")
    /\ UNCHANGED <<service, rcmd, rver, rjob, token, jobs>>

\* Cancelled during preflight.
CancelledInPreflight(r) ==
    /\ rpc[r] = "prepare" /\ token[r]
    /\ Answer(r, "cancelled")
    /\ UNCHANGED <<service, rcmd, rver, rjob, token, jobs>>

\* GateScheduler::submit_at once the scheduler is closing.
SubmitRefused(r) ==
    /\ rpc[r] = "submit"
    /\ phase \in {"closing", "closed"}
    /\ Answer(r, "refused")
    /\ UNCHANGED <<service, rcmd, rver, rjob, token, jobs>>

\* GateScheduler::submit_at, joining: identical work is under way.
Join(r) ==
    /\ rpc[r] = "submit"
    /\ phase \in {"open", "shutdown"}
    /\ \E j \in Found(r, generation) :
          /\ Joinable(j)
          /\ rjob' = [rjob EXCEPT ![r] = j]
    /\ rpc' = [rpc EXCEPT ![r] = "subscribe"]
    /\ UNCHANGED <<service, rcmd, rver, token, answer, jobs>>

\* GateScheduler::submit_at, nothing to join: supersede the jobs of another
\* source, then replace what the table holds under the new key.  (The second
\* lookup joins nothing: after a bump of the generation the key is new.)
Create(r) ==
    /\ rpc[r] = "submit"
    /\ phase \in {"open", "shutdown"}
    /\ \A j \in Found(r, generation) : ~Joinable(j)
    /\ LET gen == IF Conflicts(r) = {} THEN generation ELSE generation + 1
       IN /\ generation' = gen
          /\ listed' = (listed \ Found(r, gen)) \cup {r}
          /\ jgen' = [jgen EXCEPT ![r] = gen]
    /\ CancelAll(Conflicts(r), "superseded")
    /\ jcmd' = [jcmd EXCEPT ![r] = rcmd[r]]
    /\ jver' = [jver EXCEPT ![r] = rver[r]]
    /\ jpc' = [jpc EXCEPT ![r] = "queue"]
    /\ rjob' = [rjob EXCEPT ![r] = r]
    /\ rpc' = [rpc EXCEPT ![r] = "subscribe"]
    /\ UNCHANGED <<source, dirty, cancels, phase, rcmd, rver, token, answer,
                   subs, ran, saw, result>>

\* ScheduledJob::subscribe
Subscribe(r) ==
    /\ rpc[r] = "subscribe"
    /\ subs' = [subs EXCEPT ![rjob[r]] = @ + 1]
    /\ rpc' = [rpc EXCEPT ![r] = "wait"]
    /\ UNCHANGED <<service, rcmd, rver, rjob, token, answer,
                   jpc, jcmd, jver, jgen, reason, ran, saw, result>>

\* JobState::detach: the last subscriber to leave an unfinished job cancels it.
Detach(r) ==
    /\ subs' = [subs EXCEPT ![rjob[r]] = @ - 1]
    /\ CancelAll(IF subs[rjob[r]] = 1 /\ ~Complete(rjob[r]) THEN {rjob[r]} ELSE {},
                 "cancelled")

\* JobSubscription::wait: the evidence is there, or the request's own token is
\* cancelled; either way the subscription is detached.
Receive(r) ==
    /\ rpc[r] = "wait"
    /\ \/ Published(rjob[r]) /\ Answer(r, result[rjob[r]])
       \/ token[r] /\ Answer(r, "cancelled")
    /\ Detach(r)
    /\ UNCHANGED <<service, rcmd, rver, rjob, token,
                   jpc, jcmd, jver, jgen, ran, saw, result>>

-----------------------------------------------------------------------------
(* The job's own task: execute_job, then finish, then retire.              *)

HoldsLease(j) == jpc[j] \in {"run", "publish"}
Cancelled(j) == reason[j] # "none"

\* The next program counter of job j; what its step leaves alone.
Goto(j, pc) == jpc' = [jpc EXCEPT ![j] = pc]
JobKeeps == UNCHANGED <<service, requests, jcmd, jver, jgen, subs>>

\* wait_debounce, then the worktree lease and a host slot: the waits end, and
\* the reason is looked at once more before the work starts.
AcquireLeases(j) ==
    /\ jpc[j] = "queue" /\ \A k \in Request : ~HoldsLease(k)
    /\ ~Cancelled(j)
    /\ Goto(j, "run")
    /\ JobKeeps /\ UNCHANGED <<reason, ran, saw, result>>

\* Cancelled while it waited: the leases it has are dropped.
GiveUpQueueing(j) ==
    /\ jpc[j] = "queue"
    /\ Cancelled(j)
    /\ Goto(j, "finish")
    /\ result' = [result EXCEPT ![j] = reason[j]]
    /\ JobKeeps /\ UNCHANGED <<reason, ran, saw>>

\* The deadline passes, or a lease cannot be had; past the last check the
\* deadline is recorded as the reason.
QueueingFails(j) ==
    /\ Faulty /\ jpc[j] = "queue" /\ ~Cancelled(j)
    /\ Goto(j, "finish")
    /\ \/ /\ result' = [result EXCEPT ![j] = "error"]
          /\ UNCHANGED reason
       \/ /\ CancelAll({j}, "timed_out")
          /\ result' = [result EXCEPT ![j] = "timed_out"]
    /\ JobKeeps /\ UNCHANGED <<ran, saw>>

\* One Cargo target, on the sources as they are now.
RunTarget(j) ==
    /\ jpc[j] = "run" /\ ran[j] < NTargets /\ ~Cancelled(j)
    /\ ran' = [ran EXCEPT ![j] = @ + 1]
    /\ saw' = [saw EXCEPT ![j] = @ \cup {source}]
    /\ JobKeeps /\ UNCHANGED <<jpc, reason, result>>

\* Cancellation between or within targets, a timeout, an unclean child, a
\* tool that cannot be had: no identity check follows.
WorkAborted(j) ==
    /\ jpc[j] = "run" /\ (Faulty \/ Cancelled(j))
    /\ Goto(j, "publish")
    /\ result' = [result EXCEPT ![j] = "error"]
    /\ JobKeeps /\ UNCHANGED <<reason, ran, saw>>

\* Mutant: the identity is not computed again after the work.
PostIdentity_Skipped(j, o) ==
    /\ jpc[j] = "run"
    /\ IF o = "pass" THEN ran[j] = NTargets ELSE ran[j] > 0
    /\ Goto(j, "publish")
    /\ result' = [result EXCEPT ![j] = o]
    /\ JobKeeps /\ UNCHANGED <<reason, ran, saw>>
\* The post-validation identity, after a pass or after a target that failed:
\* either verdict is published for unchanged sources only.
PostIdentity(j, o) ==
    /\ jpc[j] = "run"
    /\ IF o = "pass" THEN ran[j] = NTargets ELSE ran[j] > 0
    /\ Goto(j, "publish")
    /\ \/ result' = [result EXCEPT ![j] = IF source = jver[j] THEN o ELSE "stale"]
       \/ /\ Faulty \/ Cancelled(j)
          /\ result' = [result EXCEPT ![j] = "error"]
    /\ JobKeeps /\ UNCHANGED <<reason, ran, saw>>

\* Back in execute_job the leases are dropped, and a reason recorded by now
\* overrides whatever the work returned.  JobState::finish stores the result ...
\* Mutant: no result is stored for a job cancelled while it worked.
Publish_LiveOnly(j) ==
    /\ jpc[j] = "publish" /\ ~Cancelled(j)
    /\ Goto(j, "finish")
    /\ JobKeeps /\ UNCHANGED <<reason, ran, saw, result>>
Publish(j) ==
    /\ jpc[j] = "publish"
    /\ Goto(j, "finish")
    /\ result' = [result EXCEPT ![j] = IF Cancelled(j) THEN reason[j] ELSE @]
    /\ JobKeeps /\ UNCHANGED <<reason, ran, saw>>

\* ... then sets complete and wakes the waiters ...
Finish(j) ==
    /\ jpc[j] = "finish"
    /\ Goto(j, "retire")
    /\ JobKeeps /\ UNCHANGED <<reason, ran, saw, result>>

\* ... and the job leaves the table, if it is still in it.
Retire(j) ==
    /\ jpc[j] = "retire"
    /\ Goto(j, "gone")
    /\ listed' = listed \ {j}
    /\ UNCHANGED <<source, generation, dirty, cancels, phase, requests,
                   jcmd, jver, jgen, reason, subs, ran, saw, result>>

-----------------------------------------------------------------------------
Terminated ==
    /\ Closes => phase = "closed"
    /\ \A r \in Request : rpc[r] = "done" /\ jpc[r] \in {"none", "gone"}
    /\ UNCHANGED vars

\* What the tasks of the service do by themselves.
RequestStep(r) ==
    \/ ForwardShutdown(r) \/ Prepare(r) \/ PrepareFails(r)
    \/ CancelledInPreflight(r) \/ SubmitRefused(r) \/ Join(r) \/ Create(r)
    \/ Subscribe(r) \/ Receive(r)
JobStep(j) ==
    \/ AcquireLeases(j) \/ GiveUpQueueing(j)
    \/ RunTarget(j) \/ WorkAborted(j)
    \/ \E o \in {"pass", "fail"} : PostIdentity(j, o)
    \/ Publish(j) \/ Finish(j) \/ Retire(j)
CloseStep == CloseScheduler \/ Closed

Next ==
    \/ Edit \/ MarkDirty \/ Shutdown \/ CloseStep \/ Terminated
    \/ \E r \in Request, c \in Command : Accept(r, c)
    \/ \E r \in Request : ClientCancels(r) \/ RequestStep(r)
    \/ \E j \in Request : QueueingFails(j) \/ JobStep(j)

\* Tokio polls every task; preflight and Cargo end, by their deadlines if not
\* by themselves.  No deadline is needed to get through the queue.
Fairness ==
    /\ \A r \in Request : WF_vars(RequestStep(r)) /\ WF_vars(JobStep(r))
    /\ WF_vars(CloseStep)

Spec == Init /\ [][Next]_vars
FairSpec == Spec /\ Fairness

-----------------------------------------------------------------------------
\* A verdict given to a request, pass or fail, was reached by its own command
\* on exactly the sources the request saw, whatever was edited, joined or
\* superseded meanwhile; a pass has run every target.
SoundEvidence ==
    \A r \in Request :
        answer[r] \in {"pass", "fail"} =>
            /\ jcmd[rjob[r]] = rcmd[r]
            /\ saw[rjob[r]] = {rver[r]}
            /\ answer[r] = "pass" => ran[rjob[r]] = NTargets

\* Jobs that nothing has cancelled all work on the same sources: a job never
\* goes on with its input superseded, even one that another job has replaced
\* in the table.
OneLiveInput ==
    \A j, k \in Request : Live(j) /\ Live(k) => jver[j] = jver[k]

\* Once the scheduler is closing every unfinished job is cancelled, and no new
\* one can start: also a job that is no longer in the table.
ClosingStopsAll ==
    phase \in {"closing", "closed"} => \A j \in Request : ~Live(j)

\* Every request that was accepted is answered, without the help of a deadline
\* in the queue, and close returns although it waits for every listed job
\* (submit, run_job, close).
EveryRequestAnswered ==
    /\ \A r \in Request : rpc[r] = "prepare" ~> rpc[r] = "done"
    /\ phase = "shutdown" ~> phase = "closed"

\* Refuted: a job is superseded by a newer input only.  A request whose
\* preflight is slow submits sources older than those of the running job.
SupersededByNewerOnly ==
    [][\A j \in Request :
         reason[j] = "none" /\ reason'[j] = "superseded" =>
            \/ dirty' # dirty
            \/ \E r \in Request : /\ rpc[r] = "submit" /\ rpc'[r] = "subscribe"
                                  /\ rver[r] > jver[j]]_vars

=============================================================================
