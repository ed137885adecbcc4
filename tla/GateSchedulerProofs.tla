------------------------ MODULE GateSchedulerProofs ------------------------
(***************************************************************************)
(* Proofs about GateScheduler, for any number of requests, commands, edits *)
(* and targets: verdicts are sound, live jobs share one input, and a       *)
(* closing scheduler has cancelled everything.                             *)
(***************************************************************************)
EXTENDS GateScheduler, TLAPS

\* The types the argument needs.
Typed ==
    /\ source \in Nat /\ generation \in Nat
    /\ phase \in {"open", "shutdown", "closing", "closed"}
    /\ listed \subseteq Request
    /\ rpc \in [Request -> {"idle", "prepare", "submit", "subscribe", "wait", "done"}]
    /\ rcmd \in [Request -> Command] /\ rver \in [Request -> Nat]
    /\ rjob \in [Request -> Request \cup {None}]
    /\ answer \in [Request -> Outcome \cup Reasons \cup {"none", "refused"}]
    /\ jpc \in [Request -> {"none", "queue", "run", "publish", "finish",
                            "retire", "gone"}]
    /\ jcmd \in [Request -> Command] /\ jver \in [Request -> Nat]
    /\ jgen \in [Request -> Nat]
    /\ reason \in [Request -> Reasons \cup {"none"}]
    /\ ran \in [Request -> Nat]
    /\ saw \in [Request -> SUBSET Nat]
    /\ result \in [Request -> Outcome \cup Reasons \cup {"none"}]

\* What no one has cancelled can be found, hence cancelled.
LiveIsListed == \A j \in Request : Live(j) => j \in listed

\* A bump of the generation leads to keys nobody has used.
Generations == \A j \in Request : jgen[j] <= generation

\* The table lists jobs that exist.
Known == \A j \in listed : Exists(j)

\* A request that has not submitted has no job; a job starts with nothing seen.
NotYet ==
    /\ \A r \in Request : rpc[r] \in {"idle", "prepare", "submit"} => jpc[r] = "none"
    /\ \A j \in Request : jpc[j] \in {"none", "queue"} => saw[j] = {} /\ ran[j] = 0

\* A job sees its own version or later ones, none before it runs a target.
Seen ==
    /\ \A r \in Request : rver[r] <= source
    /\ \A j \in Request : jver[j] <= source
    /\ \A j \in Request : \A v \in saw[j] : jver[j] <= v /\ v <= source
    /\ \A j \in Request : ran[j] > 0 => saw[j] # {}

\* What a job may call a verdict.
Verdict(j) ==
    result[j] \in {"pass", "fail"} =>
        /\ saw[j] = {jver[j]}
        /\ result[j] = "pass" => ran[j] = NTargets
Verdicts ==
    /\ \A j \in Request : Verdict(j)
    /\ \A j \in Request : jpc[j] \in {"none", "queue", "run"} => result[j] = "none"

\* A request waits for a job of its own command and sources.
Bound ==
    \A r \in Request :
        rpc[r] \in {"subscribe", "wait"} =>
            /\ rjob[r] \in Request /\ jpc[rjob[r]] # "none"
            /\ jcmd[rjob[r]] = rcmd[r] /\ jver[rjob[r]] = rver[r]

\* An answer is given once, and a verdict by a job that has published it.
Answers ==
    \A r \in Request :
        /\ rpc[r] # "done" => answer[r] = "none"
        /\ answer[r] \in {"pass", "fail"} =>
              /\ rjob[r] \in Request /\ Published(rjob[r])
              /\ jcmd[rjob[r]] = rcmd[r]
              /\ saw[rjob[r]] = {rver[r]}
              /\ answer[r] = "pass" => ran[rjob[r]] = NTargets

\* What concerns the table of jobs, and what concerns the evidence.
Table == /\ LiveIsListed /\ OneLiveInput /\ ClosingStopsAll
         /\ Generations /\ Known /\ NotYet
Evidence == Seen /\ Verdicts /\ Bound /\ Answers

IInv == Typed /\ Table /\ Evidence

-----------------------------------------------------------------------------
(* The worktree and the scheduler's entry points.                           *)

\* Edit keeps the invariant.
LEMMA EditStep ==
    ASSUME IInv, Edit
    PROVE  IInv'
<1>1. Typed'
  BY DEF IInv, Typed, Outcome, Reasons, Edit, vars, service, requests, jobs
<1>2. Table'
  BY DEF IInv, Typed, Table, LiveIsListed, OneLiveInput, ClosingStopsAll,
     Generations, Known, NotYet, Live, Exists, Complete, Reasons, Edit,
     vars, service, requests, jobs
<1>3. Evidence'
  BY NoneIsNoRequest DEF IInv, Typed, Table, NotYet, Evidence, Seen,
     Verdicts, Verdict, Bound, Answers, Published, Outcome, Reasons, Edit,
     vars, service, requests, jobs
<1> QED BY <1>1, <1>2, <1>3 DEF IInv

\* MarkDirty keeps the invariant.
LEMMA MarkDirtyStep ==
    ASSUME IInv, MarkDirty
    PROVE  IInv'
<1>1. Typed'
  BY DEF IInv, Typed, Outcome, Reasons, MarkDirty, CancelAll, vars, service,
     requests, jobs
<1>2. Table'
  BY DEF IInv, Typed, Table, LiveIsListed, OneLiveInput, ClosingStopsAll,
     Generations, Known, NotYet, Live, Exists, Complete, Reasons, MarkDirty,
     CancelAll, vars, service, requests, jobs
<1>3. Evidence'
  BY NoneIsNoRequest DEF IInv, Typed, Table, NotYet, Evidence, Seen,
     Verdicts, Verdict, Bound, Answers, Published, Outcome, Reasons,
     MarkDirty, CancelAll, vars, service, requests, jobs
<1> QED BY <1>1, <1>2, <1>3 DEF IInv

\* Shutdown keeps the invariant.
LEMMA ShutdownStep ==
    ASSUME IInv, Shutdown
    PROVE  IInv'
<1>1. Typed'
  BY DEF IInv, Typed, Outcome, Reasons, Shutdown, vars, service, requests,
     jobs
<1>2. Table'
  BY DEF IInv, Typed, Table, LiveIsListed, OneLiveInput, ClosingStopsAll,
     Generations, Known, NotYet, Live, Exists, Complete, Reasons, Shutdown,
     vars, service, requests, jobs
<1>3. Evidence'
  BY NoneIsNoRequest DEF IInv, Typed, Table, NotYet, Evidence, Seen,
     Verdicts, Verdict, Bound, Answers, Published, Outcome, Reasons,
     Shutdown, vars, service, requests, jobs
<1> QED BY <1>1, <1>2, <1>3 DEF IInv

\* CloseScheduler keeps the invariant.
LEMMA CloseSchedulerStep ==
    ASSUME IInv, CloseScheduler
    PROVE  IInv'
<1>1. Typed'
  BY DEF IInv, Typed, Outcome, Reasons, CloseScheduler, CancelAll, vars,
     service, requests, jobs
<1>2. Table'
  BY DEF IInv, Typed, Table, LiveIsListed, OneLiveInput, ClosingStopsAll,
     Generations, Known, NotYet, Live, Exists, Complete, Reasons,
     CloseScheduler, CancelAll, vars, service, requests, jobs
<1>3. Evidence'
  BY NoneIsNoRequest DEF IInv, Typed, Table, NotYet, Evidence, Seen,
     Verdicts, Verdict, Bound, Answers, Published, Outcome, Reasons,
     CloseScheduler, CancelAll, vars, service, requests, jobs
<1> QED BY <1>1, <1>2, <1>3 DEF IInv

\* Closed keeps the invariant.
LEMMA ClosedStep ==
    ASSUME IInv, Closed
    PROVE  IInv'
<1>1. Typed'
  BY DEF IInv, Typed, Outcome, Reasons, Closed, vars, service, requests,
     jobs
<1>2. Table'
  BY DEF IInv, Typed, Table, LiveIsListed, OneLiveInput, ClosingStopsAll,
     Generations, Known, NotYet, Live, Exists, Complete, Reasons, Closed,
     vars, service, requests, jobs
<1>3. Evidence'
  BY NoneIsNoRequest DEF IInv, Typed, Table, NotYet, Evidence, Seen,
     Verdicts, Verdict, Bound, Answers, Published, Outcome, Reasons, Closed,
     vars, service, requests, jobs
<1> QED BY <1>1, <1>2, <1>3 DEF IInv

\* Terminated keeps the invariant.
LEMMA TerminatedStep ==
    ASSUME IInv, Terminated
    PROVE  IInv'
<1>1. Typed'
  BY DEF IInv, Typed, Outcome, Reasons, Terminated, vars, service, requests,
     jobs
<1>2. Table'
  BY DEF IInv, Typed, Table, LiveIsListed, OneLiveInput, ClosingStopsAll,
     Generations, Known, NotYet, Live, Exists, Complete, Reasons,
     Terminated, vars, service, requests, jobs
<1>3. Evidence'
  BY NoneIsNoRequest DEF IInv, Typed, Table, NotYet, Evidence, Seen,
     Verdicts, Verdict, Bound, Answers, Published, Outcome, Reasons,
     Terminated, vars, service, requests, jobs
<1> QED BY <1>1, <1>2, <1>3 DEF IInv

-----------------------------------------------------------------------------
(* The steps of a request.                                                  *)

\* Accept keeps the invariant.
LEMMA AcceptStep ==
    ASSUME IInv, NEW r \in Request, NEW c \in Command, Accept(r, c)
    PROVE  IInv'
<1>1. Typed'
  BY DEF IInv, Typed, Outcome, Reasons, Accept, vars, service, requests,
     jobs
<1>2. Table'
  BY DEF IInv, Typed, Table, LiveIsListed, OneLiveInput, ClosingStopsAll,
     Generations, Known, NotYet, Live, Exists, Complete, Reasons, Accept,
     vars, service, requests, jobs
<1>3. Evidence'
  BY NoneIsNoRequest DEF IInv, Typed, Table, NotYet, Evidence, Seen,
     Verdicts, Verdict, Bound, Answers, Published, Outcome, Reasons, Accept,
     vars, service, requests, jobs
<1> QED BY <1>1, <1>2, <1>3 DEF IInv

\* ClientCancels keeps the invariant.
LEMMA ClientCancelsStep ==
    ASSUME IInv, NEW r \in Request, ClientCancels(r)
    PROVE  IInv'
<1>1. Typed'
  BY DEF IInv, Typed, Outcome, Reasons, ClientCancels, vars, service,
     requests, jobs
<1>2. Table'
  BY DEF IInv, Typed, Table, LiveIsListed, OneLiveInput, ClosingStopsAll,
     Generations, Known, NotYet, Live, Exists, Complete, Reasons,
     ClientCancels, vars, service, requests, jobs
<1>3. Evidence'
  BY NoneIsNoRequest DEF IInv, Typed, Table, NotYet, Evidence, Seen,
     Verdicts, Verdict, Bound, Answers, Published, Outcome, Reasons,
     ClientCancels, vars, service, requests, jobs
<1> QED BY <1>1, <1>2, <1>3 DEF IInv

\* ForwardShutdown keeps the invariant.
LEMMA ForwardShutdownStep ==
    ASSUME IInv, NEW r \in Request, ForwardShutdown(r)
    PROVE  IInv'
<1>1. Typed'
  BY DEF IInv, Typed, Outcome, Reasons, ForwardShutdown, vars, service,
     requests, jobs
<1>2. Table'
  BY DEF IInv, Typed, Table, LiveIsListed, OneLiveInput, ClosingStopsAll,
     Generations, Known, NotYet, Live, Exists, Complete, Reasons,
     ForwardShutdown, vars, service, requests, jobs
<1>3. Evidence'
  BY NoneIsNoRequest DEF IInv, Typed, Table, NotYet, Evidence, Seen,
     Verdicts, Verdict, Bound, Answers, Published, Outcome, Reasons,
     ForwardShutdown, vars, service, requests, jobs
<1> QED BY <1>1, <1>2, <1>3 DEF IInv

\* Prepare keeps the invariant.
LEMMA PrepareStep ==
    ASSUME IInv, NEW r \in Request, Prepare(r)
    PROVE  IInv'
<1>1. Typed'
  BY DEF IInv, Typed, Outcome, Reasons, Prepare, vars, service, requests,
     jobs
<1>2. Table'
  BY DEF IInv, Typed, Table, LiveIsListed, OneLiveInput, ClosingStopsAll,
     Generations, Known, NotYet, Live, Exists, Complete, Reasons, Prepare,
     vars, service, requests, jobs
<1>3. Evidence'
  BY NoneIsNoRequest DEF IInv, Typed, Table, NotYet, Evidence, Seen,
     Verdicts, Verdict, Bound, Answers, Published, Outcome, Reasons,
     Prepare, vars, service, requests, jobs
<1> QED BY <1>1, <1>2, <1>3 DEF IInv

\* PrepareFails keeps the invariant.
LEMMA PrepareFailsStep ==
    ASSUME IInv, NEW r \in Request, PrepareFails(r)
    PROVE  IInv'
<1>1. Typed'
  BY DEF IInv, Typed, Outcome, Reasons, PrepareFails, Answer, vars, service,
     requests, jobs
<1>2. Table'
  BY DEF IInv, Typed, Table, LiveIsListed, OneLiveInput, ClosingStopsAll,
     Generations, Known, NotYet, Live, Exists, Complete, Reasons,
     PrepareFails, Answer, vars, service, requests, jobs
<1>3. Evidence'
  BY NoneIsNoRequest DEF IInv, Typed, Table, NotYet, Evidence, Seen,
     Verdicts, Verdict, Bound, Answers, Published, Outcome, Reasons,
     PrepareFails, Answer, vars, service, requests, jobs
<1> QED BY <1>1, <1>2, <1>3 DEF IInv

\* CancelledInPreflight keeps the invariant.
LEMMA CancelledInPreflightStep ==
    ASSUME IInv, NEW r \in Request, CancelledInPreflight(r)
    PROVE  IInv'
<1>1. Typed'
  BY DEF IInv, Typed, Outcome, Reasons, CancelledInPreflight, Answer, vars,
     service, requests, jobs
<1>2. Table'
  BY DEF IInv, Typed, Table, LiveIsListed, OneLiveInput, ClosingStopsAll,
     Generations, Known, NotYet, Live, Exists, Complete, Reasons,
     CancelledInPreflight, Answer, vars, service, requests, jobs
<1>3. Evidence'
  BY NoneIsNoRequest DEF IInv, Typed, Table, NotYet, Evidence, Seen,
     Verdicts, Verdict, Bound, Answers, Published, Outcome, Reasons,
     CancelledInPreflight, Answer, vars, service, requests, jobs
<1> QED BY <1>1, <1>2, <1>3 DEF IInv

\* SubmitRefused keeps the invariant.
LEMMA SubmitRefusedStep ==
    ASSUME IInv, NEW r \in Request, SubmitRefused(r)
    PROVE  IInv'
<1>1. Typed'
  BY DEF IInv, Typed, Outcome, Reasons, SubmitRefused, Answer, vars,
     service, requests, jobs
<1>2. Table'
  BY DEF IInv, Typed, Table, LiveIsListed, OneLiveInput, ClosingStopsAll,
     Generations, Known, NotYet, Live, Exists, Complete, Reasons,
     SubmitRefused, Answer, vars, service, requests, jobs
<1>3. Evidence'
  BY NoneIsNoRequest DEF IInv, Typed, Table, NotYet, Evidence, Seen,
     Verdicts, Verdict, Bound, Answers, Published, Outcome, Reasons,
     SubmitRefused, Answer, vars, service, requests, jobs
<1> QED BY <1>1, <1>2, <1>3 DEF IInv

\* Join keeps the invariant.
LEMMA JoinStep ==
    ASSUME IInv, NEW r \in Request, Join(r)
    PROVE  IInv'
<1>1. Typed'
  BY DEF IInv, Typed, Outcome, Reasons, Join, Found, Joinable, vars,
     service, requests, jobs
<1>2. Table'
  BY DEF IInv, Typed, Table, LiveIsListed, OneLiveInput, ClosingStopsAll,
     Generations, Known, NotYet, Live, Exists, Complete, Reasons, Join,
     Found, Joinable, vars, service, requests, jobs
<1>3. Evidence'
  <2>1. PICK j \in Found(r, generation) : Joinable(j) /\ rjob' = [rjob EXCEPT ![r] = j]
    BY DEF Join
  <2>2. /\ j \in Request /\ jpc[j] # "none"
        /\ jcmd[j] = rcmd[r] /\ jver[j] = rver[r]
    BY <2>1 DEF IInv, Typed, Table, Known, Found, Exists
  <2>3. Bound'
    BY <2>1, <2>2 DEF IInv, Typed, Evidence, Bound, Join, service, jobs
  <2>4. Seen' /\ Verdicts'
    BY DEF IInv, Typed, Evidence, Seen, Verdicts, Verdict, Join, service, jobs
  <2>5. Answers'
    BY NoneIsNoRequest, <2>1, <2>2 DEF IInv, Typed, Evidence, Answers, Published, Join, service, jobs
  <2> QED BY <2>3, <2>4, <2>5 DEF Evidence
<1> QED BY <1>1, <1>2, <1>3 DEF IInv

\* Create keeps the invariant.
LEMMA CreateStep ==
    ASSUME IInv, NEW r \in Request, Create(r)
    PROVE  IInv'
<1>1. Typed'
  BY NoneIsNoRequest DEF IInv, Typed, Outcome, Reasons, Create, Found,
     Joinable, Conflicts, CancelAll, vars, service, requests, jobs
<1>2. Table'
  BY NoneIsNoRequest DEF IInv, Typed, Table, LiveIsListed, OneLiveInput,
     ClosingStopsAll, Generations, Known, NotYet, Live, Exists, Complete,
     Reasons, Create, Found, Joinable, Conflicts, CancelAll, vars, service,
     requests, jobs
<1>3. Evidence'
  BY NoneIsNoRequest DEF IInv, Typed, Table, NotYet, Evidence, Seen,
     Verdicts, Verdict, Bound, Answers, Published, Outcome, Reasons, Create,
     Found, Joinable, Conflicts, CancelAll, vars, service, requests, jobs
<1> QED BY <1>1, <1>2, <1>3 DEF IInv

\* Subscribe keeps the invariant.
LEMMA SubscribeStep ==
    ASSUME IInv, NEW r \in Request, Subscribe(r)
    PROVE  IInv'
<1>1. Typed'
  BY DEF IInv, Typed, Outcome, Reasons, Subscribe, vars, service, requests,
     jobs
<1>2. Table'
  BY DEF IInv, Typed, Table, LiveIsListed, OneLiveInput, ClosingStopsAll,
     Generations, Known, NotYet, Live, Exists, Complete, Reasons, Subscribe,
     vars, service, requests, jobs
<1>3. Evidence'
  BY NoneIsNoRequest DEF IInv, Typed, Table, NotYet, Evidence, Seen,
     Verdicts, Verdict, Bound, Answers, Published, Outcome, Reasons,
     Subscribe, vars, service, requests, jobs
<1> QED BY <1>1, <1>2, <1>3 DEF IInv

\* Receive keeps the invariant.
LEMMA ReceiveStep ==
    ASSUME IInv, NEW r \in Request, Receive(r)
    PROVE  IInv'
<1>1. Typed'
  <2>1. rjob[r] \in Request /\ result[rjob[r]] \in Outcome \cup Reasons \cup {"none"}
    BY DEF IInv, Typed, Evidence, Bound, Receive
  <2>2. /\ answer' \in [Request -> Outcome \cup Reasons \cup {"none", "refused"}]
        /\ rpc' = [rpc EXCEPT ![r] = "done"]
    BY <2>1 DEF IInv, Typed, Receive, Answer, Reasons
  <2> QED
    BY <2>2 DEF IInv, Typed, Receive, Detach, CancelAll, service, Reasons
<1>2. Table'
  BY DEF IInv, Typed, Table, LiveIsListed, OneLiveInput, ClosingStopsAll,
     Generations, Known, NotYet, Live, Exists, Complete, Reasons, Receive,
     Answer, Detach, CancelAll, Published, vars, service, requests, jobs
<1>3. Evidence'
  BY NoneIsNoRequest DEF IInv, Typed, Table, NotYet, Evidence, Seen,
     Verdicts, Verdict, Bound, Answers, Published, Outcome, Reasons,
     Receive, Answer, Detach, CancelAll, vars, service, requests, jobs
<1> QED BY <1>1, <1>2, <1>3 DEF IInv

-----------------------------------------------------------------------------
(* The steps of a job.                                                      *)

\* QueueingFails keeps the invariant.
LEMMA QueueingFailsStep ==
    ASSUME IInv, NEW j \in Request, QueueingFails(j)
    PROVE  IInv'
<1>1. Typed'
  BY DEF IInv, Typed, Outcome, Reasons, QueueingFails, CancelAll, Cancelled,
     Goto, JobKeeps, vars, service, requests, jobs
<1>2. Table'
  BY DEF IInv, Typed, Table, LiveIsListed, OneLiveInput, ClosingStopsAll,
     Generations, Known, NotYet, Live, Exists, Complete, Reasons,
     QueueingFails, CancelAll, Cancelled, Goto, JobKeeps, vars, service,
     requests, jobs
<1>3. Evidence'
  BY NoneIsNoRequest DEF IInv, Typed, Table, NotYet, Evidence, Seen,
     Verdicts, Verdict, Bound, Answers, Published, Outcome, Reasons,
     QueueingFails, CancelAll, Cancelled, Goto, JobKeeps, vars, service,
     requests, jobs
<1> QED BY <1>1, <1>2, <1>3 DEF IInv

\* AcquireLeases keeps the invariant.
LEMMA AcquireLeasesStep ==
    ASSUME IInv, NEW j \in Request, AcquireLeases(j)
    PROVE  IInv'
<1>1. Typed'
  BY DEF IInv, Typed, Outcome, Reasons, AcquireLeases, Cancelled,
     HoldsLease, Goto, JobKeeps, vars, service, requests, jobs
<1>2. Table'
  BY DEF IInv, Typed, Table, LiveIsListed, OneLiveInput, ClosingStopsAll,
     Generations, Known, NotYet, Live, Exists, Complete, Reasons,
     AcquireLeases, Cancelled, HoldsLease, Goto, JobKeeps, vars, service,
     requests, jobs
<1>3. Evidence'
  BY NoneIsNoRequest DEF IInv, Typed, Table, NotYet, Evidence, Seen,
     Verdicts, Verdict, Bound, Answers, Published, Outcome, Reasons,
     AcquireLeases, Cancelled, HoldsLease, Goto, JobKeeps, vars, service,
     requests, jobs
<1> QED BY <1>1, <1>2, <1>3 DEF IInv

\* GiveUpQueueing keeps the invariant.
LEMMA GiveUpQueueingStep ==
    ASSUME IInv, NEW j \in Request, GiveUpQueueing(j)
    PROVE  IInv'
<1>1. Typed'
  BY DEF IInv, Typed, Outcome, Reasons, GiveUpQueueing, Cancelled, Goto,
     JobKeeps, vars, service, requests, jobs
<1>2. Table'
  BY DEF IInv, Typed, Table, LiveIsListed, OneLiveInput, ClosingStopsAll,
     Generations, Known, NotYet, Live, Exists, Complete, Reasons,
     GiveUpQueueing, Cancelled, Goto, JobKeeps, vars, service, requests,
     jobs
<1>3. Evidence'
  BY NoneIsNoRequest DEF IInv, Typed, Table, NotYet, Evidence, Seen,
     Verdicts, Verdict, Bound, Answers, Published, Outcome, Reasons,
     GiveUpQueueing, Cancelled, Goto, JobKeeps, vars, service, requests,
     jobs
<1> QED BY <1>1, <1>2, <1>3 DEF IInv

\* RunTarget keeps the invariant.
LEMMA RunTargetStep ==
    ASSUME IInv, NEW j \in Request, RunTarget(j)
    PROVE  IInv'
<1>1. Typed'
  BY TargetsArePositive DEF IInv, Typed, Outcome, Reasons, RunTarget,
     Cancelled, Goto, JobKeeps, vars, service, requests, jobs
<1>2. Table'
  BY TargetsArePositive DEF IInv, Typed, Table, LiveIsListed, OneLiveInput,
     ClosingStopsAll, Generations, Known, NotYet, Live, Exists, Complete,
     Reasons, RunTarget, Cancelled, Goto, JobKeeps, vars, service, requests,
     jobs
<1>3. Evidence'
  BY NoneIsNoRequest, TargetsArePositive DEF IInv, Typed, Table, NotYet,
     Evidence, Seen, Verdicts, Verdict, Bound, Answers, Published, Outcome,
     Reasons, RunTarget, Cancelled, Goto, JobKeeps, vars, service, requests,
     jobs
<1> QED BY <1>1, <1>2, <1>3 DEF IInv

\* WorkAborted keeps the invariant.
LEMMA WorkAbortedStep ==
    ASSUME IInv, NEW j \in Request, WorkAborted(j)
    PROVE  IInv'
<1>1. Typed'
  BY DEF IInv, Typed, Outcome, Reasons, WorkAborted, Cancelled, Goto,
     JobKeeps, vars, service, requests, jobs
<1>2. Table'
  BY DEF IInv, Typed, Table, LiveIsListed, OneLiveInput, ClosingStopsAll,
     Generations, Known, NotYet, Live, Exists, Complete, Reasons,
     WorkAborted, Cancelled, Goto, JobKeeps, vars, service, requests, jobs
<1>3. Evidence'
  BY NoneIsNoRequest DEF IInv, Typed, Table, NotYet, Evidence, Seen,
     Verdicts, Verdict, Bound, Answers, Published, Outcome, Reasons,
     WorkAborted, Cancelled, Goto, JobKeeps, vars, service, requests, jobs
<1> QED BY <1>1, <1>2, <1>3 DEF IInv

\* PostIdentity keeps the invariant.
LEMMA PostIdentityStep ==
    ASSUME IInv, NEW j \in Request, NEW o \in {"pass", "fail"}, PostIdentity(j, o)
    PROVE  IInv'
<1>1. Typed'
  BY TargetsArePositive DEF IInv, Typed, Outcome, Reasons, PostIdentity,
     Goto, JobKeeps, vars, service, requests, jobs
<1>2. Table'
  BY TargetsArePositive DEF IInv, Typed, Table, LiveIsListed, OneLiveInput,
     ClosingStopsAll, Generations, Known, NotYet, Live, Exists, Complete,
     Reasons, PostIdentity, Goto, JobKeeps, vars, service, requests, jobs
<1>3. Evidence'
  <2>1. source = jver[j] => saw[j] = {jver[j]}
    <3>1. ran[j] > 0
      BY TargetsArePositive DEF IInv, Typed, PostIdentity
    <3>2. saw[j] # {} /\ \A v \in saw[j] : v \in Nat /\ jver[j] <= v /\ v <= source
      BY <3>1 DEF IInv, Typed, Evidence, Seen
    <3>3. source = jver[j] => \A v \in saw[j] : v = jver[j]
      BY <3>2 DEF IInv, Typed
    <3> QED BY <3>2, <3>3
  <2>2. \/ result' = [result EXCEPT ![j] = "stale"] \/ result' = [result EXCEPT ![j] = "error"]
        \/ source = jver[j] /\ result' = [result EXCEPT ![j] = o]
    BY DEF PostIdentity
  <2>3. o = "pass" => ran[j] = NTargets
    BY DEF PostIdentity
  <2>4. Verdicts'
    BY <2>1, <2>2, <2>3 DEF IInv, Typed, Evidence, Verdicts, Verdict, PostIdentity, Goto, JobKeeps
  <2>5. Seen' /\ Bound'
    BY DEF IInv, Typed, Evidence, Seen, Bound, PostIdentity, Goto, JobKeeps, service, requests
  <2>6. Answers'
    BY DEF IInv, Typed, Evidence, Answers, Published, PostIdentity, Goto, JobKeeps, service, requests
  <2> QED BY <2>4, <2>5, <2>6 DEF Evidence
<1> QED BY <1>1, <1>2, <1>3 DEF IInv

\* Publish keeps the invariant.
LEMMA PublishStep ==
    ASSUME IInv, NEW j \in Request, Publish(j)
    PROVE  IInv'
<1>1. Typed'
  BY DEF IInv, Typed, Outcome, Reasons, Publish, Cancelled, Goto, JobKeeps,
     vars, service, requests, jobs
<1>2. Table'
  BY DEF IInv, Typed, Table, LiveIsListed, OneLiveInput, ClosingStopsAll,
     Generations, Known, NotYet, Live, Exists, Complete, Reasons, Publish,
     Cancelled, Goto, JobKeeps, vars, service, requests, jobs
<1>3. Evidence'
  BY NoneIsNoRequest DEF IInv, Typed, Table, NotYet, Evidence, Seen,
     Verdicts, Verdict, Bound, Answers, Published, Outcome, Reasons,
     Publish, Cancelled, Goto, JobKeeps, vars, service, requests, jobs
<1> QED BY <1>1, <1>2, <1>3 DEF IInv

\* Finish keeps the invariant.
LEMMA FinishStep ==
    ASSUME IInv, NEW j \in Request, Finish(j)
    PROVE  IInv'
<1>1. Typed'
  BY DEF IInv, Typed, Outcome, Reasons, Finish, Goto, JobKeeps, vars,
     service, requests, jobs
<1>2. Table'
  BY DEF IInv, Typed, Table, LiveIsListed, OneLiveInput, ClosingStopsAll,
     Generations, Known, NotYet, Live, Exists, Complete, Reasons, Finish,
     Goto, JobKeeps, vars, service, requests, jobs
<1>3. Evidence'
  BY NoneIsNoRequest DEF IInv, Typed, Table, NotYet, Evidence, Seen,
     Verdicts, Verdict, Bound, Answers, Published, Outcome, Reasons, Finish,
     Goto, JobKeeps, vars, service, requests, jobs
<1> QED BY <1>1, <1>2, <1>3 DEF IInv

\* Retire keeps the invariant.
LEMMA RetireStep ==
    ASSUME IInv, NEW j \in Request, Retire(j)
    PROVE  IInv'
<1>1. Typed'
  BY DEF IInv, Typed, Outcome, Reasons, Retire, Goto, JobKeeps, vars,
     service, requests, jobs
<1>2. Table'
  BY DEF IInv, Typed, Table, LiveIsListed, OneLiveInput, ClosingStopsAll,
     Generations, Known, NotYet, Live, Exists, Complete, Reasons, Retire,
     Goto, JobKeeps, vars, service, requests, jobs
<1>3. Evidence'
  BY NoneIsNoRequest DEF IInv, Typed, Table, NotYet, Evidence, Seen,
     Verdicts, Verdict, Bound, Answers, Published, Outcome, Reasons, Retire,
     Goto, JobKeeps, vars, service, requests, jobs
<1> QED BY <1>1, <1>2, <1>3 DEF IInv

-----------------------------------------------------------------------------
(* The invariant, and what follows from it.                                *)

\* The invariant holds initially.
LEMMA InitInv == Init => IInv
<1> SUFFICES ASSUME Init PROVE IInv
  OBVIOUS
<1>1. Typed
  BY NoneIsNoRequest DEF Init, Typed, Outcome, Reasons
<1>2. Table
  BY DEF Init, Table, LiveIsListed, OneLiveInput, ClosingStopsAll, Generations,
         Known, NotYet, Live, Exists, Complete
<1>3. Evidence
  BY DEF Init, Evidence, Seen, Verdicts, Verdict, Bound, Answers
<1> QED BY <1>1, <1>2, <1>3 DEF IInv

\* A step that changes nothing keeps it.
LEMMA StutterStep == ASSUME IInv, UNCHANGED vars PROVE IInv'
  BY DEF IInv, Typed, Table, Evidence, LiveIsListed, OneLiveInput,
     ClosingStopsAll, Generations, Known, NotYet, Seen, Verdicts, Verdict,
     Bound, Answers, Live, Exists, Complete, Published, vars, service,
     requests, jobs

\* Every step keeps the invariant.
LEMMA NextInv == ASSUME IInv, [Next]_vars PROVE IInv'
<1>1. CASE UNCHANGED vars
  BY <1>1, StutterStep
<1>2. CASE Edit \/ MarkDirty \/ Shutdown \/ CloseStep \/ Terminated
  BY <1>2, EditStep, MarkDirtyStep, ShutdownStep, CloseSchedulerStep,
     ClosedStep, TerminatedStep DEF CloseStep
<1>3. CASE \E r \in Request, c \in Command : Accept(r, c)
  BY <1>3, AcceptStep
<1>4. CASE \E r \in Request : ClientCancels(r) \/ RequestStep(r)
  BY <1>4, ClientCancelsStep, ForwardShutdownStep, PrepareStep,
     PrepareFailsStep, CancelledInPreflightStep, SubmitRefusedStep, JoinStep,
     CreateStep, SubscribeStep, ReceiveStep DEF RequestStep
<1>5. CASE \E j \in Request : QueueingFails(j) \/ JobStep(j)
  BY <1>5, QueueingFailsStep, AcquireLeasesStep, GiveUpQueueingStep,
     RunTargetStep, WorkAbortedStep, PostIdentityStep, PublishStep,
     FinishStep, RetireStep DEF JobStep
<1> QED BY <1>1, <1>2, <1>3, <1>4, <1>5 DEF Next

\* The inductive invariant holds of every state.
LEMMA InvHolds == Spec => []IInv
<1>1. Init => IInv
  BY InitInv
<1>2. IInv /\ [Next]_vars => IInv'
  BY NextInv
<1> QED BY <1>1, <1>2, PTL DEF Spec

\* Whatever is edited, joined, superseded or cancelled meanwhile: a pass or a
\* failure reported by tools/check.rs was reached by the request's own command
\* on exactly the sources its preflight hashed.
THEOREM VerdictsAreSound == Spec => []SoundEvidence
<1>1. IInv => SoundEvidence
  BY DEF IInv, Evidence, Answers, SoundEvidence
<1> QED BY <1>1, InvHolds, PTL

\* Two jobs the scheduler lets run are about the same sources.
THEOREM LiveJobsShareInput == Spec => []OneLiveInput
<1>1. IInv => OneLiveInput
  BY DEF IInv, Table
<1> QED BY <1>1, InvHolds, PTL

\* GateScheduler::close reaches every job, also those replaced in the table.
THEOREM CloseReachesEveryJob == Spec => []ClosingStopsAll
<1>1. IInv => ClosingStopsAll
  BY DEF IInv, Table
<1> QED BY <1>1, InvHolds, PTL

=============================================================================
