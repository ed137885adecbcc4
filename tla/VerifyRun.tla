------------------------------ MODULE VerifyRun ------------------------------
(***************************************************************************)
(* One call of the verify tool (tools/verify.rs): matrix_run, test_run or  *)
(* test_candidate, while the user edits the workspace, the client may      *)
(* cancel and the wall clock may pass maxWallMs.  What is planned is       *)
(* VerifyPlan's; a gate run is one step for its start and one for its end, *)
(* and a run that the source changed under reports STALE (GateScheduler's  *)
(* SoundEvidence).                                                         *)
(*                                                                         *)
(* The source is a version number; versions are never reused, and the      *)
(* workspace of version v is Shapes[v].                                    *)
(***************************************************************************)
EXTENDS VerifyPlan

CONSTANTS
  Shapes,             \* the workspace of each version of the source
  MatrixRequests,     \* [required, policy, facts, features, declared, maxCells]
  TestRequests,       \* [request, record, maxTests]
  CandidateRequests,  \* [repeats, patch]
  Changes,            \* change records: [state, revision, base, current, fix]
  Outputs             \* what a gate run may report: see Evidence below

VARIABLES
  source,             \* the version of the source on disk
  cancelled,          \* the client has cancelled the call
  expired,            \* maxWallMs has passed
  call,               \* the call
  change,             \* the record of the change test_candidate is about
  probe               \* the scratch change test_candidate makes

vars == <<source, cancelled, expired, call, change, probe>>

Ended == [pc |-> "ended"]
NoProbe == [state |-> "none"]
NoChange == [state |-> "none"]

\* The answer names each status; the verdict only tells these apart.
Told(status) == IF status \in {"PASS", "COMPILED", "FAIL", "COMPILE_FAIL"} THEN status ELSE "OTHER"

(***************************************************************************)
(* Reading a gate run.  Evidence is the record [status, buildFailed,       *)
(* steps, summaries, binaries, empty, lines]; a line of the output is      *)
(* [kind |-> "test", name, result] or [kind |-> "summary", passed, failed, *)
(* ignored]; expected tells whether the expected failure is in the text.   *)
(***************************************************************************)
Passing == {"FAST_PASS", "FULL_PASS"}

\* observe_test_output.
ObserveTestOutput(lines) ==
  LET step(o, l) ==
        IF l.kind = "test"
          THEN CASE l.result \in {"ok", "FAILED"} -> [o EXCEPT !.executed = @ \union {l.name}]
                 [] l.result = "ignored" -> [o EXCEPT !.ignoredNames = @ \union {l.name}]
                 [] OTHER -> o
          ELSE [o EXCEPT !.summary = TRUE, !.passed = @ + l.passed,
                         !.failed = @ + l.failed, !.ignored = @ + l.ignored]
  IN FoldLeft(step, [executed |-> {}, ignoredNames |-> {}, summary |-> FALSE,
                     passed |-> 0, failed |-> 0, ignored |-> 0], lines)

\* test_name_matches: observed names are paths, and the whole last segment
\* must be the requested name.
TestNameMatches(observed, requested) == Last(observed) = requested
Named(names, requested) == \E n \in names : TestNameMatches(n, requested)

\* map_gate_status.
MapGateStatus(status) ==
  CASE status \in Passing -> "PASS"
    [] status = "FAIL" -> "FAIL"
    [] status \in {"TIMEOUT", "CANCELLED", "RESOURCE_BLOCKED"} -> status
    [] status = "UNAVAILABLE" -> "RUNNER_UNAVAILABLE"
    [] OTHER -> "INCONCLUSIVE"

SuiteIsComplete(e, doctests) ==
  e.steps > 0 /\ ~ e.buildFailed /\ e.built /\ e.empty = 0 /\ e.summaries >= e.binaries + doctests

ClassifyPass(item, suite, e, o) ==
  CASE suite >= 0 /\ ~ (SuiteIsComplete(e, suite) /\ o.passed + o.failed > 0) -> "INCONCLUSIVE"
    [] item.compileOnly -> IF e.steps > 0 /\ e.built /\ ~ e.buildFailed THEN "COMPILED" ELSE "INCONCLUSIVE"
    [] item.exact # None /\ Named(o.ignoredNames, item.exact) -> "IGNORED_ONLY"
    [] ~ o.summary -> "INCONCLUSIVE"
    [] o.passed = 0 /\ o.failed = 0 -> IF o.ignored > 0 THEN "IGNORED_ONLY" ELSE "ZERO_MATCH"
    [] item.exact # None /\ ~ Named(o.executed, item.exact) -> "INCONCLUSIVE"
    [] OTHER -> "PASS"

\* classify_test_evidence.
ClassifyTestEvidence(item, suite, e) ==
  LET o == ObserveTestOutput(e.lines)
  IN CASE e.status = "FAIL" -> IF e.buildFailed THEN "COMPILE_FAIL" ELSE "FAIL"
       [] e.status \in Passing -> ClassifyPass(item, suite, e, o)
       [] e.status \in {"TIMEOUT", "CANCELLED"} -> e.status
       [] e.status = "UNAVAILABLE" -> "RUNNER_UNAVAILABLE"
       [] item.exact # None /\ Named(o.ignoredNames, item.exact) -> "IGNORED_ONLY"
       [] o.summary /\ o.passed = 0 /\ o.failed = 0 -> IF o.ignored > 0 THEN "IGNORED_ONLY" ELSE "ZERO_MATCH"
       [] OTHER -> "INCONCLUSIVE"

\* candidate_repeat: how one repeat of the contract's test came out.
CandidateRepeat(e) ==
  LET o == ObserveTestOutput(e.lines)
      exact == Named(o.executed, "contract")
      status == CASE e.status = "FAIL" -> IF e.buildFailed THEN "COMPILE_FAIL" ELSE "FAIL"
                  [] e.status \in Passing ->
                       (CASE o.passed = 0 /\ o.failed = 0 ->
                               IF o.ignored > 0 THEN "IGNORED_ONLY"
                               ELSE IF o.summary THEN "ZERO_MATCH" ELSE "INCONCLUSIVE"
                          [] ~ exact -> "INCONCLUSIVE"
                          [] OTHER -> "PASS")
                  [] e.status \in {"TIMEOUT", "CANCELLED"} -> e.status
                  [] e.status = "UNAVAILABLE" -> "RUNNER_UNAVAILABLE"
                  [] OTHER -> "INCONCLUSIVE"
  IN [status |-> Told(status), exact |-> exact, expected |-> e.expected]

\* A gate run that started at version v: stale when the source has moved.
GateReports(v, e) == IF source = v THEN e ELSE [e EXCEPT !.status = "STALE"]

(***************************************************************************)
(* The call begins; the environment.                                       *)
(***************************************************************************)
Init ==
  /\ source = 1
  /\ cancelled = FALSE
  /\ expired = FALSE
  /\ probe = NoProbe
  /\ call \in {[pc |-> "plan", kind |-> "matrix", ask |-> m] : m \in MatrixRequests}
              \union {[pc |-> "identify", kind |-> "tests", ask |-> t] : t \in TestRequests}
              \union {[pc |-> "read", kind |-> "candidate", ask |-> c] : c \in CandidateRequests}
  /\ IF call.kind = "candidate" THEN change \in Changes ELSE change = NoChange

Edit ==
  /\ call.pc # "ended"
  /\ source < Len(Shapes)
  /\ source' = source + 1
  /\ UNCHANGED <<cancelled, expired, call, change, probe>>

ClientCancels ==
  /\ call.pc # "ended" /\ ~ cancelled
  /\ cancelled' = TRUE
  /\ UNCHANGED <<source, expired, call, change, probe>>

Expire ==
  /\ call.pc # "ended" /\ call.kind # "candidate" /\ ~ expired
  /\ expired' = TRUE
  /\ UNCHANGED <<source, cancelled, call, change, probe>>

\* The change under test is staged again by another call.
Restage ==
  /\ call.pc # "ended" /\ call.kind = "candidate"
  /\ change.revision = 1
  /\ change' = [change EXCEPT !.revision = 2, !.fix = "other"]
  /\ UNCHANGED <<source, cancelled, expired, call, probe>>

Ends(outcome) ==
  /\ call' = Ended @@ [kind |-> call.kind, ask |-> call.ask] @@ outcome
  /\ UNCHANGED <<source, cancelled, expired, change>>

(***************************************************************************)
(* matrix_run.                                                             *)
(***************************************************************************)
PlanMatrix ==
  /\ call.pc = "plan" /\ call.kind = "matrix"
  /\ LET a == call.ask
     IN call' = [pc |-> "cells", kind |-> "matrix", ask |-> a, executed |-> 0, spent |-> FALSE, done |-> <<>>,
                 plan |-> BuildPlan(a.required, a.policy, a.facts, a.features, a.declared, a.maxCells)]
  /\ UNCHANGED <<source, cancelled, expired, change, probe>>

\* The snapshot, or the identity, cannot be had: the call ends with its status.
SnapshotFails ==
  /\ call.pc \in {"plan", "identify"}
  /\ Ends([status |-> IF cancelled THEN "CANCELLED" ELSE "UNAVAILABLE", runs |-> <<>>, missing |-> TRUE])
  /\ UNCHANGED probe

MoreCells == call.pc = "cells" /\ Len(call.done) < Len(call.plan.cells)
NextCell == call.plan.cells[Len(call.done) + 1]
Done(cell, status) == Append(call.done, [cell |-> cell, status |-> Told(status)])

\* A cell that is not started: the client has cancelled, or the budget is spent.
SkipCell ==
  /\ MoreCells
  /\ \/ /\ cancelled
        /\ call' = [call EXCEPT !.done = Done(NextCell, "SKIPPED_CANCELLED")]
     \/ /\ ~ cancelled
        /\ call.spent \/ call.executed >= call.ask.maxCells \/ expired
        /\ call' = [call EXCEPT !.done = Done(NextCell, "SKIPPED_BUDGET"), !.spent = TRUE]
  /\ UNCHANGED <<source, cancelled, expired, change, probe>>

StartCell ==
  /\ MoreCells /\ ~ cancelled
  /\ ~ (call.spent \/ call.executed >= call.ask.maxCells \/ expired)
  /\ call' = [call EXCEPT !.pc = "cell"] @@ [from |-> source]
  /\ UNCHANGED <<source, cancelled, expired, change, probe>>

\* After check.run: the client's cancellation, then the timer, then the gate.
CellStatus(e) ==
  IF cancelled THEN "CANCELLED"
  ELSE IF expired THEN "SKIPPED_BUDGET"
  ELSE MapGateStatus(e.status)

EndCell ==
  /\ call.pc = "cell"
  /\ \E out \in Outputs :
       LET e == GateReports(call.from, out)
       IN call' = [call EXCEPT !.pc = "cells", !.executed = @ + 1,
                     !.spent = @ \/ (~ cancelled /\ expired),
                     !.done = Done(NextCell, CellStatus(e))]
  /\ UNCHANGED <<source, cancelled, expired, change, probe>>

Completed == {"PASS", "FAIL"}

\* The end of run_plan: complete when nothing was skipped or left undone.
FinishMatrix ==
  /\ call.pc = "cells" /\ ~ MoreCells
  /\ LET missing == call.plan.skipped # {} \/ \E i \in DOMAIN call.done : call.done[i].status \notin Completed
         complete == ~ missing /\ call.done # <<>>
     IN Ends([status |-> IF complete THEN "FULL_REQUESTED_MATRIX" ELSE "PARTIAL",
              missing |-> missing, runs |-> call.done,
              allPass |-> complete /\ \A i \in DOMAIN call.done : call.done[i].status = "PASS"])
  /\ UNCHANGED probe

(***************************************************************************)
(* test_run.                                                               *)
(***************************************************************************)

\* execute_test: the identity is captured before the inventory is read.
Identify ==
  /\ call.pc = "identify"
  /\ call' = [call EXCEPT !.pc = "inventory"] @@ [identity |-> source]
  /\ UNCHANGED <<source, cancelled, expired, change, probe>>

\* The snapshot and build_test_plan: the canonical suite, or item by item.
PlanTests ==
  /\ call.pc = "inventory"
  /\ LET a == call.ask
         plan == BuildTestPlan(Shapes[source], a.request, a.record, a.maxTests)
         suite == Item(0, None, None, "suite", a.request.target, None, FALSE)
     IN call' = [pc |-> "items", kind |-> "tests", ask |-> a, plan |-> plan,
                 identity |-> call.identity,
                 todo |-> IF plan.suite >= 0 THEN {suite} ELSE plan.items, done |-> {}]
  /\ UNCHANGED <<source, cancelled, expired, change, probe>>

NextItems == {i \in call.todo : \A j \in call.todo : i.rank <= j.rank}
Ran(item, status, version) == call.done \union {[item |-> item, status |-> Told(status), version |-> version]}

SkipItem ==
  /\ call.pc = "items" /\ call.todo # {}
  /\ cancelled \/ expired
  /\ LET i == CHOOSE x \in NextItems : TRUE
     IN call' = [call EXCEPT !.todo = @ \ {i},
                   !.done = Ran(i, IF cancelled THEN "CANCELLED" ELSE "SKIPPED_BUDGET", 0)]
  /\ UNCHANGED <<source, cancelled, expired, change, probe>>

StartItem ==
  /\ call.pc = "items" /\ call.todo # {}
  /\ ~ (cancelled \/ expired)
  /\ call' = [call EXCEPT !.pc = "item"] @@ [from |-> source]
  /\ UNCHANGED <<source, cancelled, expired, change, probe>>

\* run_test_item: a failed scope does not stop the others.
EndItem ==
  /\ call.pc = "item"
  /\ LET i == CHOOSE x \in NextItems : TRUE
     IN \E out \in Outputs :
          LET e == GateReports(call.from, out)
          IN call' = [call EXCEPT !.pc = "items", !.todo = @ \ {i},
                        !.done = Ran(i, ClassifyTestEvidence(i, IF i.kind = "suite" THEN call.plan.suite ELSE -1, e),
                                     call.from)]
  /\ UNCHANGED <<source, cancelled, expired, change, probe>>

\* Mutant: the final identity is not compared.
SuiteStatus_NoRecheck(statuses, stale, plan) ==
  IF plan.full /\ plan.suite >= 0 /\ statuses = {"PASS"} THEN "FULL_REQUESTED_SUITE" ELSE "TESTED_SUBSET"

\* The status of a test run: what was not run, or did not pass, is missing.
SuiteStatus(statuses, stale, plan) ==
  CASE stale -> "STALE"
    [] statuses = {} -> "INCONCLUSIVE"
    [] statuses \intersect {"FAIL", "COMPILE_FAIL"} # {} -> "FAIL"
    [] /\ statuses \subseteq {"PASS", "COMPILED"} /\ "PASS" \in statuses
       /\ plan.full /\ plan.suite >= 0 /\ plan.skipped = {} -> "FULL_REQUESTED_SUITE"
    [] "PASS" \in statuses -> "TESTED_SUBSET"
    [] OTHER -> "INCONCLUSIVE"

FinishTests ==
  /\ call.pc = "items" /\ call.todo = {}
  /\ \/ LET statuses == {r.status : r \in call.done}
            stale == source # call.identity
        IN Ends([status |-> SuiteStatus(statuses, stale, call.plan), plan |-> call.plan, runs |-> call.done,
                 missing |-> \/ stale
                             \/ call.plan.skipped # {}
                             \/ ~ statuses \subseteq {"PASS", "COMPILED"}])
     \/ Ends([status |-> IF cancelled THEN "CANCELLED" ELSE "UNAVAILABLE", plan |-> call.plan,
              runs |-> call.done, missing |-> TRUE])
  /\ UNCHANGED probe

(***************************************************************************)
(* test_candidate.  A patch is the record [removes, ignores, weakens,      *)
(* narrows, provides]; the fix of a change is a name, and Harms tells the  *)
(* fixes that delete tests or weaken them.                                 *)
(***************************************************************************)
Harms(fix) == fix = "harmful"

\* analyze_test_patch and patch_provides_test.
PatchDetected(patch) ==
  patch.removes \/ patch.ignores \/ patch.weakens \/ patch.narrows \/ ~ patch.provides

Fails(status) == [status |-> status, baseline |-> <<>>, candidate |-> <<>>]

\* The checks of candidate_flow before a probe is made.
ReadChange ==
  /\ call.pc = "read"
  /\ \/ change.state = "READY" /\ change.revision > 0 /\ change.current /\ ~ PatchDetected(call.ask.patch)
        /\ call' = [call EXCEPT !.pc = "create"] @@ [record |-> change]
        /\ UNCHANGED <<source, cancelled, expired, change>>
     \/ change.state = "READY" /\ change.revision > 0 /\ change.current /\ PatchDetected(call.ask.patch)
        /\ Ends(Fails("REJECTED"))
     \/ change.state # "READY" /\ Ends(Fails("FAILED_INCONSISTENT"))
     \/ change.state = "READY" /\ (change.revision = 0 \/ ~ change.current) /\ Ends(Fails("STALE"))
  /\ UNCHANGED probe

\* change create: the workspace as it is now becomes the probe's base.
CreateProbe ==
  /\ call.pc = "create"
  /\ \/ /\ ~ cancelled
        /\ probe' = [state |-> "live", tree |-> [base |-> source, test |-> FALSE, fix |-> None]]
        /\ call' = IF source = call.record.base
                     THEN [call EXCEPT !.pc = "stage"]
                     ELSE [call EXCEPT !.pc = "discard"] @@ [outcome |-> Fails("STALE")]
        /\ UNCHANGED <<source, cancelled, expired, change>>
     \/ Ends(Fails(IF cancelled THEN "CANCELLED" ELSE "INCONCLUSIVE")) /\ UNCHANGED probe

Discarding(outcome) == [call EXCEPT !.pc = "discard"] @@ [outcome |-> outcome]

StageTest ==
  /\ call.pc = "stage"
  /\ \/ /\ ~ cancelled
        /\ probe' = [probe EXCEPT !.tree.test = TRUE]
        /\ call' = [call EXCEPT !.pc = "baseline"] @@ [baseline |-> <<>>, candidate |-> <<>>]
     \/ call' = Discarding(Fails("INCONCLUSIVE")) /\ UNCHANGED probe
  /\ UNCHANGED <<source, cancelled, expired, change>>

\* One repeat of run_candidate_side on the probe's tree; a cancelled call adds
\* one CANCELLED repeat and stops.
Repeat(side) ==
  /\ call.pc = side
  /\ Len(call[side]) < call.ask.repeats
  /\ LET row(r) == r @@ [tree |-> probe.tree]
         stopped == row([status |-> Told("CANCELLED"), exact |-> FALSE, expected |-> FALSE])
         next == IF side = "baseline" THEN "fix" ELSE "evaluate"
     IN \/ /\ cancelled
           /\ call' = [call EXCEPT ![side] = Append(@, stopped), !.pc = next]
        \/ /\ ~ cancelled
           /\ \E e \in Outputs :
                LET rows == Append(call[side], row(CandidateRepeat(e)))
                IN call' = [call EXCEPT ![side] = rows,
                              !.pc = IF Len(rows) = call.ask.repeats THEN next ELSE side]
  /\ UNCHANGED <<source, cancelled, expired, change, probe>>
Baseline == Repeat("baseline")
Candidate == Repeat("candidate")

\* The fix recorded at the revision read first is staged on the test; the
\* markers of before and after are compared.
StageFix ==
  /\ call.pc = "fix"
  /\ \/ /\ ~ cancelled
        /\ probe' = [probe EXCEPT !.tree.fix = call.record.fix]
        /\ call' = IF Harms(call.record.fix) THEN Discarding(Fails("REJECTED"))
                                             ELSE [call EXCEPT !.pc = "candidate"]
     \/ call' = Discarding(Fails("INCONCLUSIVE")) /\ UNCHANGED probe
  /\ UNCHANGED <<source, cancelled, expired, change>>

\* Mutant: any failure of the baseline counts as the expected one.
EvaluateCandidate_AnyFailure(baseline, candidate, repeats) ==
  IF /\ \A i \in DOMAIN baseline : baseline[i].status \in {"FAIL", "COMPILE_FAIL"}
     /\ \A i \in DOMAIN candidate : candidate[i].status = "PASS"
    THEN "SATISFIED" ELSE "VIOLATED"

\* evaluate_candidate.
EvaluateCandidate(baseline, candidate, repeats) ==
  LET caught == Cardinality({i \in DOMAIN baseline :
                  baseline[i].status = "FAIL" /\ baseline[i].expected /\ baseline[i].exact})
      passed == Cardinality({i \in DOMAIN candidate : candidate[i].status = "PASS"})
  IN CASE \E i \in DOMAIN baseline : baseline[i].status = "COMPILE_FAIL" -> "BASELINE_INCOMPATIBLE"
       [] (caught > 0 /\ caught < repeats) \/ (passed > 0 /\ passed < repeats) -> "INCONCLUSIVE"
       [] caught = repeats /\ passed = repeats -> "SATISFIED"
       [] OTHER -> "VIOLATED"

Evaluate ==
  /\ call.pc = "evaluate"
  /\ call' = Discarding([status |-> EvaluateCandidate(call.baseline, call.candidate, call.ask.repeats),
                         baseline |-> call.baseline, candidate |-> call.candidate])
  /\ UNCHANGED <<source, cancelled, expired, change, probe>>

\* test_candidate: the probe is discarded whatever happened, with a token of
\* its own; a cleanup that fails is reported.
DiscardProbe ==
  /\ call.pc = "discard"
  /\ \E gone \in BOOLEAN :
       /\ probe' = IF gone THEN [probe EXCEPT !.state = "discarded"] ELSE probe
       /\ Ends(call.outcome @@ [record |-> call.record, warned |-> ~ gone])

Next ==
  \/ Edit \/ ClientCancels \/ Expire \/ Restage
  \/ PlanMatrix \/ SnapshotFails \/ SkipCell \/ StartCell \/ EndCell \/ FinishMatrix
  \/ Identify \/ PlanTests \/ SkipItem \/ StartItem \/ EndItem \/ FinishTests
  \/ ReadChange \/ CreateProbe \/ StageTest \/ Baseline \/ StageFix \/ Candidate
  \/ Evaluate \/ DiscardProbe

Spec == Init /\ [][Next]_vars
-----------------------------------------------------------------------------
(***************************************************************************)
(* Properties.                                                             *)
(***************************************************************************)

\* The tests a workspace has: its members' test targets and doctests.
AllTests(ws) ==
  UNION {{<<p, t.name, "test">> : t \in {u \in ws.packages[p].targets : u.test /\ u.kind \in TestKinds}}
         \union {<<p, t.name, "doctest">> : t \in {u \in ws.packages[p].targets : SupportsDoctests(u)}}
         : p \in Members(ws)}

\* The members that reach package p, p included.
Consumers(ws, p) ==
  {q \in Members(ws) : q = p \/ \E n \in 1..Cardinality(DOMAIN ws.packages) :
     \E path \in [1..n -> DOMAIN ws.packages] :
       path[1] = q /\ p \in ws.packages[path[n]].deps
       /\ \A i \in 1..n - 1 : path[i + 1] \in ws.packages[path[i]].deps}

\* The answer FULL_REQUESTED_MATRIX covers every feature group, stage and
\* foreign target that was asked for (and, when no stage was, each stage of
\* the project's policy), each run to the end, and all_pass means
\* each passed (run_plan: "skipped or incomplete cells never grant a pass").
MatrixIsWhole ==
  (call.pc = "ended" /\ call.kind = "matrix" /\ call.status = "FULL_REQUESTED_MATRIX") =>
    LET ran(cell) == \E i \in DOMAIN call.runs :
                       /\ call.runs[i].cell = cell /\ call.runs[i].status \in Completed
                       /\ call.allPass => call.runs[i].status = "PASS"
        asked == call.ask.required
        own == ToSet(call.ask.policy.stages)
        stages == IF asked.stages # <<>> THEN ToSet(asked.stages)
                  ELSE IF own # {} THEN own ELSE {"check"}
    IN /\ \A i \in DOMAIN asked.groups, s \in stages : ran(Cell(ToSet(asked.groups[i]), FALSE, None, None, s))
       /\ asked.default => \A s \in stages : ran(Cell({}, FALSE, None, None, s))
       /\ \A i \in DOMAIN asked.targets : ran(Cell({}, FALSE, asked.targets[i], None, "check"))

\* A test run that says the suite is full and passed ran every test of the
\* workspace as it is at the end, and one with nothing missing ran every test
\* of every package that depends on what changed, all on one source state.
SuiteIsWhole ==
  (call.pc = "ended" /\ call.kind = "tests" /\ call.status \in {"FULL_REQUESTED_SUITE", "TESTED_SUBSET"}) =>
    LET planned == {<<i.package, i.target, IF i.kind = "doctest" THEN "doctest" ELSE "test">> :
                      i \in {j \in call.plan.items : ~ j.compileOnly}}
        versions == {r.version : r \in {q \in call.runs : q.status \in {"PASS", "COMPILED"}}}
        all == AllTests(Shapes[source])
        due(path) == {t \in all : t[1] \in Consumers(Shapes[source], OwnerNode(Shapes[source], path))}
    IN /\ Cardinality(versions) <= 1
       /\ call.status = "FULL_REQUESTED_SUITE" => (all \subseteq planned /\ versions = {source})
       /\ (~ call.missing /\ ~ call.plan.explicit) =>
            \A path \in (IF call.ask.record # {} THEN call.ask.record ELSE call.ask.request.paths) :
              due(path) \subseteq planned

\* What verify calls the whole matrix or the whole suite is the whole of it.
VerifiedIsWhole == MatrixIsWhole /\ SuiteIsWhole

\* SATISFIED means that the same test, on the same base, failed as the
\* contract says in every repeat without the fix and passed in every repeat
\* with the fix of the revision the answer names, a fix that takes no test
\* away.  The base is that of the change; that the workspace still has it is
\* compared when the probe is captured, and edits after that are not seen.  And
\* whatever the answer, no probe is left behind unreported.
CandidateIsProved ==
  (call.pc = "ended" /\ call.kind = "candidate") =>
    /\ probe.state = "live" => call.warned
    /\ call.status = "SATISFIED" =>
         LET n == call.ask.repeats
             base == [base |-> call.record.base, test |-> TRUE, fix |-> None]
         IN /\ Len(call.baseline) = n /\ Len(call.candidate) = n
            /\ \A i \in 1..n :
                 /\ call.baseline[i].status = "FAIL" /\ call.baseline[i].expected /\ call.baseline[i].exact
                 /\ call.baseline[i].tree = base
                 /\ call.candidate[i].status = "PASS" /\ call.candidate[i].exact
                 /\ call.candidate[i].tree = [base EXCEPT !.fix = call.record.fix]
            /\ ~ Harms(call.record.fix)
=============================================================================
