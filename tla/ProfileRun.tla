------------------------------ MODULE ProfileRun ------------------------------
(***************************************************************************)
(* profile build_analyze and build_compare (tools/profile.rs), one call at *)
(* a time, while the user edits the workspaces, the client changes its     *)
(* roots, cancels, and the wall budget passes.  Records are retained       *)
(* between calls and are what a later comparison is made of: the behaviour *)
(* starts with the records that earlier calls have left.                   *)
(*                                                                         *)
(* A gate run is a job that other callers of the same input may have       *)
(* joined: each of them assembles a record of its own from it, under an    *)
(* id of its own.                                                          *)
(*                                                                         *)
(* The source of a root is a version number, never reused; a gate run that *)
(* the source changed under reports STALE (GateScheduler's SoundEvidence). *)
(***************************************************************************)
EXTENDS ProfileReport

CONSTANTS
  Roots,            \* workspace roots
  Asks,             \* requests: [root, change, options]
  Named,            \* the baselineEvidence lists a caller may send
  Outputs,          \* what a gate run may report: see GateEnds
  CompareSamples,   \* profile.compare_samples
  MaxRuns,          \* budget.maxRuns, clamped
  Earlier,          \* the records earlier calls may have retained: sequences
  MaxRetained,      \* MAX_RETAINED_EVIDENCE
  MaxDepth,         \* MAX_CRITICAL_PATH_DEPTH
  MaxReportBytes,   \* budget.maxReportBytes, clamped
  MaxUnits,         \* MAX_TIMING_UNITS
  MaxCalls,         \* bound on the calls of a behaviour
  MaxMoves          \* bound on edits and changes of the roots


VARIABLES
  source,           \* the version of each root
  epoch,            \* the roots epoch
  cancelled,        \* the client cancelled the call
  expired,          \* the call's deadline has passed
  toolchain,        \* the cached toolchain condition
  evidence,         \* the retained records, oldest first
  ids,              \* evidence ids so far
  calls,            \* calls so far
  moves,            \* edits and changes of the roots so far
  call              \* the call

vars == <<source, epoch, cancelled, expired, toolchain, evidence, ids, calls, moves, call>>
world == <<source, epoch, cancelled, expired>>
kept == <<toolchain, evidence, ids>>
counts == <<calls, moves>>

Idle == [pc |-> "idle"]
Running == call.pc \in {"probe", "start", "gate"}

Init ==
  /\ evidence \in Earlier
  /\ ids = Len(evidence) /\ calls = 0 /\ moves = 0
  /\ toolchain = IF evidence = <<>> THEN "none" ELSE evidence[1].toolchain
  /\ source = [r \in Roots |-> Max({1} \union {x.input : x \in {y \in Elements(evidence) : y.root = r}})]
  /\ epoch = Max({1} \union {x.epoch : x \in Elements(evidence)})
  /\ cancelled = FALSE /\ expired = FALSE
  /\ call = Idle

(***************************************************************************)
(* The environment.                                                        *)
(***************************************************************************)
\* A bound: no call sees what happens after the last one was answered.
Noticed == (Running \/ calls < MaxCalls) /\ moves < MaxMoves /\ moves' = moves + 1
Edit(r) ==
  /\ Noticed
  /\ source' = [source EXCEPT ![r] = @ + 1]
  /\ UNCHANGED <<epoch, cancelled, expired, kept, calls, call>>

RootsChange ==
  /\ Noticed
  /\ epoch' = epoch + 1
  /\ UNCHANGED <<source, cancelled, expired, kept, calls, call>>

ClientCancels ==
  /\ Running /\ ~ cancelled
  /\ cancelled' = TRUE
  /\ UNCHANGED <<source, epoch, expired, kept, counts, call>>

Expire ==
  /\ Running /\ ~ expired
  /\ expired' = TRUE
  /\ UNCHANGED <<source, epoch, cancelled, kept, counts, call>>

(***************************************************************************)
(* A call begins.  Both actions take the roots and the epoch once.         *)
(***************************************************************************)
Request(kind, ask) == ask @@ [kind |-> kind, epoch |-> epoch]

Answers(request, comparison) ==
  /\ call' = [pc |-> "answered", request |-> request, comparison |-> comparison]
  /\ cancelled' = FALSE /\ expired' = FALSE

Inconclusive == [claim |-> "INCONCLUSIVE", baseline |-> <<>>, candidate |-> <<>>]

Samples(request, baseline, left) ==
  [pc |-> "probe", request |-> request, baseline |-> baseline, candidate |-> <<>>, left |-> left]

Analyze(ask) ==
  /\ ~ Running /\ calls < MaxCalls
  /\ calls' = calls + 1
  /\ call' = Samples(Request("analyze", ask), <<>>, 1)
  /\ UNCHANGED <<world, kept, moves>>

\* lookup: the retained record of an id.
Lookup(id) == SelectSeq(evidence, LAMBDA r : r.id = id)

\* compare, up to the first sample: the named records, each once.
Compare(ask, named) ==
  LET request == Request("compare", ask)
      unique == FoldLeft(LAMBDA s, id : IF \E k \in DOMAIN s : s[k] = id THEN s ELSE Append(s, id), <<>>, named)
      baseline == CompleteRecords(FlattenSeq([k \in DOMAIN unique |-> Lookup(unique[k])]))
      candidates == Min({CompareSamples, MaxRuns})
  IN /\ ~ Running /\ calls < MaxCalls
     /\ calls' = calls + 1
     /\ UNCHANGED <<kept, moves>>
     /\ IF \E k \in DOMAIN unique : Lookup(unique[k]) = <<>>
          THEN Answers(request, Inconclusive) /\ UNCHANGED <<source, epoch>>
        ELSE IF baseline = <<>> /\ named # <<>>
          THEN Answers(request, BuildComparison(<<>>, <<>>, request, CompareSamples)) /\ UNCHANGED <<source, epoch>>
        ELSE IF baseline = <<>>
          THEN call' = [Samples(request, <<>>, 1) EXCEPT !.request.kind = "baseline"] /\ UNCHANGED world
        ELSE IF SideBindingProblem(baseline, request)
          THEN Answers(request, BuildComparison(baseline, <<>>, request, CompareSamples)) /\ UNCHANGED <<source, epoch>>
        ELSE call' = Samples(request, baseline, candidates) /\ UNCHANGED world

(***************************************************************************)
(* One sample: analyze_with_deadline.                                      *)
(***************************************************************************)
\* toolchain, probe_toolchain: the first answer is kept, whatever it is.
Probe ==
  /\ call.pc = "probe"
  /\ \E t \in {"stable", "unavailable"} :
       /\ toolchain = "none" => ((cancelled \/ expired) => t = "unavailable")
       /\ toolchain # "none" => t = toolchain
       /\ toolchain' = t
       /\ call' = [call EXCEPT !.pc = "start"] @@ [toolchain |-> t]
  /\ UNCHANGED <<world, evidence, ids, counts>>

GateStarts ==
  /\ call.pc = "start"
  /\ call' = [call EXCEPT !.pc = "gate"] @@ [input |-> source[call.request.root]]
  /\ UNCHANGED <<world, kept, counts>>

\* What the run reports: a token that was cancelled by the client or by the
\* budget timer may be seen or come too late.
GateStatus(e) ==
  (IF source[call.request.root] # call.input THEN {"STALE"} ELSE {e.status})
  \union (IF cancelled \/ expired THEN {"CANCELLED"} ELSE {})

\* assemble_record: e is [status, steps, wall, admission, build, changed,
\* artifact, stored].  evidence_id salts the job's id with the time, so every
\* caller of one run has an id of its own.
AssembleRecord(e, status) ==
  [id |-> ids + 1, run |-> ids + 1,
   status |-> IF expired /\ status \in {"CANCELLED", "TIMEOUT"} THEN "BUDGET_EXHAUSTED" ELSE ProfileStatus(status),
   root |-> call.request.root, epoch |-> call.request.epoch, change |-> call.request.change,
   options |-> call.request.options, input |-> call.input, toolchain |-> call.toolchain,
   cache |-> CacheState(e.build), cargo |-> CargoPhaseMs(e.steps),
   wall |-> ComparableWallMs(e.wall, IF call.request.kind = "analyze" THEN e.admission ELSE 0)]

\* timings_report, expensive_units, explain: what analyze tells of the run.
Report(e, status) ==
  LET parsed == IF e.build.available /\ ReadTimingArtifact(e.artifact, MaxReportBytes)
                  THEN ExtractTimingUnits(e.artifact, MaxUnits) ELSE <<>>
  IN [path |-> BuildCriticalPath(parsed, MaxDepth), expensive |-> ExpensiveUnits(parsed, MaxDepth),
      available |-> parsed # <<>> /\ e.stored,
      explained |-> Explain(e.build, e.changed, FALSE, status)]

\* The record of a build_analyze call that joined the run (GateScheduler's
\* Join): it has its own id and none of this caller's cancellation.
JoinedRecord(e, record) ==
  [record EXCEPT !.id = @ + 1, !.wall = ComparableWallMs(e.wall, e.admission),
     !.status = ProfileStatus(IF source[record.root] # record.input THEN "STALE" ELSE e.status)]

\* retain.
Retain(records, record) ==
  LET s == Append(records, record) IN IF Len(s) > MaxRetained THEN Tail(s) ELSE s

\* compare, after a sample: baseline sides need a COMPLETE record, candidate
\* samples go on until their number or the deadline is reached.
AfterSample(record, report) ==
  LET request == call.request
      asked == [request EXCEPT !.kind = "compare"]
      candidates == Min({CompareSamples, MaxRuns - 1})
  IN CASE request.kind = "analyze" -> Answers(request, Inconclusive @@ [report |-> report])
       [] request.kind = "baseline" /\ (record.status # "COMPLETE" \/ SideBindingProblem(<<record>>, asked)) ->
            Answers(asked, BuildComparison(<<>>, <<>>, asked, CompareSamples))
       [] request.kind = "baseline" /\ (candidates = 0 \/ expired) -> Answers(asked, Inconclusive)
       [] request.kind = "baseline" ->
            call' = Samples(asked, <<record>>, candidates) /\ UNCHANGED <<cancelled, expired>>
       [] OTHER ->
            LET taken == Append(call.candidate, record)
                complete == CompleteRecords(taken)
            IN IF call.left > 1 /\ ~ expired
                 THEN /\ call' = [Samples(request, call.baseline, call.left - 1) EXCEPT !.candidate = taken]
                      /\ UNCHANGED <<cancelled, expired>>
                 ELSE Answers(request, IF complete = <<>> THEN Inconclusive
                                       ELSE BuildComparison(call.baseline, complete, request, CompareSamples))

\* joined: another call waited for the same run and retains its own record.  A
\* bound: no second joined run while the records of one are retained.
Joinable == \A k \in DOMAIN evidence : evidence[k].id = evidence[k].run
GateEnds(e, joined) ==
  /\ call.pc = "gate" /\ (joined => Joinable)
  /\ ids' = ids + (IF joined THEN 2 ELSE 1)
  /\ \E status \in GateStatus(e) :
       LET record == AssembleRecord(e, status)
           retained == Retain(evidence, record)
       IN /\ evidence' = IF joined THEN Retain(retained, JoinedRecord(e, record)) ELSE retained
          /\ AfterSample(record, Report(e, status))
  /\ UNCHANGED <<source, epoch, toolchain, counts>>

\* The bounds are reached.
Stop ==
  /\ ~ Running /\ calls = MaxCalls
  /\ UNCHANGED vars

Next ==
  \/ \E r \in Roots : Edit(r)
  \/ RootsChange
  \/ ClientCancels
  \/ Expire
  \/ \E ask \in Asks : Analyze(ask) \/ \E named \in Named : Compare(ask, named)
  \/ Probe
  \/ GateStarts
  \/ \E e \in Outputs, joined \in BOOLEAN : GateEnds(e, joined)
  \/ Stop

Spec == Init /\ [][Next]_vars

(***************************************************************************)
(* Properties.                                                             *)
(***************************************************************************)
\* A speed claim is earned (compare, build_comparison): it rests on
\* compare_samples records of each side with different ids, and on as many
\* different gate runs on the candidate's side, whose samples the call takes one
\* after another; every sample of a side was measured on one version of the
\* source and the two versions differ, all of them in the workspace and under
\* the roots the call was about and by a known toolchain, however the source,
\* the roots and the retained records moved between the samples; and the
\* claimed side has the smaller median.  The records that a caller names as
\* the baseline need not come from different runs: two calls that joined one
\* gate job leave two ids of one measurement, and complete_records tells them
\* apart by id alone.
SpeedClaimIsEarned ==
  call.pc = "answered" /\ call.comparison.claim \in {"candidate-faster", "baseline-faster"} =>
    LET b == call.comparison.baseline
        c == call.comparison.candidate
        both == Elements(b) \union Elements(c)
        cost(side) == Median([k \in DOMAIN side |-> side[k].cargo])
    IN /\ \A side \in {Elements(b), Elements(c)} :
            /\ Cardinality({r.id : r \in side}) >= Max({2, CompareSamples})
            /\ Cardinality({r.input : r \in side}) = 1
       /\ Cardinality({r.run : r \in Elements(c)}) >= Max({2, CompareSamples})
       /\ b[1].input # c[1].input
       /\ \A r \in both : /\ r.status = "COMPLETE"
                          /\ r.root = call.request.root /\ r.epoch = call.request.epoch
                          /\ r.toolchain = b[1].toolchain /\ r.toolchain # "unavailable"
                          /\ r.options = b[1].options /\ r.cache = b[1].cache
       /\ IF call.comparison.claim = "candidate-faster" THEN cost(c) < cost(b) ELSE cost(b) < cost(c)
===============================================================================
