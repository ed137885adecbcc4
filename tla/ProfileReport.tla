---------------------------- MODULE ProfileReport ----------------------------
(***************************************************************************)
(* The pure part of the profile tool (tools/profile.rs, tools/runtime.rs,  *)
(* change/runtime.rs): what is read from a gate run, the critical path of  *)
(* Cargo's timing report, the conditions under which two sides may be      *)
(* compared, the two verdicts, and the two snapshots of a change.          *)
(*                                                                         *)
(* Durations are natural numbers and NotObserved stands for None.  A       *)
(* process runs on one machine, so the hardware class is not a field.      *)
(***************************************************************************)
EXTENDS Integers, Sequences, FiniteSets, SequencesExt, FiniteSetsExt

NotObserved == -1
Smaller(a, b) == a < b
Elements(s) == {s[i] : i \in DOMAIN s}
Sum(s) == FoldLeft(LAMBDA a, b : a + b, 0, s)

\* median: the upper one of the two middle values.
Median(values) == IF values = <<>> THEN NotObserved ELSE SortSeq(values, Smaller)[Len(values) \div 2 + 1]

\* noisy, max_relative_spread: a spread of more than half the median.
Spread(values) == IF values = <<>> THEN 0 ELSE Max(Elements(values)) - Min(Elements(values))
Noisy(values) == Median(values) > 0 /\ 2 * Spread(values) > Median(values)

(***************************************************************************)
(* Reading a gate run.                                                     *)
(***************************************************************************)
CompleteStatuses == {"FAST_PASS", "FULL_PASS", "FAIL"}
\* profile_status: a failed build is a completed sample too.
ProfileStatus(status) == IF status \in CompleteStatuses THEN "COMPLETE" ELSE status

\* cache_state: build is Cargo's count of the compilation units.
CacheState(build) ==
  CASE ~ build.available \/ build.partial \/ build.total = 0 -> "unknown"
    [] build.rebuilt = 0 -> "warm"
    [] build.rebuilt = build.total -> "cold"
    [] OTHER -> "mixed"

\* phases and cargo_phase_ms: the Cargo phase is the sum of the steps.
CargoPhaseMs(steps) == IF steps = <<>> THEN NotObserved ELSE Sum(steps)
\* comparable_wall_ms.
ComparableWallMs(wall, admission) == Max({0, wall - admission})

\* explain: the class of each explanation; changed holds the kinds of the
\* paths that changed since the last run of this input.
Explain(build, changed, repeated, status) ==
  IF ~ build.available THEN {<<"observed", "telemetry">>}
  ELSE {<<"observed", "units">>}
       \union {<<"observed", "scripts">> : x \in {1} \cap {build.scripts}}
       \union {<<"hypothesis", "source">> : x \in {y \in changed : y = "source" /\ build.rebuilt > 0}}
       \union {<<"hypothesis", "script">> : x \in {y \in changed : y = "script" /\ build.scripts > 0}}
       \union {<<"hypothesis", "manifest">> : x \in changed \cap {"manifest"}}
       \union {<<"hypothesis", "input">> : x \in {y \in changed : y = "other" /\ build.scripts > 0}}
       \union {<<"hypothesis", "resolution">> : x \in changed \cap {"resolution"}}
       \union {<<"unknown", "versions">> : x \in {TRUE} \cap {repeated}}
       \union {<<"hypothesis", "wide">> : x \in {TRUE} \cap {2 * build.rebuilt > build.total}}
       \union {<<"unknown", "cause">> : x \in {TRUE} \cap {build.rebuilt > 0 /\ changed = {}}}
       \union {<<"unknown", "ended">> : x \in {status} \ CompleteStatuses}

\* read_timing_artifact: a regular file inside the target directory, within
\* the budget.  extract_timing_units: the exact anchor and a balanced array.
ReadTimingArtifact(artifact, maxBytes) == artifact.file = "regular" /\ artifact.bytes <= maxBytes
ExtractTimingUnits(artifact, maxUnits) ==
  IF artifact.anchored /\ Len(artifact.units) <= maxUnits THEN artifact.units ELSE <<>>

(***************************************************************************)
(* The critical path: units is a sequence of [i, duration, unblocks].      *)
(***************************************************************************)

\* One edge of the graph is relaxed.
Relax(units, node, s, next) ==
  LET candidate == s.best[node] + units[next].duration
      better == candidate > s.best[next]
      degree == s.indegree[next] - 1
  IN [s EXCEPT !.best[next] = IF better THEN candidate ELSE @,
               !.previous[next] = IF better THEN node ELSE @,
               !.indegree[next] = degree,
               !.queue = IF degree = 0 THEN Append(@, next) ELSE @]

\* An edge names a unit by its index; of two units with one index the last counts.
Adjacency(units) ==
  [p \in DOMAIN units |->
     {Max({q \in DOMAIN units : units[q].i = j}) : j \in units[p].unblocks \cap {units[q].i : q \in DOMAIN units}}]

\* The chain of previous units that ends at the last of the best ones.
ChainTo(previous, end, depth) ==
  LET step(c, n) == IF Head(c) # 0 /\ previous[Head(c)] # 0 THEN <<previous[Head(c)]>> \o c ELSE c
  IN FoldLeft(step, <<end>>, [n \in 1..(depth - 1) |-> n])

BuildCriticalPath(units, depth) ==
  LET adjacent == Adjacency(units)
      indegree == [p \in DOMAIN units |-> Cardinality({q \in DOMAIN units : p \in adjacent[q]})]
      start == [queue |-> SelectSeq([p \in DOMAIN units |-> p], LAMBDA p : indegree[p] = 0),
                best |-> [p \in DOMAIN units |-> units[p].duration],
                previous |-> [p \in DOMAIN units |-> 0],
                indegree |-> indegree, processed |-> 0]
      visit(s, n) ==
        IF s.queue = <<>> THEN s
        ELSE LET node == Head(s.queue)
                 popped == [s EXCEPT !.queue = Tail(@), !.processed = @ + 1]
             IN FoldLeft(LAMBDA t, next : Relax(units, node, t, next), popped,
                         SetToSortSeq(adjacent[node], Smaller))
      done == FoldLeft(visit, start, [p \in DOMAIN units |-> p])
      most == Max(Elements(done.best))
      end == Max({p \in DOMAIN units : done.best[p] = most})
  IN IF units = <<>> \/ done.processed # Len(units)
       THEN [available |-> FALSE, duration |-> 0, units |-> <<>>]
       ELSE [available |-> TRUE, duration |-> most, units |-> ChainTo(done.previous, end, depth)]

\* The critical path is a longest one (build_critical_path): its duration is
\* the most that any chain of units costs, it is the cost of the units it
\* names, and it is withheld exactly when the graph has a cycle.
PathIsLongest(units, depth) ==
  LET adjacent == Adjacency(units)
      chains == {c \in UNION {[1..n -> DOMAIN units] : n \in 1..Len(units)} :
                   \A k \in 1..(Len(c) - 1) : c[k + 1] \in adjacent[c[k]]}
      cost(c) == Sum([k \in DOMAIN c |-> units[c[k]].duration])
      cyclic == \E c \in chains : c[1] \in adjacent[c[Len(c)]]
      path == BuildCriticalPath(units, depth)
  IN /\ path.available = ~ cyclic
     /\ path.available => /\ path.duration = Max({cost(c) : c \in chains})
                           /\ depth >= Len(units) => path.units \in chains /\ cost(path.units) = path.duration

\* expensive_units: the most expensive first.
ExpensiveUnits(units, limit) ==
  LET ranked == SortSeq([p \in DOMAIN units |-> p],
                        LAMBDA p, q : units[p].duration > units[q].duration
                                      \/ (units[p].duration = units[q].duration /\ p < q))
  IN SubSeq(ranked, 1, Min({limit, Len(units)}))

(***************************************************************************)
(* Comparing two sides of build samples.                                   *)
(***************************************************************************)
\* complete_records: each COMPLETE record once, in order.
CompleteRecords(records) ==
  LET keep(kept, r) ==
        IF r.status # "COMPLETE" \/ \E k \in DOMAIN kept : kept[k].id = r.id THEN kept ELSE Append(kept, r)
  IN FoldLeft(keep, <<>>, records)

\* Mutant: the samples of one side need not be of one input.
SideBindingProblem_AnyInput(records, request) ==
  \E k \in DOMAIN records :
    \/ records[k].root # request.root
    \/ records[k].epoch # request.epoch
    \/ records[k].change # request.change

\* side_binding_problem.
SideBindingProblem(records, request) ==
  \E k \in DOMAIN records :
    \/ records[k].root # request.root
    \/ records[k].epoch # request.epoch
    \/ records[k].change # request.change
    \/ records[k].input # records[1].input

\* condition_differences and the configuration check of build_comparison.
ConditionDifferences(baseline, candidate) ==
  LET all == Elements(baseline) \union Elements(candidate)
  IN \/ \E r \in all : r.toolchain = "unavailable"
     \/ \E r, s \in all : r.toolchain # s.toolchain \/ r.cache # s.cache \/ r.options # s.options

\* compare_measurements: the claim, "none", or "INCONCLUSIVE".
CompareMeasurements(baseline, candidate, required) ==
  LET cargo(side) == SelectSeq([k \in DOMAIN side |-> side[k].cargo], LAMBDA ms : ms # NotObserved)
      wall(side) == [k \in DOMAIN side |-> side[k].wall]
      base == Median(cargo(baseline))
      cand == Median(cargo(candidate))
  IN CASE required < 2 \/ Len(baseline) < required \/ Len(candidate) < required -> "INCONCLUSIVE"
       [] ConditionDifferences(baseline, candidate) -> "INCONCLUSIVE"
       [] baseline[1].input = candidate[1].input -> "INCONCLUSIVE"
       [] \E side \in {baseline, candidate} : Noisy(cargo(side)) \/ Noisy(wall(side)) -> "INCONCLUSIVE"
       [] base = NotObserved \/ cand = NotObserved \/ base = 0 -> "INCONCLUSIVE"
       [] 20 * (cand - base) <= - base -> "candidate-faster"
       [] 20 * (cand - base) >= base -> "baseline-faster"
       [] OTHER -> "none"

\* build_comparison.
BuildComparison(baseline, candidate, request, required) ==
  LET b == CompleteRecords(baseline)
      c == CompleteRecords(candidate)
  IN [claim |-> IF SideBindingProblem(b, request) \/ SideBindingProblem(c, request)
                  THEN "INCONCLUSIVE" ELSE CompareMeasurements(b, c, required),
      baseline |-> b, candidate |-> c]

(***************************************************************************)
(* The runtime comparison: samples are [side, phase, ms, clean].           *)
(***************************************************************************)
\* measured_values.
MeasuredValues(samples, side) ==
  LET mine == SelectSeq(samples, LAMBDA s : s.side = side /\ s.phase = "measured" /\ s.clean)
  IN [k \in DOMAIN mine |-> mine[k].ms]

\* classify_runtime_verdict: threshold is in percent.
ClassifyRuntimeVerdict(base, cand, threshold) ==
  CASE 100 * (base - cand) >= threshold * base -> "CANDIDATE_FASTER"
    [] 100 * (base - cand) <= - (threshold * base) -> "BASELINE_FASTER"
    [] OTHER -> "NO_MATERIAL_DIFFERENCE"

(***************************************************************************)
(* The snapshots of a change: a text is a sequence of tokens, a patch      *)
(* [old, new] puts the token new in the place of old; an empty new deletes *)
(* the token, and a new file is an extra text.                             *)
(***************************************************************************)
Gone == "(nothing)"
Torn == <<"(torn)">>
\* text.matches(newString).count(): the empty string matches everywhere.
Matches(text, token) == IF token = Gone THEN Len(text) + 1 ELSE Cardinality({k \in DOMAIN text : text[k] = token})

\* replacen(newString, oldString, 1).
Put(text, from, to) ==
  IF from = Gone THEN <<to>> \o text
  ELSE LET k == Min({j \in DOMAIN text : text[j] = from})
       IN IF to = Gone THEN RemoveAt(text, k) ELSE ReplaceAt(text, k, to)

\* reverse_apply: refused (Torn) unless newString occurs exactly once.
ReverseApply(text, patches) ==
  FoldLeft(LAMBDA t, p : IF t = Torn \/ Matches(t, p.new) # 1 THEN Torn ELSE Put(t, p.new, p.old),
           text, Reverse(patches))

(***************************************************************************)
(* A tree is [file, other, new]: the text the patches are about, whether   *)
(* another captured file still has its bytes, and the files that are there *)
(* beyond the captured ones.                                               *)
(***************************************************************************)
ExpectedCandidateFiles(record) == [file |-> record.current, other |-> "captured", new |-> record.newFiles]
ExpectedBaselineFiles(record) == [file |-> record.base, other |-> "captured", new |-> {}]

\* verify_and_digest: every file has the recorded bytes and none is extra.
Verified(tree, expected) == tree = expected

\* verify_candidate_bytes: the files the record names.
VerifyCandidateBytes(tree, record) == tree.file = record.current /\ record.newFiles \subseteq tree.new

\* materialize_runtime_snapshots, once the record is locked: tree is the
\* candidate copy on disk.
Snapshots(record, tree) ==
  LET reversed == [tree EXCEPT !.file = ReverseApply(tree.file, record.patches), !.new = @ \ record.newFiles]
  IN [available |-> VerifyCandidateBytes(tree, record)
                    /\ Verified(tree, ExpectedCandidateFiles(record))
                    /\ reversed.file # Torn
                    /\ Verified(reversed, ExpectedBaselineFiles(record)),
      baseline |-> reversed, candidate |-> tree]
=============================================================================
