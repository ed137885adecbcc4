-------------------------- MODULE RepairCandidates --------------------------
(***************************************************************************)
(* One call of repair's analyze, try or compare (repair/service.rs): read  *)
(* the change and its evidence, list candidates, replay each one with the  *)
(* change in a copy of its own, validate and discard it, and for compare   *)
(* select one.  Meanwhile the user edits the workspace, another call       *)
(* stages the change again, the client cancels, and the wall clock runs.   *)
(*                                                                         *)
(* The change service is ChangeService's: a copy is captured of the        *)
(* workspace version of that moment, and evidence is fresh when the        *)
(* workspace did not change while the gate ran.                            *)
(***************************************************************************)
EXTENDS Integers, Sequences, FiniteSets, SequencesExt, FiniteSetsExt

CONSTANTS
  MaxGroups,     \* MAX_GROUPS
  MaxListed,     \* MAX_LISTED_CANDIDATES
  Reach,         \* lines within which two groups are one cause (3 in the code)
  Records,       \* change records: [state, revision, base, patches, cut, newFiles, rows]
  Calls,         \* [action, testTarget, given, requested, maxCandidates, maxCompiles]
  Hosts,         \* candidates the host may give: sequences of patches, by name
  Packages,      \* suggestion packages of the evidence, a set of sequences of patches
  Assists,       \* what rust-analyzer may offer: sets of sequences of patches
  Verdicts,      \* what the gate says of a candidate: hash -> [build, gate, diagnostics]
  MaxVersion,    \* bound on the edits of the workspace
  MaxRevision    \* bound on the revisions of the change

VARIABLES
  version,       \* the workspace
  record,        \* the change the call is about
  warned,        \* the change service holds a cleanup warning
  copies,        \* candidate copies on disk: [for, base]
  stopped,       \* the client has cancelled
  late,          \* wallTimeMs has passed
  repair         \* the call

vars == <<version, record, warned, copies, stopped, late, repair>>

None == "none"

(***************************************************************************)
(* What repair computes from compiler diagnostics and patches, without     *)
(* running anything: repair/analysis.rs and repair/guards.rs.              *)
(*                                                                         *)
(* A diagnostic is [level, code, file, line, symbol]; a patch is           *)
(* [file, old, new], where a text is [tokens, lines, api, name]: how often *)
(* it holds what each guard looks for, its substantive lines, the public   *)
(* items it declares, and a name that stands for its bytes.                *)
(***************************************************************************)

(***************************************************************************)
(* Diagnostics.                                                            *)
(***************************************************************************)
DiagnosticId(d) == <<d.code, d.file, d.line>>
GroupKey(d) == <<d.code, d.file>>

\* group_diagnostics: by code and file, in the order of first appearance;
\* the first diagnostic is the anchor.
GroupDiagnostics(ds) ==
  LET first(n) == \A m \in 1..(n - 1) : GroupKey(ds[m]) # GroupKey(ds[n])
      heads == SelectSeq([n \in DOMAIN ds |-> n], first)
      group(n) == [key |-> GroupKey(ds[n]), line |-> ds[n].line,
                   ids |-> {DiagnosticId(ds[m]) : m \in {k \in DOMAIN ds : GroupKey(ds[k]) = GroupKey(ds[n])}}]
  IN [k \in 1..Min({Len(heads), MaxGroups}) |-> group(heads[k])]

\* filter_diagnostics: by id, by code or by the number of a group.
Requested(ds, request, d) ==
  \/ request.kind = "id" /\ request.id = DiagnosticId(d)
  \/ request.kind = "code" /\ request.code = d.code
  \/ /\ request.kind = "group" /\ request.group \in DOMAIN GroupDiagnostics(ds)
     /\ DiagnosticId(d) \in GroupDiagnostics(ds)[request.group].ids
FilterDiagnostics(ds, requested) ==
  [kept |-> IF requested = {} THEN ds ELSE SelectSeq(ds, LAMBDA d : \E r \in requested : Requested(ds, r, d)),
   unmatched |-> {r \in requested : \A n \in DOMAIN ds : ~Requested(ds, r, ds[n])}]

UnresolvedCodes == {"E0432", "E0433", "E0405", "E0412", "E0425"}

\* relations: groups of one file, close to each other or an unresolved name
\* before the rest.
Relations(groups) ==
  LET linked(a, b) == groups[a].key[2] # None /\ groups[a].key[2] = groups[b].key[2]
      near(a, b) == groups[a].line - groups[b].line \in (-Reach)..Reach
      cascades(a, b) == groups[a].key[1] \in UnresolvedCodes /\ groups[a].line < groups[b].line
      pairs == {p \in (DOMAIN groups) \X (DOMAIN groups) : p[1] # p[2] /\ linked(p[1], p[2])}
  IN {[from |-> p[1], to |-> p[2], kind |-> "adjacentRootCause"] : p \in {q \in pairs : q[1] < q[2] /\ near(q[1], q[2])}}
       \union {[from |-> p[1], to |-> p[2], kind |-> "cascadeHypothesis"] :
                 p \in {q \in pairs : ~near(q[1], q[2]) /\ cascades(q[1], q[2])}}

\* ownership: which explanation a code gets.
Explains(code) ==
  CASE code \in {"E0382", "E0505", "E0507"} -> "movedValue"
    [] code \in {"E0502", "E0499", "E0596", "E0503", "E0506"} -> "borrowedValue"
    [] code \in {"E0277", "E0599"} -> "missingTraitBound"
    [] OTHER -> None
Ownership(ds) == {[id |-> DiagnosticId(d), kind |-> Explains(d.code)] : d \in {e \in ToSet(ds) : Explains(e.code) # None}}

(***************************************************************************)
(* Patches.                                                                *)
(***************************************************************************)
Text(name) == [tokens |-> [k \in {} |-> 0], lines |-> 1, api |-> {}, name |-> name]
Count(text, k) == IF k \in DOMAIN text.tokens THEN text.tokens[k] ELSE 0
Over(n) == IF n > 0 THEN n ELSE 0

AddedKinds == {"unnecessaryClone", "unsafeAdded", "panicPathAdded", "testIgnored", "lintDisabled", "errorSwallowed"}
RemovedKinds == {"assertionRemoval", "testRemoval"}
GuardKinds == AddedKinds \union RemovedKinds \union {"codeDeletion", "publicApiChange"}

\* delta and is_block_deletion, for one patch.
Signal(patch, k) ==
  CASE k \in AddedKinds -> Over(Count(patch.new, k) - Count(patch.old, k))
    [] k \in RemovedKinds -> Over(Count(patch.old, k) - Count(patch.new, k))
    [] k = "codeDeletion" -> IF patch.new.lines = 0 /\ patch.old.lines >= 3 THEN 1 ELSE 0
    [] OTHER -> 0

\* signals and Signals::value: the public items are sets over all patches.
SignalValue(patches, k) ==
  IF k = "publicApiChange"
    THEN Cardinality(UNION {p.new.api \ p.old.api : p \in ToSet(patches)})
           + Cardinality(UNION {p.old.api \ p.new.api : p \in ToSet(patches)})
    ELSE FoldLeft(LAMBDA n, p : n + Signal(p, k), 0, patches)

\* Mutant: what the base change already does excuses the candidate.
Scan_OnlyNewKinds(base, combined) ==
  [added |-> {k \in GuardKinds : SignalValue(combined, k) > 0 /\ SignalValue(base, k) = 0},
   inherited |-> {k \in GuardKinds : SignalValue(base, k) > 0}]

\* scan.
Scan(base, combined) ==
  [added |-> {k \in GuardKinds : SignalValue(combined, k) > SignalValue(base, k)},
   inherited |-> {k \in GuardKinds : SignalValue(base, k) > 0}]

\* candidate_hash: the patches in any order.
CandidateHash(patches) == SortSeq([n \in DOMAIN patches |-> <<patches[n].file, patches[n].old.name, patches[n].new.name>>],
                                  LAMBDA a, b : a[3] < b[3])

\* line_delta, added and removed together; old and new share no line.
ChangedLines(patches) == FoldLeft(LAMBDA n, p : n + p.new.lines + p.old.lines, 0, patches)

\* mechanical_candidates: which transform a code gets, on a readable file,
\* once per patch.  A clone always trips the guard.
Transform(code) ==
  CASE code = "E0382" -> "clone-at-move"
    [] code = "E0277" -> "derive-trait"
    [] code \in UnresolvedCodes -> "known-import"
    [] OTHER -> None
MechanicalPatch(d) ==
  LET new == [Text(d.symbol) EXCEPT !.lines = 2]
  IN [file |-> d.file, old |-> Text(d.line),
      new |-> IF Transform(d.code) = "clone-at-move"
                THEN [new EXCEPT !.lines = 1, !.tokens = [k \in {"unnecessaryClone"} |-> 1]] ELSE new]
MechanicalCandidates(ds, readable) ==
  LET step(list, d) ==
        IF Len(list) < MaxListed /\ d.file \in readable /\ Transform(d.code) # None /\ d.symbol # 0
             /\ \A n \in DOMAIN list : CandidateHash(list[n]) # CandidateHash(<<MechanicalPatch(d)>>)
          THEN Append(list, <<MechanicalPatch(d)>>) ELSE list
  IN FoldLeft(step, <<>>, ds)

\* diagnostic_delta: codes by how often they occur.
ErrorCount(ds, code) == Len(SelectSeq(ds, LAMBDA d : d.level = "error" /\ d.code = code))
ErrorCodes(ds) == {d.code : d \in {e \in ToSet(ds) : e.level = "error"}}
DiagnosticDelta(before, after) ==
  [fixed |-> {c \in ErrorCodes(before) : ErrorCount(after, c) < ErrorCount(before, c)},
   remaining |-> {c \in ErrorCodes(before) : ErrorCount(after, c) >= ErrorCount(before, c)},
   new |-> ErrorCodes(after) \ ErrorCodes(before)]

(***************************************************************************)
(* Selection.  A result is [id, status, patches, compile, gate, build,     *)
(* errors, impacts, changed].                                              *)
(***************************************************************************)
TestPassed(r) == r.build = "ok" /\ r.gate # "FAIL"

Selectable(r, testTarget) ==
  r.status = "measured" /\ r.build = "ok" /\ r.impacts = {} /\ (testTarget => TestPassed(r))

\* Fewer errors, then fewer changed lines, then the smaller id.
RanksBefore(a, b) ==
  \/ a.errors < b.errors
  \/ a.errors = b.errors /\ (a.changed < b.changed \/ (a.changed = b.changed /\ a.id < b.id))

\* select: the place of the chosen result, 0 when there is none.
Select(results, testTarget) ==
  LET able == {n \in DOMAIN results : Selectable(results[n], testTarget)}
      best == {n \in able : \A m \in able : ~RanksBefore(results[m], results[n])}
  IN IF able = {} THEN 0 ELSE Min(best)

(***************************************************************************)
(* The call.                                                               *)
(***************************************************************************)
Idle == [pc |-> "idle"]

(***************************************************************************)
(* Evidence: a row is [revision, fresh, authoritative, status, omitted,    *)
(* diagnostics].                                                           *)
(***************************************************************************)
Current(data, row) == row.revision = data.revision /\ row.fresh /\ row.authoritative

\* base_evidence: the newest current row decides.
BaseEvidence(data) ==
  LET rows == {n \in DOMAIN data.rows : Current(data, data.rows[n]) /\ data.rows[n].status \in {"FAIL", "PASS"}}
      row == data.rows[Max(rows)]
  IN CASE data.state # "ready" \/ data.warnings \/ rows = {} -> "missing"
       [] row.status = "PASS" -> "clean"
       [] row.omitted -> "missing"
       [] OTHER -> "fail"

EvidenceRow(data) ==
  data.rows[Max({n \in DOMAIN data.rows : Current(data, data.rows[n]) /\ data.rows[n].status \in {"FAIL", "PASS"}})]

(***************************************************************************)
(* Candidates: [source, patches]; a result adds what was measured.         *)
(***************************************************************************)
Candidate(source, patches) == [source |-> source, patches |-> patches]

\* host_candidates.
HostCandidates(given) == [n \in 1..Min({Len(given), MaxListed}) |-> Candidate("host", Hosts[given[n]])]

\* build_candidates: the package as one candidate, then the mechanical ones,
\* then the assists whose text is in the candidate once; a hash only once.
BuildCandidates(diagnostics, package, assists) ==
  LET readable == {d.file : d \in {e \in ToSet(diagnostics) : e.file # None}}
      offers == (IF package = <<>> THEN <<>> ELSE <<Candidate("compilerSuggestion", package)>>)
                  \o [n \in DOMAIN MechanicalCandidates(diagnostics, readable) |->
                        Candidate("mechanical", MechanicalCandidates(diagnostics, readable)[n])]
                  \o [n \in DOMAIN assists |-> Candidate("raAssist", assists[n])]
      push(list, c) ==
        IF Len(list) < MaxListed /\ \A n \in DOMAIN list : CandidateHash(list[n].patches) # CandidateHash(c.patches)
          THEN Append(list, c) ELSE list
  IN FoldLeft(push, <<>>, offers)

(***************************************************************************)
(* The call.                                                               *)
(***************************************************************************)
Answer(status, stop) == repair' = [repair EXCEPT !.pc = "ended", !.status = status, !.stop = stop]

Begin ==
  /\ repair = Idle
  /\ \E call \in Calls :
       repair' = [pc |-> IF stopped THEN "ended" ELSE "inspect", call |-> call,
                  status |-> IF stopped THEN "CANCELLED" ELSE None, stop |-> IF stopped THEN "cancelled" ELSE "completed",
                  data |-> record, newFiles |-> 0, list |-> <<>>, results |-> <<>>, used |-> 0, compiles |-> 0,
                  copy |-> 0, row |-> [fresh |-> FALSE], selected |-> 0, analysis |-> <<>>]
  /\ UNCHANGED <<version, record, warned, copies, stopped, late>>

\* inspect_change and base_evidence; the patches must be all there.
Inspect ==
  /\ repair.pc = "inspect"
  /\ LET data == [record EXCEPT !.warnings = warned]
     IN CASE BaseEvidence(data) = "clean" -> Answer("CLEAN", "noFailure")
          [] BaseEvidence(data) = "missing" \/ (repair.call.action # "analyze" /\ data.cut) -> Answer("NO_EVIDENCE", "noUsableEvidence")
          [] OTHER -> repair' = [repair EXCEPT !.pc = "list", !.data = data]
  /\ UNCHANGED <<version, record, warned, copies, stopped, late>>

\* RepairAnalysisData.
Analysis(diagnostics) ==
  LET groups == GroupDiagnostics(diagnostics)
  IN <<groups, Relations(groups), Ownership(diagnostics)>>

\* base_new_files, another call of the change service, and the candidates.
List ==
  /\ repair.pc = "list"
  /\ LET evidence == EvidenceRow(repair.data)
         wanted == FilterDiagnostics(evidence.diagnostics, repair.call.requested).kept
     IN \E package \in Packages, assists \in Assists :
          repair' = [repair EXCEPT
            !.newFiles = IF repair.data.newFiles = 0 THEN 0 ELSE record.newFiles,
            !.list = IF repair.call.given # <<>> THEN HostCandidates(repair.call.given)
                     ELSE BuildCandidates(wanted, package, assists),
            !.analysis = IF repair.call.action = "analyze" THEN Analysis(wanted) ELSE <<>>,
            !.pc = IF repair.call.action = "analyze" THEN "ended" ELSE "next",
            !.status = IF repair.call.action = "analyze" THEN "ANALYZED" ELSE None]
  /\ UNCHANGED <<version, record, warned, copies, stopped, late>>

\* Where the loop over the candidates stands.
At == Len(repair.results) + 1
This == repair.list[At]
Seen == {CandidateHash(repair.list[n].patches) : n \in 1..(At - 1)}
Result(status) == [id |-> At, status |-> status, build |-> "unknown", gate |-> None, errors |-> 0, impacts |-> {},
                   changed |-> 0, tree |-> <<>>, delta |-> <<>>]

NextCandidate ==
  /\ repair.pc = "next" /\ At <= Len(repair.list)
  /\ LET budget == CASE repair.used >= repair.call.maxCandidates -> "maxCandidates"
                     [] repair.compiles >= repair.call.maxCompiles -> "maxCompiles"
                     [] late -> "wallTimeMs"
                     [] OTHER -> None
     IN CASE CandidateHash(This.patches) \in Seen ->
               repair' = [repair EXCEPT !.results = Append(@, Result("duplicate"))]
          [] stopped -> Answer("cancelled", "cancelled")
          [] budget # None ->
               repair' = [repair EXCEPT !.stop = budget,
                            !.results = @ \o [n \in 1..(Len(repair.list) - At + 1) |-> [Result("budgetExhausted") EXCEPT !.id = At + n - 1]]]
          [] OTHER -> repair' = [repair EXCEPT !.pc = "create"]
  /\ UNCHANGED <<version, record, warned, copies, stopped, late>>

\* run_candidate: Reject keeps the loop going, Abort ends the call.
Reject(r, status) == [r EXCEPT !.pc = "next", !.used = @ + 1, !.results = Append(@, Result(status)), !.copy = 0]
Abort(status, stop) ==
  Answer(CASE status = "CANCELLED" -> "cancelled" [] status = "TIMEOUT" -> "timeout"
           [] status = "STALE" -> "stale" [] OTHER -> "inconclusive", stop)

\* A change operation that does not complete: cancelled, or out of time.
Interrupted == (IF stopped THEN {"CANCELLED"} ELSE {}) \union {"TIMEOUT"}

\* The copy must have the base the evidence was produced for.
Create ==
  /\ repair.pc = "create"
  /\ \/ /\ copies' = copies \union {[for |-> At, base |-> version]}
        /\ repair' = [repair EXCEPT !.pc = IF version = repair.data.base THEN "replay" ELSE "mismatch", !.copy = version]
     \/ \E status \in Interrupted : Abort(status, IF status = "CANCELLED" THEN "cancelled" ELSE "timeout") /\ UNCHANGED copies
     \/ repair' = Reject(repair, "unavailable") /\ UNCHANGED copies
  /\ UNCHANGED <<version, record, warned, stopped, late>>

\* discard: done, or a warning the service keeps, or the lock is taken: the
\* outcome has no warning then, and the copy stays.
Discard(clean) ==
  \/ /\ clean = ~warned /\ warned' = warned
     /\ copies' \in {copies, {c \in copies : c.for # At}}
  \/ ~clean /\ warned' = TRUE /\ copies' = copies

Mismatch ==
  /\ repair.pc = "mismatch"
  /\ \E clean \in BOOLEAN : Discard(clean)
  /\ Abort("STALE", "baseMismatch")
  /\ UNCHANGED <<version, record, stopped, late>>

\* The patches and new files of the change, staged first; then the
\* candidate's own.
Replay ==
  /\ repair.pc = "replay"
  /\ \/ repair' = [repair EXCEPT !.pc = "stage"] /\ UNCHANGED <<warned, copies>>
     \/ /\ repair.data.patches # <<>> \/ repair.newFiles # 0
        /\ \/ \E status \in Interrupted \union {"STALE"} :
                /\ \E clean \in BOOLEAN : Discard(clean)
                /\ Abort(status, CASE status = "CANCELLED" -> "cancelled" [] status = "TIMEOUT" -> "timeout"
                                   [] OTHER -> "baseMismatch")
           \/ warned' = TRUE /\ copies' = copies /\ Abort("INCONCLUSIVE", "cleanupFailure")
  /\ UNCHANGED <<version, record, stopped, late>>

\* A candidate whose text is not there is refused as a whole.
Stage ==
  /\ repair.pc = "stage"
  /\ \/ repair' = [repair EXCEPT !.pc = "validate"] /\ UNCHANGED <<warned, copies>>
     \/ \E status \in Interrupted :
          /\ \E clean \in BOOLEAN : Discard(clean)
          /\ Abort(status, IF status = "CANCELLED" THEN "cancelled" ELSE "timeout")
     \/ warned' = TRUE /\ copies' = copies /\ Abort("INCONCLUSIVE", "cleanupFailure")
     \/ ~warned /\ (\E clean \in BOOLEAN : Discard(clean)) /\ repair' = Reject(repair, "rejected")
  /\ UNCHANGED <<version, record, stopped, late>>

\* The gate runs on the copy; the row is fresh when the workspace is still
\* the one the copy was made of.
Tree == <<repair.copy, repair.data.revision, repair.newFiles, CandidateHash(This.patches)>>
Validate ==
  /\ repair.pc = "validate"
  /\ \/ repair' = [repair EXCEPT !.pc = "measure",
                     !.row = [fresh |-> version = repair.copy, verdict |-> Verdicts[CandidateHash(This.patches)],
                              omitted |-> FALSE, status |-> "done", tree |-> Tree]]
     \/ repair' = [repair EXCEPT !.pc = "measure",
                     !.row = [fresh |-> TRUE, verdict |-> Verdicts[CandidateHash(This.patches)], omitted |-> TRUE,
                              status |-> "done", tree |-> Tree]]
     \/ \E status \in Interrupted : repair' = [repair EXCEPT !.pc = "measure", !.row = [fresh |-> FALSE, status |-> status]]
  /\ UNCHANGED <<version, record, warned, copies, stopped, late>>

\* The rest of run_candidate, after the discard.
Measured(row) ==
  [Result("measured") EXCEPT
     !.build = row.verdict.build, !.gate = row.verdict.gate,
     !.errors = Len(SelectSeq(row.verdict.diagnostics, LAMBDA d : d.level = "error")),
     !.impacts = Scan(repair.data.patches, repair.data.patches \o This.patches).added,
     !.changed = ChangedLines(This.patches), !.tree = row.tree,
     !.delta = DiagnosticDelta(EvidenceRow(repair.data).diagnostics, row.verdict.diagnostics)]
Measure ==
  /\ repair.pc = "measure"
  /\ \E clean \in BOOLEAN :
       /\ Discard(clean)
       /\ CASE ~clean -> Abort("INCONCLUSIVE", "cleanupFailure")
            [] clean /\ stopped -> Abort("CANCELLED", "cancelled")
            [] clean /\ ~stopped /\ ~repair.row.fresh ->
                 (LET status == IF repair.row.status = "done" THEN "INCONCLUSIVE" ELSE repair.row.status
                  IN Abort(status, IF status = "TIMEOUT" THEN "timeout" ELSE "incompleteDiagnostics"))
            [] clean /\ ~stopped /\ repair.row.fresh /\ repair.row.omitted -> Abort("INCONCLUSIVE", "incompleteDiagnostics")
            [] OTHER -> repair' = [repair EXCEPT !.pc = "next", !.used = @ + 1, !.compiles = @ + 1, !.copy = 0,
                                     !.results = Append(@, Measured(repair.row))]
  /\ UNCHANGED <<version, record, stopped, late>>

\* compare selects; try lists.
Finish ==
  /\ repair.pc = "next" /\ At > Len(repair.list)
  /\ repair' = [repair EXCEPT !.pc = "ended", !.status = IF repair.call.action = "compare" THEN "COMPARED" ELSE "TRIED",
                  !.selected = IF repair.call.action = "compare" THEN Select(repair.results, repair.call.testTarget) ELSE 0]
  /\ UNCHANGED <<version, record, warned, copies, stopped, late>>

(***************************************************************************)
(* Meanwhile.                                                              *)
(***************************************************************************)
EditWorkspace == version < MaxVersion /\ version' = version + 1 /\ UNCHANGED <<record, warned, copies, stopped, late, repair>>
Restage ==
  /\ record.revision < MaxRevision
  /\ record' = [record EXCEPT !.revision = @ + 1, !.newFiles = IF @ = 0 THEN 0 ELSE record.revision + 1]
  /\ UNCHANGED <<version, warned, copies, stopped, late, repair>>
CancelRepair == ~stopped /\ stopped' = TRUE /\ UNCHANGED <<version, record, warned, copies, late, repair>>
WallTime == ~late /\ repair # Idle /\ late' = TRUE /\ UNCHANGED <<version, record, warned, copies, stopped, repair>>

Init ==
  /\ version = 1 /\ record \in Records /\ warned \in BOOLEAN /\ copies = {} /\ stopped = FALSE /\ late = FALSE
  /\ repair = Idle
Next ==
  \/ Begin \/ Inspect \/ List \/ NextCandidate \/ Create \/ Mismatch \/ Replay \/ Stage \/ Validate \/ Measure \/ Finish
  \/ (repair.pc # "ended" /\ (EditWorkspace \/ Restage \/ CancelRepair \/ WallTime))
Spec == Init /\ [][Next]_vars

\* compare (repair/analysis.rs, select): the selected candidate was measured
\* on the workspace and the revision the failure evidence is about, as far as
\* the change was not staged again meanwhile; it builds, passes the requested
\* gate, adds nothing the guards look for and no public item of its own, and
\* no other candidate that may be selected leaves fewer errors.
SelectionIsEarned ==
  (repair.pc = "ended" /\ repair.selected # 0) =>
    LET chosen == repair.results[repair.selected]
        patches == repair.list[repair.selected].patches
        verdict == Verdicts[CandidateHash(patches)]
    IN /\ \E n \in DOMAIN record.rows : record.rows[n].revision = repair.data.revision /\ record.rows[n].status = "FAIL"
       /\ chosen.tree[1] = repair.data.base /\ chosen.tree[4] = CandidateHash(patches)
       /\ record.revision = repair.data.revision => (chosen.tree[3] = record.newFiles)
       /\ verdict.build = "ok" /\ (repair.call.testTarget => verdict.gate # "FAIL")
       /\ \A p \in ToSet(patches) : \A k \in AddedKinds : Count(p.new, k) <= Count(p.old, k)
       /\ \A p \in ToSet(patches) : \A k \in RemovedKinds : Count(p.old, k) <= Count(p.new, k)
       /\ \A p \in ToSet(patches) : p.new.api \subseteq p.old.api \union UNION {q.new.api : q \in ToSet(repair.data.patches)}
       /\ \A n \in DOMAIN repair.results :
            LET other == Verdicts[CandidateHash(repair.list[n].patches)]
            IN (repair.results[n].status = "measured" /\ repair.results[n].impacts = {} /\ other.build = "ok"
                  /\ (repair.call.testTarget => other.gate # "FAIL"))
                 => Len(SelectSeq(verdict.diagnostics, LAMBDA d : d.level = "error"))
                      <= Len(SelectSeq(other.diagnostics, LAMBDA d : d.level = "error"))

\* model.rs and guards.rs, of RepairImpactData: "A candidate-added impact is
\* never auto-accepted by compare".
NoImpactAccepted ==
  (repair.pc = "ended" /\ repair.selected # 0) =>
    \A p \in ToSet(repair.list[repair.selected].patches) : p.new.api = p.old.api
=============================================================================
