--------------------------- MODULE RepairMinimize ---------------------------
(***************************************************************************)
(* One call of repair's minimize (repair/minimize.rs): reproduce the       *)
(* failure of a candidate, confirm it, remove groups of items, modules and *)
(* files as long as the failure stays what it was, and check the smaller   *)
(* source in a clean directory.                                            *)
(*                                                                         *)
(* A source tree is the set of its files and of the items in them; what an *)
(* item says is reduced to the names it mentions, the modules it names by  *)
(* path and the file a module declaration loads.  A compilation is one     *)
(* step: the compiler finds the errors of the tree, unless the run is      *)
(* disturbed.                                                              *)
(***************************************************************************)
EXTENDS Integers, Sequences, FiniteSets, SequencesExt

CONSTANTS
  Items,        \* item -> [file, kind, name, mentions, paths, loads, parent, test, lines]
  Files,        \* the Rust files of the candidate
  Roots,        \* the crate roots (crate_roots)
  Failures,     \* what the compiler may complain about: [target, needs, others]
  Requests,     \* [scope, anchored, maxCompiles, maxCandidates]
  MaxNoise      \* bound: how many runs are disturbed

VARIABLES
  task,         \* the call
  failure,      \* the failure the change has
  cancelled,    \* the client has cancelled
  expired,      \* wallTimeMs has passed
  noise         \* how many runs have been disturbed

vars == <<task, failure, cancelled, expired, noise>>

None == "none"
Whole == [files |-> Files, items |-> DOMAIN Items]

(***************************************************************************)
(* Planning.  Live(tree) is what is still there: an item goes with its     *)
(* file, and with the block it is in.                                      *)
(***************************************************************************)
Live(tree) == {i \in tree.items : Items[i].file \in tree.files}

\* resolve_module_file: nothing when the file is gone.
ModuleFile(tree, i) == IF Items[i].loads \in tree.files THEN Items[i].loads ELSE None

\* referenced_files: crate roots and the files module declarations load.
ReferencedFiles(tree) == Roots \union {ModuleFile(tree, i) : i \in {j \in Live(tree) : Items[j].kind = "modDecl"}}

\* count_names over every file.
CountName(tree, name) ==
  Cardinality({i \in Live(tree) : Items[i].name = name}) + Cardinality({i \in Live(tree) : name \in Items[i].mentions})

NameReferencedElsewhere(tree, i) == Items[i].name # None /\ CountName(tree, Items[i].name) > 1
ModuleNameUsedElsewhere(tree, name) == \E i \in Live(tree) : name \in Items[i].paths

IncludesItems(scope) == scope \in {"all", "items"}
IncludesModules(scope) == scope \in {"all", "modules"}
IncludesFiles(scope) == scope \in {"all", "files"}

\* TargetSite: the item the anchor line is in, and the block around it.
IsTarget(req, i) == req.anchored /\ i \in {failure.target, Items[failure.target].parent}

\* plan_items: a block around the target is entered, not removed.
Offered(tree, req, i) ==
  LET item == Items[i] IN
  /\ ~IsTarget(req, i)
  /\ item.parent = None \/ (IsTarget(req, item.parent) /\ IncludesModules(req.scope))
  /\ CASE item.kind = "modDecl" -> IncludesModules(req.scope) /\ ~ModuleNameUsedElsewhere(tree, item.name)
       [] item.kind = "modBlock" -> IncludesModules(req.scope)
       [] item.kind = "use" -> IncludesItems(req.scope) /\ ~NameReferencedElsewhere(tree, i)
       [] OTHER -> IncludesItems(req.scope) /\ (item.test \/ ~NameReferencedElsewhere(tree, i))

ItemUnit(tree, i) ==
  [item |-> i, lines |-> Items[i].lines,
   file |-> IF Items[i].kind = "modDecl" THEN ModuleFile(tree, i) ELSE None]
FileUnit(tree, f) ==
  [item |-> None, file |-> f,
   lines |-> Cardinality({i \in Live(tree) : Items[i].file = f})]

\* plan_files.
PlanFiles(tree) == {FileUnit(tree, f) : f \in (tree.files \ ReferencedFiles(tree)) \ {Items[failure.target].file}}

\* plan_units: the largest first, ties in the order of the labels.
PlanUnits(tree, req) ==
  LET units == {ItemUnit(tree, i) : i \in {j \in Live(tree) : Offered(tree, req, j)}}
                 \union (IF IncludesFiles(req.scope) THEN PlanFiles(tree) ELSE {})
  IN SortSeq(SetToSeq(units), LAMBDA a, b : a.lines > b.lines)

\* apply_units: the spans go, then the files.
ApplyUnits(tree, group) ==
  LET units == ToSet(group)
      spans == {u.item : u \in units}
  IN [files |-> tree.files \ {u.file : u \in units},
      items |-> {i \in tree.items : i \notin spans /\ Items[i].parent \notin spans}]

(***************************************************************************)
(* The compiler (external).  It reads the roots and what module            *)
(* declarations load from there; the target error needs some items, a name *)
(* that was defined and is no longer, and a file that is missing, are      *)
(* errors of their own.                                                    *)
(***************************************************************************)
Compiled(tree) ==
  LET seen == Roots \union {Items[i].loads : i \in {j \in Live(tree) : Items[j].kind = "modDecl"}}
  IN {i \in Live(tree) : Items[i].file \in seen}

TargetError == [code |-> "target", about |-> failure.target]

Errors(tree) ==
  LET here == Compiled(tree)
      defined == {Items[i].name : i \in here}
  IN (IF failure.needs \subseteq here THEN {TargetError} ELSE {})
       \union {[code |-> "other", about |-> i] : i \in failure.others \intersect here}
       \union {[code |-> "unresolved", about |-> n] : n \in (UNION {Items[i].mentions : i \in here}) \ defined}
       \union {[code |-> "missing", about |-> Items[i].loads] :
                 i \in {j \in here : Items[j].kind = "modDecl" /\ Items[j].loads \notin tree.files}}

\* run_tree and convert_evidence.  A disturbed run times out, is cut short,
\* or misses the error it should have found.
Reports(tree) ==
  LET found == Errors(tree)
      run(status, errors, omitted) == [status |-> status, errors |-> errors, omitted |-> omitted]
  IN {run(IF found = {} THEN "FULL_PASS" ELSE "FAIL", found, FALSE)}
       \union (IF cancelled THEN {run("CANCELLED", {}, FALSE)} ELSE {})
Disturbances(tree) ==
  {[status |-> "TIMEOUT", errors |-> {}, omitted |-> FALSE],
   [status |-> "FAIL", errors |-> Errors(tree), omitted |-> TRUE],
   [status |-> "FAIL", errors |-> Errors(tree) \ {TargetError}, omitted |-> FALSE]}

\* Mutant: new error signatures are let through.
EvaluateRun_AnyNew(baseline, report) ==
  report.status \in {"FAIL", "FAST_PASS", "FULL_PASS"} /\ ~report.omitted /\ TargetError \in report.errors

\* evaluate_run: a clean end, the target error, and no error signature that
\* the unchanged candidate did not have.
EvaluateRun(baseline, report) ==
  /\ report.status \in {"FAIL", "FAST_PASS", "FULL_PASS"} /\ ~report.omitted
  /\ TargetError \in report.errors
  /\ report.errors \subseteq baseline

(***************************************************************************)
(* The call.  tree is current; stack holds the groups still to try.        *)
(* proved is history: which trees a run in which directory has shown to    *)
(* fail as the candidate does.                                             *)
(***************************************************************************)
Idle == [pc |-> "idle"]
Ends(status, stop) == task' = [task EXCEPT !.pc = "ended", !.status = status, !.stop = stop, !.stack = <<>>]

\* budget_stop.
BudgetStop(t) ==
  CASE t.compiles >= t.req.maxCompiles -> "maxCompiles"
    [] t.attempts >= t.req.maxCandidates -> "maxCandidates"
    [] expired -> "wallTimeMs"
    [] OTHER -> None

FailsAsBefore(tree, baseline) == TargetError \in Errors(tree) /\ Errors(tree) \subseteq baseline

\* How a run of the current task in a directory may end: the task with the
\* compilation counted, and what the run reports.
Run(tree, dir) ==
  LET fails == FailsAsBefore(tree, Errors(Whole))
  IN {[task |-> [task EXCEPT !.compiles = @ + 1,
                             !.proved = IF fails /\ r.status = "FAIL" THEN @ \union {<<tree, dir>>} ELSE @],
       report |-> r, noise |-> noise] : r \in Reports(tree)}
     \union {[task |-> [task EXCEPT !.compiles = @ + 1], report |-> r, noise |-> noise + 1]
               : r \in IF noise < MaxNoise THEN Disturbances(tree) ELSE {}}

\* MinimizeSession::new after the tree is read and the predicate built.
Start ==
  /\ task = Idle
  /\ \E req \in Requests :
       task' = IF cancelled THEN [pc |-> "ended", req |-> req, status |-> "CANCELLED", stop |-> "cancelled", tree |-> Whole,
                                  proved |-> {}, compiles |-> 0, attempts |-> 0, stack |-> <<>>, baseline |-> {}]
               ELSE [pc |-> "initial", req |-> req, status |-> None, stop |-> "completed", tree |-> Whole,
                     proved |-> {}, compiles |-> 0, attempts |-> 0, stack |-> <<>>, baseline |-> {}]
  /\ UNCHANGED <<failure, cancelled, expired, noise>>

\* Step 1: the unchanged candidate must fail as the evidence says.
Initial ==
  /\ task.pc = "initial"
  /\ \E run \in Run(Whole, "trial") :
       /\ task' = IF EvaluateRun(run.report.errors, run.report)
                   THEN [run.task EXCEPT !.pc = IF run.task.compiles < run.task.req.maxCompiles THEN "confirm" ELSE "plan",
                                         !.baseline = run.report.errors]
                   ELSE [run.task EXCEPT !.pc = "ended", !.status = "NOT_REPRODUCED", !.stop = "initialMismatch"]
       /\ noise' = run.noise
  /\ UNCHANGED <<failure, cancelled, expired>>

\* Step 2: and again.
Confirm ==
  /\ task.pc = "confirm"
  /\ \E run \in Run(Whole, "trial") :
       /\ task' = IF EvaluateRun(task.baseline, run.report)
                   THEN [run.task EXCEPT !.pc = "plan"]
                   ELSE [run.task EXCEPT !.pc = "ended", !.status = "NOT_REPRODUCED", !.stop = "unreproducible"]
       /\ noise' = run.noise
  /\ UNCHANGED <<failure, cancelled, expired>>

\* The outer loop of step 3.
Plan ==
  /\ task.pc = "plan" /\ ~cancelled
  /\ LET stop == BudgetStop(task)
         plan == PlanUnits(task.tree, task.req)
     IN task' = CASE stop # None -> [task EXCEPT !.pc = "export", !.stop = stop]
                  [] stop = None /\ plan = <<>> -> [task EXCEPT !.pc = "export"]
                  [] OTHER -> [task EXCEPT !.pc = "try", !.stack = <<plan>>]
  /\ UNCHANGED <<failure, cancelled, expired, noise>>

\* split_at: the left half is tried first.
Halves(group) ==
  LET middle == Len(group) \div 2
  IN IF Len(group) > 1 THEN <<SubSeq(group, 1, middle), SubSeq(group, middle + 1, Len(group))>> ELSE <<>>

\* The inner loop: a group that keeps the failure is removed and the plan
\* made anew; one that does not is split.
Try ==
  /\ task.pc = "try" /\ ~cancelled /\ BudgetStop(task) = None /\ task.stack # <<>>
  /\ LET group == Head(task.stack)
         trial == ApplyUnits(task.tree, group)
     IN \E run \in Run(trial, "trial") :
          /\ task' = IF EvaluateRun(task.baseline, run.report)
                      THEN [run.task EXCEPT !.pc = "plan", !.attempts = @ + 1, !.tree = trial, !.stack = <<>>]
                      ELSE [run.task EXCEPT !.attempts = @ + 1, !.stack = Halves(group) \o Tail(@)]
          /\ noise' = run.noise
  /\ UNCHANGED <<failure, cancelled, expired>>

TryEnds ==
  /\ task.pc = "try" /\ ~cancelled
  /\ \/ BudgetStop(task) # None /\ task' = [task EXCEPT !.pc = "export", !.stop = BudgetStop(task), !.stack = <<>>]
     \/ BudgetStop(task) = None /\ task.stack = <<>> /\ task' = [task EXCEPT !.pc = "export"]
  /\ UNCHANGED <<failure, cancelled, expired, noise>>

\* finish_cancelled, at each look at the token.
Cancelled ==
  /\ task.pc \in {"plan", "try", "export"} /\ cancelled
  /\ Ends("CANCELLED", "cancelled")
  /\ UNCHANGED <<failure, cancelled, expired, noise>>

\* Step 4: the clean directory, if the budget allows.
ExportSkipped ==
  /\ task.pc = "export" /\ ~cancelled /\ BudgetStop(task) # None
  /\ Ends("BEST_KNOWN_REPRODUCER", IF task.stop = "completed" THEN BudgetStop(task) ELSE task.stop)
  /\ UNCHANGED <<failure, cancelled, expired, noise>>

ExportRun ==
  /\ task.pc = "export" /\ ~cancelled /\ BudgetStop(task) = None
  /\ \E run \in Run(task.tree, "export") :
       /\ task' = IF EvaluateRun(task.baseline, run.report)
                   THEN [run.task EXCEPT !.pc = "ended", !.status = "REPRODUCED"]
                   ELSE [run.task EXCEPT !.pc = "ended", !.status = "NOT_REPRODUCED",
                                         !.stop = IF @ = "completed" THEN "exportMismatch" ELSE @]
       /\ noise' = run.noise
  /\ UNCHANGED <<failure, cancelled, expired>>

\* finish_unavailable: a run that could not start (materialize, RootGuard).
Unavailable ==
  /\ task.pc \in {"initial", "confirm", "try", "export"} /\ noise < MaxNoise
  /\ task.pc = "export" => BudgetStop(task) = None
  /\ task.pc = "try" => BudgetStop(task) = None /\ task.stack # <<>>
  /\ noise' = noise + 1
  /\ Ends("NOT_REPRODUCED", "inconclusive")
  /\ UNCHANGED <<failure, cancelled, expired>>

Cancel == ~cancelled /\ cancelled' = TRUE /\ UNCHANGED <<task, failure, expired, noise>>
Expire == ~expired /\ task # Idle /\ expired' = TRUE /\ UNCHANGED <<task, failure, cancelled, noise>>

Init == task = Idle /\ failure \in Failures /\ cancelled = FALSE /\ expired = FALSE /\ noise = 0
Next ==
  \/ Start \/ Initial \/ Confirm \/ Plan \/ Try \/ TryEnds \/ Cancelled \/ ExportSkipped \/ ExportRun
  \/ Unavailable
  \/ (task.pc # "ended" /\ (Cancel \/ Expire))
Spec == Init /\ [][Next]_vars

\* minimize (repair/minimize.rs): a source published as REPRODUCED was
\* compiled as it is in the clean directory, one published as BEST_KNOWN in
\* the trial directory, and both still fail with the target error and with
\* no error the whole candidate does not have; the compile budget holds.
ReproducerStillFails ==
  task.pc = "ended" =>
    /\ task.status = "REPRODUCED" => <<task.tree, "export">> \in task.proved
    /\ task.status = "BEST_KNOWN_REPRODUCER" => <<task.tree, "trial">> \in task.proved
    /\ task.compiles <= IF task.req.maxCompiles > 1 THEN task.req.maxCompiles ELSE 1

\* minimize: a search that ended by itself, with no run disturbed, leaves
\* nothing that could go: without any single unit the plan still offers, the
\* failure is not what it was.
ReproducerIsMinimal ==
  (task.pc = "ended" /\ task.status = "REPRODUCED" /\ task.stop = "completed" /\ noise = 0) =>
    \A u \in ToSet(PlanUnits(task.tree, task.req)) :
      ~FailsAsBefore(ApplyUnits(task.tree, <<u>>), Errors(Whole))

\* minimize: a published reproducer still fails as the candidate did, and a
\* search that was left alone made it as small as its units allow.
ReproducerIsSound == ReproducerStillFails /\ ReproducerIsMinimal
=============================================================================
