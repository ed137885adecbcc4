---------------------------- MODULE RuntimeCompare ----------------------------
(***************************************************************************)
(* profile runtime_compare (tools/runtime.rs) over the two snapshots of a  *)
(* change (change/runtime.rs), while another call stages or discards the   *)
(* change, the client cancels and the wall budget passes.                  *)
(*                                                                         *)
(* The adapter is the operator's program: it runs in a snapshot, with the  *)
(* build products in the gate's cache of that side, and is external.       *)
(***************************************************************************)
EXTENDS ProfileReport

CONSTANTS
  Changes,          \* the change: [state, revision, root, epoch, base, current, patches, newFiles]
  Copies,           \* what the candidate copy may hold beside the recorded bytes: [other, new]
  Requests,         \* [adapter, revision, root, epoch, samples, warmup, prepare, threshold]
  Durations         \* the time a run of the workload may take

VARIABLES
  change,           \* the record
  copy,             \* the candidate copy on disk: a tree
  cancelled,
  expired,
  scratch,          \* the scratch of the call: the two snapshots, or {}
  call

vars == <<change, copy, cancelled, expired, scratch, call>>

Init ==
  /\ change \in Changes
  /\ copy \in {[file |-> change.current, other |-> c.other, new |-> change.newFiles \union c.new] : c \in Copies}
  /\ cancelled = FALSE /\ expired = FALSE
  /\ scratch = {}
  /\ call \in {[pc |-> "begin", ask |-> r] : r \in Requests}

(***************************************************************************)
(* The environment.                                                        *)
(***************************************************************************)
Open == call.pc # "answered"

ClientCancels ==
  /\ Open /\ ~ cancelled
  /\ cancelled' = TRUE
  /\ UNCHANGED <<change, copy, expired, scratch, call>>

Expire ==
  /\ Open /\ ~ expired
  /\ expired' = TRUE
  /\ UNCHANGED <<change, copy, cancelled, scratch, call>>

\* Another call stages the change again; the stripe keeps it out while the
\* snapshots are made.
Restage ==
  /\ Open /\ change.state = "ready" /\ change.revision = 1
  /\ change' = [change EXCEPT !.revision = 2, !.current = <<"z", "b">>, !.patches = <<[old |-> "a", new |-> "z"]>>]
  /\ copy' = [copy EXCEPT !.file = <<"z", "b">>]
  /\ UNCHANGED <<cancelled, expired, scratch, call>>

Discard ==
  /\ Open /\ change.state = "ready"
  /\ change' = [change EXCEPT !.state = "discarded"]
  /\ UNCHANGED <<copy, cancelled, expired, scratch, call>>

(***************************************************************************)
(* The comparison.                                                         *)
(***************************************************************************)
Verdict(status, verdict, exportable) == [status |-> status, verdict |-> verdict, exportable |-> exportable]

\* compare: the scratch is removed however execute ends; when it cannot be,
\* the answer carries a warning.
Answer(answer) ==
  \E removed \in BOOLEAN :
    /\ scratch' = IF removed THEN {} ELSE scratch
    /\ call' = [pc |-> "answered", ask |-> call.ask, answer |-> answer,
                warned |-> ~ removed /\ scratch # {},
                raw |-> IF "raw" \in DOMAIN call THEN call.raw ELSE <<>>,
                passed |-> IF "gates" \in DOMAIN call THEN call.gates ELSE <<>>,
                pair |-> IF "pair" \in DOMAIN call THEN call.pair ELSE <<>>]

Ends(status) == Answer(Verdict(status, "none", FALSE))

\* adapter and workload are configured by the operator.
Begin ==
  /\ call.pc = "begin"
  /\ CASE ~ call.ask.adapter -> Ends("INCONCLUSIVE")
       [] cancelled -> Ends("CANCELLED")
       [] expired -> Ends("BUDGET_EXHAUSTED")
       [] OTHER -> call' = [call EXCEPT !.pc = "materialize"] /\ scratch' = scratch
  /\ UNCHANGED <<change, copy, cancelled, expired>>

\* materialize_runtime_snapshots and snapshot_failure, then the binding; a file of
\* the workspace or of the scratch may turn out unreadable.
Materialize ==
  LET pair == Snapshots(change, copy)
      ask == call.ask
  IN /\ call.pc = "materialize"
     /\ \/ ~ cancelled /\ Ends("UNAVAILABLE")
        \/ CASE cancelled -> Ends("CANCELLED")
             [] change.state # "ready" \/ ask.revision # change.revision -> Ends("INCOMPARABLE")
             [] ~ pair.available -> Ends("INCOMPARABLE")
             [] change.root # ask.root \/ change.epoch # ask.epoch -> Ends("INCOMPARABLE")
             [] pair.baseline = pair.candidate -> Ends("INCOMPARABLE")
             [] OTHER ->
                  /\ scratch' = {"baseline", "candidate"}
                  /\ call' = [call EXCEPT !.pc = "toolchain"]
                             @@ [pair |-> [baseline |-> pair.baseline, candidate |-> pair.candidate,
                                           base |-> change.base, current |-> change.current,
                                           new |-> change.newFiles]]
     /\ UNCHANGED <<change, copy, cancelled, expired>>

\* A process of the supervisor fails by itself, or because it was stopped.
Fails(ok) == ok => ~ (cancelled \/ expired)

ProbeToolchain ==
  /\ call.pc = "toolchain"
  /\ \E available \in BOOLEAN :
       /\ Fails(available)
       /\ IF available
            THEN call' = [call EXCEPT !.pc = "gate"] @@ [gates |-> <<>>, raw |-> <<>>] /\ UNCHANGED scratch
            ELSE Ends("INCONCLUSIVE")
  /\ UNCHANGED <<change, copy, cancelled, expired>>

\* run_gate: the baseline, then the candidate.  A gate that was not started
\* or did not end is one that has not passed.
RunGate ==
  /\ call.pc = "gate" /\ Len(call.gates) < 2
  /\ \E passed \in BOOLEAN :
       /\ Fails(passed)
       /\ call' = [call EXCEPT !.gates = Append(@, passed)]
  /\ UNCHANGED <<change, copy, cancelled, expired, scratch>>

\* Mutant: only the candidate has to pass.
JudgeGates_CandidateOnly ==
  /\ call.pc = "gate" /\ Len(call.gates) = 2
  /\ CASE cancelled -> Ends("CANCELLED")
       [] ~ call.gates[2] -> Ends("REJECTED")
       [] OTHER -> /\ call' = [call EXCEPT !.pc = IF call.ask.prepare THEN "prepare" ELSE "sample"] @@ [prepared |-> 0]
                   /\ UNCHANGED scratch
  /\ UNCHANGED <<change, copy, cancelled, expired>>

JudgeGates ==
  /\ call.pc = "gate" /\ Len(call.gates) = 2
  /\ CASE cancelled -> Ends("CANCELLED")
       [] ~ call.gates[1] -> Ends("INCONCLUSIVE")
       [] ~ call.gates[2] -> Ends("REJECTED")
       [] OTHER -> /\ call' = [call EXCEPT !.pc = IF call.ask.prepare THEN "prepare" ELSE "sample"] @@ [prepared |-> 0]
                   /\ UNCHANGED scratch
  /\ UNCHANGED <<change, copy, cancelled, expired>>

\* The prepare command of each side, apart from the measured runs.
Prepare ==
  /\ call.pc = "prepare"
  /\ CASE call.prepared = 2 -> call' = [call EXCEPT !.pc = "sample"] /\ UNCHANGED scratch
       [] cancelled -> Ends("CANCELLED")
       [] expired -> Ends("BUDGET_EXHAUSTED")
       [] OTHER -> \/ call' = [call EXCEPT !.prepared = @ + 1] /\ UNCHANGED scratch
                   \/ Ends("INCONCLUSIVE")
                   \/ Ends("UNAVAILABLE")
  /\ UNCHANGED <<change, copy, cancelled, expired>>

Needed == 2 * (call.ask.warmup + call.ask.samples)
\* The pairs alternate: the side that ran first runs second in the next one.
NextSide ==
  LET n == Len(call.raw)
      baselineFirst == (n \div 2) % 2 = 0
  IN IF baselineFirst = (n % 2 = 0) THEN "baseline" ELSE "candidate"
NextPhase == IF Len(call.raw) \div 2 < call.ask.warmup THEN "warmup" ELSE "measured"

\* One run of the workload.
Sample ==
  /\ call.pc = "sample" /\ Len(call.raw) < Needed
  /\ CASE cancelled -> Ends("CANCELLED")
       [] expired -> call' = [call EXCEPT !.pc = "short"] /\ UNCHANGED scratch
       [] OTHER ->
            \E ms \in Durations, clean \in BOOLEAN :
              /\ call' = [call EXCEPT !.raw = Append(@, [side |-> NextSide, phase |-> NextPhase, ms |-> ms, clean |-> clean])]
              /\ UNCHANGED scratch
  /\ UNCHANGED <<change, copy, cancelled, expired>>

\* What the samples show.
Judge ==
  LET base == MeasuredValues(call.raw, "baseline")
      cand == MeasuredValues(call.raw, "candidate")
  IN CASE call.pc = "short" -> "INCONCLUSIVE"
       [] Len(base) < call.ask.samples \/ Len(cand) < call.ask.samples \/ call.ask.samples < 2 -> "INCONCLUSIVE"
       [] Noisy(base) \/ Noisy(cand) \/ Median(base) = 0 -> "INCONCLUSIVE"
       [] OTHER -> ClassifyRuntimeVerdict(Median(base), Median(cand), call.ask.threshold)

\* The end of execute: the verdict.
Conclude ==
  /\ call.pc = "short" \/ (call.pc = "sample" /\ Len(call.raw) = Needed)
  /\ CASE cancelled -> Ends("CANCELLED")
       [] Judge = "INCONCLUSIVE" -> Ends("INCONCLUSIVE")
       [] OTHER -> Answer(Verdict("COMPARABLE", Judge, Judge # "BASELINE_FASTER"))
  /\ UNCHANGED <<change, copy, cancelled, expired>>

Next ==
  \/ ClientCancels \/ Expire \/ Restage \/ Discard
  \/ Begin \/ Materialize \/ ProbeToolchain \/ RunGate \/ JudgeGates \/ Prepare \/ Sample \/ Conclude

Spec == Init /\ [][Next]_vars

(***************************************************************************)
(* Properties.                                                             *)
(***************************************************************************)
\* A verdict is earned (execute, materialize_runtime_snapshots): the two
\* sides that were measured are, byte for byte, the captured source and the
\* revision the caller named, whatever was staged while they ran or had
\* drifted in the candidate copy; both passed their correctness gate before
\* the first sample; each side gave the required number of clean samples in
\* alternating order; and only a candidate that is not slower is exportable.
VerdictIsEarned ==
  call.pc = "answered" /\ call.answer.status = "COMPARABLE" =>
    LET ran(side) == SelectSeq(call.raw, LAMBDA s : s.side = side /\ s.phase = "measured" /\ s.clean)
        cost(side) == Median([k \in DOMAIN ran(side) |-> ran(side)[k].ms])
    IN /\ call.pair.baseline = [file |-> call.pair.base, other |-> "captured", new |-> {}]
       /\ call.pair.candidate = [file |-> call.pair.current, other |-> "captured", new |-> call.pair.new]
       /\ call.passed = <<TRUE, TRUE>>
       /\ \A side \in {"baseline", "candidate"} : Len(ran(side)) >= Max({2, call.ask.samples})
       /\ \A k \in 1..(Len(call.raw) \div 2) : call.raw[2 * k - 1].side # call.raw[2 * k].side
       /\ call.answer.verdict = "CANDIDATE_FASTER" => cost("candidate") < cost("baseline")
       /\ call.answer.exportable => cost("candidate") * 100 < cost("baseline") * (100 + call.ask.threshold)
===============================================================================
