----------------------------- MODULE WorkService -----------------------------
(***************************************************************************)
(* The bounded work executor: records in memory, driven by the calls       *)
(* start and resume, and touched by inspect and cancel at any moment.      *)
(* (work/service.rs)                                                       *)
(*                                                                         *)
(* Every action of the service loads a copy of the record, works on it     *)
(* across awaits, and writes it back; only resume holds the stripe lock of *)
(* the work meanwhile.  The id of a work is the name of the call that      *)
(* started it.  A change is seen through the answers of ChangeService: its *)
(* revision, and whether it can be staged into; ids are guessable, so a    *)
(* call may name any work and any change.                                  *)
(***************************************************************************)
EXTENDS Integers, FiniteSets

CONSTANTS Call,          \* requests; a start names its work
          Change,        \* changes of the scratch directory
          NGates,        \* acceptance gates of the intents (unique_gates)
          Cand,          \* candidates, identified by their fingerprint
          Scoped,        \* the candidates inside the scope of the intent
          Diag,          \* fingerprints of failures
          MaxActive,     \* work.max_active
          MaxRecords,    \* MAX_WORK_RECORDS
          MaxCandidates, MaxCompiles, MaxHandoffs, \* WorkBudget
          MaxRevisions,  \* revisions a change can reach
          MaxEvents,     \* bound on what the world around does
          None

ASSUME BoundsAreNat == /\ MaxActive \in Nat /\ MaxRecords \in Nat
                       /\ MaxCandidates \in Nat /\ MaxCompiles \in Nat
                       /\ MaxHandoffs \in Nat /\ MaxRevisions \in Nat
                       /\ MaxEvents \in Nat /\ NGates \in Nat
ASSUME ScopedIsCand == Scoped \subseteq Cand
ASSUME NoneIsNew == None \notin Call \cup Change \cup Cand \cup Diag

VARIABLES records,  \* the map of WorkService, None where there is no record
          stopped,  \* works whose CancellationToken is cancelled
          late,     \* works whose wall time is over
          expired,  \* tokens past their time to live
          sequence, \* tokens issued so far
          change,   \* the changes as their service answers for them
          pc,       \* where a call is
          work,     \* the work it is about
          loc,      \* its copy of the record
          cand,     \* its candidate, None for an empty one
          ran,      \* gates that passed on its candidate; they run in order
          striped,  \* calls that hold the stripe of their work
          gone,     \* calls whose request is cancelled
          events,   \* what the world around did so far
          \* history
          passed,   \* <<change, revision, gate>> with a passing validation
          staged,   \* <<token, call>> that went on to stage a candidate
          spent     \* what was really spent on a work

shared == <<records, stopped, late, expired, sequence>>
local == <<pc, work, loc, cand, ran, striped, gone>>
history == <<passed, staged, spent>>
vars == <<shared, change, local, history, events>>

Terminal == {"ready", "blocked", "failed", "cancelled"}
States == Terminal \cup {"collecting", "staging", "validating", "needs_model"}
Token == Call \X Nat
Count == [cands : 0 .. MaxCandidates, comps : 0 .. MaxCompiles,
          hands : 0 .. MaxHandoffs]
Record == [state : States, chg : Change \cup {None}, rev : 0 .. MaxRevisions,
           n : Count, tok : Token \cup {None}, tokRev : 0 .. MaxRevisions,
           used : BOOLEAN, tried : SUBSET Cand, last : Diag \cup {None}]
Zero == [cands |-> 0, comps |-> 0, hands |-> 0]
NewRecord == [state |-> "collecting", chg |-> None, rev |-> 0, n |-> Zero,
              tok |-> None, tokRev |-> 0, used |-> FALSE, tried |-> {},
              last |-> None]

TypeOK ==
    /\ records \in [Call -> Record \cup {None}]
    /\ stopped \subseteq Call /\ late \subseteq Call
    /\ expired \subseteq Token /\ sequence \in Nat
    /\ change \in [Change -> [state : {"absent", "ready", "dead", "gone"},
                              rev : 0 .. MaxRevisions]]
    /\ pc \in [Call -> {"idle", "insert", "collect", "rebind", "drive", "stage",
                        "gate", "final", "commit", "write", "done"}]
    /\ work \in [Call -> Call]
    /\ loc \in [Call -> Record]
    /\ cand \in [Call -> Cand \cup {None}]
    /\ ran \in [Call -> 0 .. NGates]
    /\ striped \subseteq Call /\ gone \subseteq Call
    /\ passed \subseteq Change \X (0 .. MaxRevisions) \X (1 .. NGates)
    /\ staged \subseteq Token \X Call
    /\ spent \in [Call -> [cands : Nat, comps : Nat, hands : Nat]]
    /\ events \in 0 .. MaxEvents

Init ==
    /\ records = [w \in Call |-> None]
    /\ stopped = {} /\ late = {} /\ expired = {} /\ sequence = 0
    /\ change = [c \in Change |-> [state |-> "absent", rev |-> 0]]
    /\ pc = [k \in Call |-> "idle"] /\ work = [k \in Call |-> k]
    /\ loc = [k \in Call |-> NewRecord]
    /\ cand = [k \in Call |-> None] /\ ran = [k \in Call |-> 0]
    /\ striped = {} /\ gone = {}
    /\ passed = {} /\ staged = {} /\ spent = [w \in Call |-> Zero]
    /\ events = 0

-----------------------------------------------------------------------------
(* Records.                                                                *)

Goto(k, p) == pc' = [pc EXCEPT ![k] = p]
Copy(k, r) == loc' = [loc EXCEPT ![k] = r]
\* WorkRecord::block, ::fail and the assignments of Cancelled and Ready.
InState(r, s) == [r EXCEPT !.state = s]
\* The answer is given: the copy, the stripe and the gates run are dropped.
Answer(k) ==
    /\ Goto(k, "done") /\ Copy(k, NewRecord) /\ work' = [work EXCEPT ![k] = k]
    /\ cand' = [cand EXCEPT ![k] = None] /\ ran' = [ran EXCEPT ![k] = 0]
    /\ striped' = striped \ {k} /\ gone' = gone \ {k}

\* WorkService::set_state: a cancelled record is never revived.
SetState(w, s) ==
    records' = IF records[w] = None \/ records[w].state = "cancelled"
               THEN records
               ELSE [records EXCEPT ![w] = InState(@, s)]

\* WorkService::commit
\* Mutant: a record that is terminal already stays as it is.
Commit_TerminalStays(w, r) ==
    records' = IF records[w] = None \/ records[w].state \in Terminal
               THEN records
               ELSE [records EXCEPT ![w] = r]
Commit(w, r) ==
    records' = IF records[w] = None \/ records[w].state = "cancelled"
               THEN records
               ELSE [records EXCEPT ![w] = r]

\* WorkService::active_count
Active == {w \in Call : records[w] # None /\ records[w].state \notin Terminal}

\* The record as finish_error leaves it (its status is never BLOCKED here).
Failed(r) == IF r.state \in Terminal THEN r ELSE InState(r, "failed")

\* The combined token of WorkService::bridge.  The task that forwards the
\* cancellation may be late: whoever looks may see it, and need not.
MaySeeStop(k) == k \in gone \/ work[k] \in stopped

\* stop_before_candidate
NoCandidateLeft(r, w) == \/ w \in late
                         \/ r.n.cands >= MaxCandidates
                         \/ r.n.comps >= MaxCompiles
\* stop_before_compile
NoCompileLeft(r, w) == w \in late \/ r.n.comps >= MaxCompiles
\* stop_before_handoff
NoHandoffLeft(r, w) == r.n.hands >= MaxHandoffs \/ NoCandidateLeft(r, w)

\* candidate_scope_error
OutOfScope(d) == d # None /\ d \notin Scoped
\* candidate_fingerprint among the tried_fingerprints
Tried(r, d) == d \in r.tried
\* failure_fingerprint, None without diagnostics, as at the last handoff
SameFailure(r, d) == d # None /\ r.last = d

\* issue_token and the state that goes with it, or the budget's refusal.
Handoff(r, w) ==
    IF NoHandoffLeft(r, w) THEN InState(r, "blocked")
    ELSE [r EXCEPT !.state = "needs_model", !.n.hands = @ + 1,
                   !.tok = <<w, sequence + 1>>, !.tokRev = r.rev,
                   !.used = FALSE]
\* The call goes on to finalize with what Handoff made of r.
HandOver(k, r) ==
    LET w == work[k] h == Handoff(r, w)
    IN  /\ Copy(k, h) /\ Goto(k, "final")
        /\ sequence' = IF NoHandoffLeft(r, w) THEN sequence ELSE sequence + 1
        /\ spent' = [spent EXCEPT ![w].hands =
                        IF NoHandoffLeft(r, w) THEN @ ELSE @ + 1]

-----------------------------------------------------------------------------
(* start                                                                   *)

\* WorkService::start up to active_count: an invalid intent, a candidate out
\* of scope, a constraint, the active limit and a cancelled request refuse.
StartCheck(k, c, d) ==
    /\ pc[k] = "idle"
    /\ IF OutOfScope(d) \/ Cardinality(Active) >= MaxActive
       THEN Answer(k)
       ELSE /\ Goto(k, "insert")
            /\ Copy(k, [NewRecord EXCEPT !.chg = c])
            /\ cand' = [cand EXCEPT ![k] = d]
            /\ UNCHANGED <<work, ran, striped, gone>>
    /\ UNCHANGED <<shared, change, history>>

Refuse(k) ==
    /\ pc[k] = "idle" /\ Answer(k)
    /\ UNCHANGED <<shared, change, history>>

\* WorkService::insert: at the limit a terminal record makes room (the least
\* recently updated; time is not modelled).  The record is published without
\* the change it will be bound to.
Insert(k) ==
    /\ pc[k] = "insert"
    /\ LET full == Cardinality({w \in Call : records[w] # None}) >= MaxRecords
           ended == {w \in Call : records[w] # None
                                  /\ records[w].state \in Terminal}
       IN  \E v \in IF full /\ ended # {} THEN ended ELSE {k} :
               records' = [w \in Call |-> IF w = k THEN NewRecord
                                          ELSE IF w = v THEN None
                                          ELSE records[w]]
    /\ Goto(k, "collect")
    /\ UNCHANGED <<stopped, late, expired, sequence, change, work, loc, cand,
                   ran, striped, gone, history>>

\* start adopts the change it was given ...
Adopt(k) ==
    /\ pc[k] = "collect" /\ loc[k].chg # None
    /\ LET c == change[loc[k].chg]
       IN  IF c.state = "ready"
           THEN Copy(k, [loc[k] EXCEPT !.rev = c.rev]) /\ Goto(k, "drive")
           ELSE /\ Copy(k, [loc[k] EXCEPT !.state = "failed", !.chg = None])
                /\ Goto(k, "final")
    /\ UNCHANGED <<shared, change, work, cand, ran, striped, gone, history>>

\* ... or creates one, which may be blocked, fail or be cancelled.
Create(k) ==
    /\ pc[k] = "collect" /\ loc[k].chg = None
    /\ \/ \E c \in Change :
            /\ change[c].state = "absent"
            /\ change' = [change EXCEPT ![c] = [state |-> "ready", rev |-> 0]]
            /\ Copy(k, [loc[k] EXCEPT !.chg = c]) /\ Goto(k, "drive")
       \/ \E s \in {"blocked", "failed", "cancelled"} :
            /\ s = "cancelled" => MaySeeStop(k)
            /\ Copy(k, InState(loc[k], s)) /\ Goto(k, "final")
            /\ UNCHANGED change
    /\ UNCHANGED <<shared, work, cand, ran, striped, gone, history>>

-----------------------------------------------------------------------------
(* resume                                                                  *)

\* The stripe mutex of the work.
\* Mutant: resume does not lock.
StripeFree_Always(w) == TRUE
StripeFree(w) == \A k \in striped : work[k] # w

\* resume up to the consumption of the token t.  The token is marked as used
\* on the copy only.
Resume(k, w, t, d, here) ==
    /\ pc[k] = "idle" /\ StripeFree(w)
    /\ IF records[w] = None
       THEN Answer(k)
       ELSE LET r == records[w] IN
            \/ /\ ~here \/ r.state # "needs_model" \/ r.tok = None
               /\ Copy(k, Failed(r)) /\ Goto(k, "write")
               /\ work' = [work EXCEPT ![k] = w] /\ striped' = striped \cup {k}
               /\ UNCHANGED <<cand, ran, gone>>
            \/ \* WorkService::reject
               /\ here /\ r.state = "needs_model" /\ r.tok # None
               /\ r.used \/ t # r.tok
               /\ Answer(k)
            \/ /\ here /\ r.state = "needs_model" /\ r.tok # None
               /\ ~r.used /\ t = r.tok
               /\ IF t \in expired
                  THEN /\ Copy(k, [r EXCEPT !.used = TRUE, !.state = "blocked"])
                       /\ Goto(k, "write") /\ UNCHANGED cand
                  ELSE /\ Copy(k, [r EXCEPT !.used = TRUE])
                       /\ Goto(k, "rebind") /\ cand' = [cand EXCEPT ![k] = d]
               /\ work' = [work EXCEPT ![k] = w] /\ striped' = striped \cup {k}
               /\ UNCHANGED <<ran, gone>>
    /\ UNCHANGED <<shared, change, history>>

\* resume reads the bound change again and decides whether to go on.
Rebind(k) ==
    /\ pc[k] = "rebind"
    /\ LET r == loc[k]
           inspected == r.chg # None /\ change[r.chg].state \in {"ready", "dead"}
           current == inspected /\ change[r.chg].rev = r.tokRev
       IN  IF ~current
           THEN Copy(k, Failed(r)) /\ Goto(k, "write")
           ELSE IF cand[k] = None \/ NoCandidateLeft(r, work[k])
           THEN Copy(k, InState(r, "blocked")) /\ Goto(k, "write")
           ELSE Goto(k, "drive") /\ UNCHANGED loc
    /\ UNCHANGED <<shared, change, work, cand, ran, striped, gone, history>>

-----------------------------------------------------------------------------
(* drive                                                                   *)

\* No candidate: a handoff for the revision at hand.
DriveHandoff(k) ==
    /\ pc[k] = "drive" /\ cand[k] = None
    /\ HandOver(k, loc[k])
    /\ UNCHANGED <<records, stopped, late, expired, change, work, cand, ran,
                   striped, gone, passed, staged>>

\* The checks before a candidate is staged.
Unfit(k) == \/ OutOfScope(cand[k])
            \/ NoCandidateLeft(loc[k], work[k])
            \/ Tried(loc[k], cand[k])

DriveBlocks(k) ==
    /\ pc[k] = "drive" /\ cand[k] # None /\ Unfit(k)
    /\ Copy(k, InState(loc[k], "blocked")) /\ Goto(k, "final")
    /\ UNCHANGED <<shared, change, work, cand, ran, striped, gone, history>>

DriveStages(k) ==
    /\ pc[k] = "drive" /\ cand[k] # None /\ ~Unfit(k)
    /\ Copy(k, InState(loc[k], "staging")) /\ Goto(k, "stage")
    /\ SetState(work[k], "staging")
    /\ staged' = IF loc[k].tok = None THEN staged
                 ELSE staged \cup {<<loc[k].tok, k>>}
    /\ UNCHANGED <<stopped, late, expired, sequence, change, work, cand, ran,
                   striped, gone, passed, spent>>

\* stage and validate refuse any revision but the expected one.
\* Mutant: expectedRevision is not compared.
AtRevision_Unchecked(c, r) == change[c].state = "ready"
AtRevision(c, r) == change[c].state = "ready" /\ change[c].rev = r.rev

\* change(action=stage) has answered STAGED.
Staged(k) ==
    /\ pc[k] = "stage"
    /\ LET r == loc[k] w == work[k]
       IN  /\ r.chg # None /\ AtRevision(r.chg, r)
           /\ change[r.chg].rev < MaxRevisions
           /\ change' = [change EXCEPT ![r.chg].rev = @ + 1]
           /\ Copy(k, [r EXCEPT !.state = "validating", !.rev = change[r.chg].rev + 1,
                                !.n.cands = @ + 1,
                                !.tried = @ \cup {cand[k]}])
           /\ SetState(w, "validating")
           /\ spent' = [spent EXCEPT ![w].cands = @ + 1]
    /\ Goto(k, "gate") /\ ran' = [ran EXCEPT ![k] = 0]
    /\ UNCHANGED <<stopped, late, expired, sequence, work, cand, striped, gone,
                   passed, staged>>

\* It has answered CANCELLED, or anything else: the change may be left
\* inconsistent.
StageFails(k) ==
    /\ pc[k] = "stage"
    /\ \/ /\ MaySeeStop(k) /\ Copy(k, InState(loc[k], "cancelled"))
          /\ UNCHANGED change
       \/ /\ Copy(k, InState(loc[k], "failed"))
          /\ \/ UNCHANGED change
             \/ /\ loc[k].chg # None /\ change[loc[k].chg].state = "ready"
                /\ change' = [change EXCEPT ![loc[k].chg].state = "dead"]
    /\ Goto(k, "final")
    /\ UNCHANGED <<shared, work, cand, ran, striped, gone, history>>

\* The loop over the gates stops before a gate.
GateStops(k) ==
    /\ pc[k] = "gate" /\ ran[k] < NGates
    /\ \/ MaySeeStop(k) /\ Copy(k, InState(loc[k], "cancelled"))
       \/ /\ NoCompileLeft(loc[k], work[k])
          /\ Copy(k, InState(loc[k], "blocked"))
    /\ Goto(k, "final")
    /\ UNCHANGED <<shared, change, work, cand, ran, striped, gone, history>>

\* One more compile is spent.
Compiled(r) == [r EXCEPT !.n.comps = @ + 1]
CanCompile(k) == /\ pc[k] = "gate" /\ ran[k] < NGates
                 /\ ~NoCompileLeft(loc[k], work[k])

\* change(action=validate) has answered PASS ...
GatePasses(k) ==
    /\ CanCompile(k)
    /\ LET r == loc[k] w == work[k]
       IN  /\ r.chg # None /\ AtRevision(r.chg, r)
           /\ Copy(k, Compiled(r))
           /\ spent' = [spent EXCEPT ![w].comps = @ + 1]
           /\ passed' = passed \cup {<<r.chg, change[r.chg].rev, ran[k] + 1>>}
    /\ ran' = [ran EXCEPT ![k] = @ + 1]
    /\ UNCHANGED <<shared, change, pc, work, cand, striped, gone, staged>>

\* ... FAIL with a fingerprint of its diagnostics (None without any):
\* handoff_after_failure ...
GateFails(k, d) ==
    /\ CanCompile(k)
    /\ LET r == Compiled(loc[k]) w == work[k]
           q == [r EXCEPT !.last = IF d = None THEN @ ELSE d]
       IN  /\ r.chg # None /\ AtRevision(r.chg, r)
           /\ IF SameFailure(r, d)
              THEN /\ Copy(k, InState(r, "blocked")) /\ Goto(k, "final")
                   /\ spent' = [spent EXCEPT ![w].comps = @ + 1]
                   /\ UNCHANGED sequence
              ELSE /\ Copy(k, Handoff(q, w)) /\ Goto(k, "final")
                   /\ sequence' = IF NoHandoffLeft(q, w) THEN sequence
                                  ELSE sequence + 1
                   /\ spent' = [spent EXCEPT ![w].comps = @ + 1,
                                  ![w].hands = IF NoHandoffLeft(q, w) THEN @
                                               ELSE @ + 1]
    /\ UNCHANGED <<records, stopped, late, expired, change, work, cand, ran,
                   striped, gone, passed, staged>>

\* ... or CANCELLED, TIMEOUT or anything else.
GateErrs(k) ==
    /\ CanCompile(k)
    /\ \E s \in {"cancelled", "blocked", "failed"} :
         /\ s = "cancelled" => MaySeeStop(k)
         /\ Copy(k, InState(Compiled(loc[k]), s))
    /\ spent' = [spent EXCEPT ![work[k]].comps = @ + 1]
    /\ Goto(k, "final")
    /\ UNCHANGED <<shared, change, work, cand, ran, striped, gone, passed,
                   staged>>

\* Every gate has passed.
GatesDone(k) ==
    /\ pc[k] = "gate" /\ ran[k] = NGates
    /\ Copy(k, InState(loc[k], "ready")) /\ Goto(k, "final")
    /\ UNCHANGED <<shared, change, work, cand, ran, striped, gone, history>>

\* WorkService::finalize looks at the token of the work, and then commits.
Finalize(k) ==
    /\ pc[k] = "final"
    /\ Copy(k, IF work[k] \in stopped THEN InState(loc[k], "cancelled")
               ELSE loc[k])
    /\ Goto(k, "commit")
    /\ UNCHANGED <<shared, change, work, cand, ran, striped, gone, history>>

\* The record is written back and the call answered with its copy.
Finish(k) ==
    /\ pc[k] \in {"commit", "write"}
    /\ Commit(work[k], loc[k]) /\ Answer(k)
    /\ UNCHANGED <<stopped, late, expired, sequence, change, history>>

-----------------------------------------------------------------------------
(* inspect and cancel take no stripe.                                      *)

\* WorkService::cancel loads a copy and cancels the token; Finish writes it.
Cancel(k, w, here) ==
    /\ pc[k] = "idle" /\ records[w] # None
    /\ LET r == records[w] takes == here /\ r.state \notin Terminal
       IN  /\ Copy(k, IF takes THEN InState(r, "cancelled") ELSE Failed(r))
           /\ stopped' = IF takes THEN stopped \cup {w} ELSE stopped
    /\ Goto(k, "write") /\ work' = [work EXCEPT ![k] = w]
    /\ UNCHANGED <<records, late, expired, sequence, change, cand, ran,
                   striped, gone, history>>

\* WorkService::inspect from another workspace or epoch writes an error into
\* the record (finish_error); any other inspection only reads.
Inspect(k, w) ==
    /\ pc[k] = "idle" /\ records[w] # None
    /\ Copy(k, Failed(records[w]))
    /\ Goto(k, "write") /\ work' = [work EXCEPT ![k] = w]
    /\ UNCHANGED <<shared, change, cand, ran, striped, gone, history>>

-----------------------------------------------------------------------------
(* The world around.                                                       *)

\* One more event.
Event == events < MaxEvents /\ events' = events + 1

\* The client cancels a request, or the server shuts down.
RequestCancelled(k) ==
    /\ Event
    /\ pc[k] \in {"insert", "collect", "rebind", "drive", "stage", "gate"}
    /\ k \notin gone
    /\ gone' = gone \cup {k}
    /\ UNCHANGED <<shared, change, pc, work, loc, cand, ran, striped, history>>

WallTimeOver(w) ==
    /\ Event
    /\ records[w] # None /\ w \notin late /\ late' = late \cup {w}
    /\ UNCHANGED <<records, stopped, expired, sequence, change, local, history>>

TokenExpires(w) ==
    /\ Event
    /\ records[w] # None /\ records[w].tok # None
    /\ records[w].tok \notin expired
    /\ expired' = expired \cup {records[w].tok}
    /\ UNCHANGED <<records, stopped, late, sequence, change, local, history>>

\* Other clients of ChangeService.
ChangedElsewhere(c) ==
    /\ Event
    /\ \/ /\ change[c].state = "absent"
          /\ change' = [change EXCEPT ![c].state = "ready"]
       \/ /\ change[c].state = "ready" /\ change[c].rev < MaxRevisions
          /\ change' = [change EXCEPT ![c].rev = @ + 1]
       \/ /\ change[c].state \in {"ready", "dead"}
          /\ change' = [change EXCEPT ![c].state = "gone"]
    /\ UNCHANGED <<shared, local, history>>

Drive(k) ==
    \/ Insert(k) \/ Adopt(k) \/ Create(k) \/ Rebind(k)
    \/ DriveHandoff(k) \/ DriveBlocks(k) \/ DriveStages(k)
    \/ Staged(k) \/ StageFails(k) \/ GateStops(k)
    \/ GatePasses(k)
    \/ \E d \in Diag \cup {None} : GateFails(k, d)
    \/ GateErrs(k) \/ GatesDone(k) \/ Finalize(k) \/ Finish(k)

Arrive(k) ==
    \/ Refuse(k)
    \/ \E c \in Change \cup {None}, d \in Cand \cup {None} : StartCheck(k, c, d)
    \/ \E w \in Call, here \in BOOLEAN, d \in Cand \cup {None} :
         \E n \in 0 .. sequence : Resume(k, w, <<w, n>>, d, here)
    \/ \E w \in Call, here \in BOOLEAN : Cancel(k, w, here)
    \/ \E w \in Call : Inspect(k, w)

Next ==
    \/ \E k \in Call : (Arrive(k) \/ Drive(k)) /\ UNCHANGED events
    \/ \E k \in Call : RequestCancelled(k)
    \/ \E w \in Call : WallTimeOver(w) \/ TokenExpires(w)
    \/ \E c \in Change : ChangedElsewhere(c)

Spec == Init /\ [][Next]_vars

-----------------------------------------------------------------------------
(* Properties.                                                             *)

\* READY is told only of a revision on which every requested gate has passed,
\* although other clients stage into the change between the gates.
\* (drive, outcome_for_record)
ReadyMeansPassed ==
    \A w \in Call : records[w] # None /\ records[w].state = "ready" =>
        \A g \in 1 .. NGates : <<records[w].chg, records[w].rev, g>> \in passed

\* However copies of the record are written back, the compiles, candidates and
\* handoffs that a work really had stay within its budget. (stop_before_*)
BudgetsHold ==
    \A w \in Call : /\ spent[w].cands <= MaxCandidates
                    /\ spent[w].comps <= MaxCompiles
                    /\ spent[w].hands <= MaxHandoffs

\* A continuation token lets at most one call stage, although it is consumed on
\* a copy that is written back much later. (resume)
TokenSingleUse == \A x, y \in staged : x[1] = y[1] => x = y

\* A cancellation that took effect on the token ends in a cancelled record (or
\* one that made room for others), once nobody works on it. (cancel, commit)
CancelTakesEffect ==
    \A w \in stopped :
        \/ records[w] = None \/ records[w].state = "cancelled"
        \/ \E k \in Call : /\ work[k] = w /\ pc[k] = "write"
                            /\ loc[k].state = "cancelled"
=============================================================================
