---------------------------- MODULE ChangeService ----------------------------
(***************************************************************************)
(* One change in the scratch directory: its record on disk, its candidate  *)
(* copy, and the operations of several server processes on it.  Processes  *)
(* crash at any step, record writes fail, and a starting process sweeps    *)
(* and recovers what it finds.  (change/service.rs, change/store.rs)       *)
(*                                                                         *)
(* A file of the candidate holds the bytes of the capture (Base), the      *)
(* bytes written by an operation (the operation's name) or is missing      *)
(* (Absent).  Every operation that writes holds the per-change file lock;  *)
(* a lock dies with its process.  Record writes are atomic (write_atomic). *)
(* Removing the change directory unlinks the lock file: whoever has it open *)
(* goes on, and no longer excludes anybody.                                *)
(***************************************************************************)
EXTENDS Integers, FiniteSets

CONSTANTS Proc,         \* server processes sharing the scratch directory
          Op,           \* requests; each is one call of ChangeService::execute
          ProcOf,       \* the process that serves a request
          File,         \* files of the candidate
          MaxRevisions, \* config.max_revisions
          MaxCrashes,   \* bound on process crashes
          MaxSaveFaults,\* bound on failed record writes
          Base, Absent, \* contents that no operation wrote
          None

ASSUME OpsAreServed == ProcOf \in [Op -> Proc]
ASSUME BoundsAreNat == /\ MaxRevisions \in Nat
                       /\ MaxCrashes \in Nat /\ MaxSaveFaults \in Nat
ASSUME ContentsDiffer == Base \notin Op /\ Absent \notin Op /\ Base # Absent
ASSUME NamesDiffer == None \notin Op \cup Proc /\ Op \cap Proc = {}

VARIABLES state,      \* RecordState on disk, or "absent"
          revision,   \* recorded revision
          hashes,     \* recorded contents (Base where no stage has written)
          evidence,   \* recorded evidence rows
          candidate,  \* contents on disk
          old,        \* the record (or the directory) is older than the TTL
          lock,       \* request or process that holds the file lock, or None
          up,         \* life of a process
          pc,         \* where a request is
          pin,        \* the record as a request has read it before the lock
          todo,       \* files a stage has still to write
          answer,
          crashes, saveFaults

disk == <<state, revision, hashes, evidence, candidate, old>>
faults == <<crashes, saveFaults>>
vars == <<disk, lock, up, pc, pin, todo, answer, faults>>

Content == Op \cup {Base, Absent}
States == {"absent", "capturing", "ready", "applying", "failed", "discarded"}
Row == [rev : Nat, fresh : BOOLEAN, pass : BOOLEAN, saw : [File -> Content]]
Loaded == [rev : 0 .. MaxRevisions, hashes : [File -> Op \cup {Base}],
           evidence : SUBSET Row]
Unread == [rev |-> 0, hashes |-> [f \in File |-> Base], evidence |-> {}]

TypeOK ==
    /\ state \in States /\ revision \in 0 .. MaxRevisions
    /\ hashes \in [File -> Op \cup {Base}]
    /\ evidence \subseteq Row
    /\ candidate \in [File -> Content]
    /\ old \in BOOLEAN
    /\ lock \in Op \cup Proc \cup {None}
    /\ up \in [Proc -> {"down", "sweep", "remove", "rmdir", "recover", "up"}]
    /\ pc \in [Op -> {"idle", "capture", "apply", "validate", "gate", "export",
                      "discard", "remove", "done"}]
    /\ pin \in [Op -> Loaded]
    /\ todo \in [Op -> SUBSET File]
    /\ answer \in [Op -> {"none", "created", "staged", "pass", "fail",
                          "exported", "unverified", "discarded", "verified",
                          "inspected", "refused", "failed_inconsistent"}]
    /\ crashes \in 0 .. MaxCrashes /\ saveFaults \in 0 .. MaxSaveFaults

Init ==
    /\ state = "absent" /\ revision = 0
    /\ hashes = [f \in File |-> Base] /\ evidence = {}
    /\ candidate = [f \in File |-> Absent]
    /\ old = FALSE /\ lock = None
    /\ up = [p \in Proc |-> "up"]
    /\ pc = [o \in Op |-> "idle"]
    /\ pin = [o \in Op |-> Unread]
    /\ todo = [o \in Op |-> {}]
    /\ answer = [o \in Op |-> "none"]
    /\ crashes = 0 /\ saveFaults = 0

-----------------------------------------------------------------------------
(* The record.                                                             *)

\* StoredEvidence::supersede on every row.
Superseded(rows) == {[rev |-> e.rev, fresh |-> FALSE, pass |-> e.pass,
                      saw |-> e.saw] : e \in rows}

\* ChangeRecord::current_revision_fresh_pass
FreshPass == \E e \in evidence : e.rev = revision /\ e.fresh /\ e.pass

\* verify_candidate_bytes: the files some stage has written, and no others.
BytesMatch == \A f \in File : hashes[f] # Base => candidate[f] = hashes[f]

\* ChangeStore::save as a whole: the record is replaced and touched.
Saved(s, rev, hs, rows) ==
    /\ state' = s /\ revision' = rev /\ hashes' = hs /\ evidence' = rows
    /\ old' = FALSE
\* ChangeStore::save fails: the record on disk stays as it is.
SaveFails ==
    /\ saveFaults < MaxSaveFaults /\ saveFaults' = saveFaults + 1
    /\ UNCHANGED <<state, revision, hashes, evidence, old>>
\* A save whose error is not acted upon.
TrySave(s, rev, hs, rows) ==
    \/ Saved(s, rev, hs, rows) /\ UNCHANGED saveFaults
    \/ SaveFails

-----------------------------------------------------------------------------
(* Requests.                                                               *)

Serves(o) == up[ProcOf[o]] = "up"
\* The stripe mutex of the process: stage, validate and discard queue up.
\* (Exports and inspections do not take it.)
Striped(o) == pc[o] \in {"apply", "validate", "gate", "discard", "remove"}
StripeFree(o) == \A x \in Op : ProcOf[x] = ProcOf[o] => ~Striped(x)

At(o, p) == pc[o] = p /\ Serves(o)
Goto(o, p) == pc' = [pc EXCEPT ![o] = p]
\* The client has learnt the id from create.
Ask(o) == At(o, "idle") /\ \E x \in Op : answer[x] = "created"
\* The answer is given; what the request has read is gone.
Finish(o, a) ==
    /\ Goto(o, "done") /\ answer' = [answer EXCEPT ![o] = a]
    /\ pin' = [pin EXCEPT ![o] = Unread] /\ todo' = [todo EXCEPT ![o] = {}]
\* The lock file handle is dropped, by a request or by a sweep.
Release(x) == lock' = IF lock = x THEN None ELSE lock
\* ChangeStore::load before the lock is taken.
Load(o) == pin' = [pin EXCEPT ![o] = [rev |-> revision, hashes |-> hashes,
                                      evidence |-> evidence]]

\* create_blocking: lock a fresh id, publish the Capturing marker.  The id is
\* new, so the directory is, too.
Create(o) ==
    /\ At(o, "idle")
    /\ \A x \in Op : pc[x] = "idle"
    /\ state = "absent" /\ lock = None
    /\ \/ /\ Saved("capturing", 0, [f \in File |-> Base], {})
          /\ lock' = o
          /\ Goto(o, "capture")
          /\ UNCHANGED <<answer, pin, todo, saveFaults>>
       \/ /\ SaveFails
          /\ Finish(o, "refused")
          /\ UNCHANGED lock
    /\ UNCHANGED <<candidate, up, crashes>>

\* capture_tree copies file by file ...
CaptureFile(o, f) ==
    /\ At(o, "capture") /\ candidate[f] = Absent
    /\ candidate' = [candidate EXCEPT ![f] = Base]
    /\ UNCHANGED <<state, revision, hashes, evidence, old, lock, up, pc,
                   pin, todo, answer, faults>>

\* ... and the record becomes Ready.
CaptureDone(o) ==
    /\ At(o, "capture") /\ \A f \in File : candidate[f] = Base
    /\ Saved("ready", 0, hashes, {})
    /\ Release(o)
    /\ Finish(o, "created")
    /\ UNCHANGED <<candidate, up, faults>>

\* Cancelled, over a limit, or a record that cannot be written: the directory
\* is removed, if it can be.
CaptureFails(o) ==
    /\ At(o, "capture")
    /\ \/ state' = "absent" /\ candidate' = [f \in File |-> Absent]
       \/ UNCHANGED <<state, candidate>>
    /\ Release(o)
    /\ Finish(o, "refused")
    /\ UNCHANGED <<revision, hashes, evidence, old, up, faults>>

\* A request that is turned away before it changes anything: NOT_FOUND, STALE,
\* CHANGE_BUSY, PATCH_REJECTED, REVISION_LIMIT, a state other than Ready.
Refuse(o) ==
    /\ Ask(o)
    /\ Finish(o, "refused")
    /\ UNCHANGED <<disk, lock, up, faults>>

\* Mutant: the applying marker already counts the revision it announces.
StageBegin_Counts(o, files) ==
    /\ Ask(o) /\ StripeFree(o)
    /\ lock = None /\ state = "ready" /\ revision < MaxRevisions
    /\ files # {}
    /\ \/ /\ Saved("applying", revision + 1, hashes, evidence)
          /\ lock' = o
          /\ todo' = [todo EXCEPT ![o] = files]
          /\ Goto(o, "apply")
          /\ UNCHANGED <<answer, pin, saveFaults>>
       \/ /\ SaveFails
          /\ Finish(o, "refused")
          /\ UNCHANGED lock
    /\ UNCHANGED <<candidate, up, crashes>>
\* stage_blocking and stage_locked up to the applying marker: everything is
\* read under the lock; a marker that cannot be written refuses the stage.
StageBegin(o, files) ==
    /\ Ask(o) /\ StripeFree(o)
    /\ lock = None /\ state = "ready" /\ revision < MaxRevisions
    /\ files # {}
    /\ \/ /\ Saved("applying", revision, hashes, evidence)
          /\ lock' = o
          /\ todo' = [todo EXCEPT ![o] = files]
          /\ Goto(o, "apply")
          /\ UNCHANGED <<answer, pin, saveFaults>>
       \/ /\ SaveFails
          /\ Finish(o, "refused")
          /\ UNCHANGED lock
    /\ UNCHANGED <<candidate, up, crashes>>

\* apply_plan, one rename.
ApplyFile(o, f) ==
    /\ At(o, "apply") /\ f \in todo[o]
    /\ candidate' = [candidate EXCEPT ![f] = o]
    /\ todo' = [todo EXCEPT ![o] = @ \ {f}]
    /\ UNCHANGED <<state, revision, hashes, evidence, old, lock, up, pc,
                   pin, answer, faults>>

\* A rename or the read-back fails: the record is marked, its evidence kept.
ApplyFails(o) ==
    /\ At(o, "apply")
    /\ TrySave("failed", revision, hashes, evidence)
    /\ Release(o)
    /\ Finish(o, "failed_inconsistent")
    /\ UNCHANGED <<candidate, up, crashes>>

\* The hashes of what this stage wrote, over those already recorded.
StagedHashes(o) == [f \in File |-> IF candidate[f] = o THEN o ELSE hashes[f]]

\* Mutant: published before the last file is in place.
StagePublish_Early(o) ==
    /\ At(o, "apply")
    /\ Saved("ready", revision + 1,
             [f \in File |-> IF f \in todo[o] THEN o ELSE StagedHashes(o)[f]],
             Superseded(evidence))
    /\ Release(o)
    /\ Finish(o, "staged")
    /\ UNCHANGED <<candidate, up, faults>>
\* The new revision is published, with all earlier evidence superseded.
StagePublish(o) ==
    /\ At(o, "apply") /\ todo[o] = {}
    /\ Saved("ready", revision + 1, StagedHashes(o), Superseded(evidence))
    /\ Release(o)
    /\ Finish(o, "staged")
    /\ UNCHANGED <<candidate, up, faults>>

\* The publication fails; the failure itself is recorded if that is possible.
StagePublishFails(o) ==
    /\ At(o, "apply") /\ todo[o] = {}
    /\ saveFaults < MaxSaveFaults
    /\ \/ /\ Saved("failed", revision + 1, StagedHashes(o), Superseded(evidence))
          /\ saveFaults' = saveFaults + 1
       \/ /\ saveFaults + 1 < MaxSaveFaults
          /\ saveFaults' = saveFaults + 2
          /\ UNCHANGED <<state, revision, hashes, evidence, old>>
    /\ Release(o)
    /\ Finish(o, "failed_inconsistent")
    /\ UNCHANGED <<candidate, up, crashes>>

\* validate and export read the record before they have the lock.
Pin(o, k) ==
    /\ Ask(o) /\ (k = "validate" => StripeFree(o))
    /\ state = "ready"
    /\ Load(o)
    /\ Goto(o, k)
    /\ UNCHANGED <<disk, lock, up, todo, answer, faults>>

\* reload_pinned_record under the lock finds another revision or state, or the
\* lock is held: refused.
PinRefused(o) ==
    /\ pc[o] \in {"validate", "export"} /\ Serves(o)
    /\ lock # None \/ state # "ready" \/ revision # pin[o].rev
    /\ Finish(o, "refused")
    /\ UNCHANGED <<disk, lock, up, faults>>

\* Mutant: the record read before the lock is taken to be current.
PinHolds_Unchecked(o) == pc[o] \in {"validate", "export"} /\ Serves(o) /\ lock = None
\* reload_pinned_record
PinHolds(o) ==
    /\ pc[o] \in {"validate", "export"} /\ Serves(o)
    /\ lock = None /\ state = "ready" /\ revision = pin[o].rev

\* verify_candidate_bytes fails: the change is marked inconsistent.
BytesRefused(o) ==
    /\ PinHolds(o) /\ ~BytesMatch
    /\ TrySave("failed", revision, hashes, Superseded(evidence))
    /\ Finish(o, "failed_inconsistent")
    /\ UNCHANGED <<candidate, lock, up, crashes>>

\* validate: lock, touch the record, verify the bytes, start the gate.
ValidateBegin(o) ==
    /\ PinHolds(o) /\ pc[o] = "validate" /\ BytesMatch
    /\ lock' = o
    /\ TrySave(state, revision, hashes, evidence)
    /\ Goto(o, "gate")
    /\ UNCHANGED <<candidate, up, pin, todo, answer, crashes>>

\* The gate has run on the candidate.  fresh is FALSE for a cancelled, timed
\* out or unclean run, or a changed root epoch.  Of more than MAX_RECORDED_-
\* EVIDENCE rows the oldest are drained; a set of rows does not tell how many
\* there are and which came first, so any of the earlier ones may be those.
ValidateEnd(o, fresh, pass) ==
    /\ At(o, "gate")
    /\ LET row == [rev |-> revision, fresh |-> fresh, pass |-> pass,
                   saw |-> candidate]
       IN \E kept \in SUBSET evidence :
              TrySave(state, revision, hashes, kept \cup {row})
    /\ Release(o)
    /\ Finish(o, IF ~fresh THEN "refused" ELSE IF pass THEN "pass" ELSE "fail")
    /\ UNCHANGED <<candidate, up, crashes>>

\* An external dependency is gone: no evidence.
ValidateAborts(o) ==
    /\ At(o, "gate")
    /\ Release(o)
    /\ Finish(o, "refused")
    /\ UNCHANGED <<disk, up, faults>>

\* export: verified or not, by the evidence on record.
Export(o) ==
    /\ PinHolds(o) /\ pc[o] = "export" /\ BytesMatch
    /\ Finish(o, IF FreshPass THEN "exported" ELSE "unverified")
    /\ UNCHANGED <<disk, lock, up, faults>>

\* inspect reads the record without any lock.
Inspect(o) ==
    /\ Ask(o)
    /\ state # "absent"
    /\ Finish(o, IF FreshPass THEN "verified" ELSE "inspected")
    /\ UNCHANGED <<disk, lock, up, faults>>

\* discard reads the record before the lock, too, and does not read it again.
DiscardRead(o) ==
    /\ Ask(o) /\ StripeFree(o)
    /\ state \notin {"absent", "discarded"}
    /\ Load(o)
    /\ Goto(o, "discard")
    /\ UNCHANGED <<disk, lock, up, todo, answer, faults>>

\* Nothing to discard, or discarded already.
DiscardAgain(o) ==
    /\ Ask(o) /\ StripeFree(o)
    /\ state \in {"absent", "discarded"}
    /\ Finish(o, "discarded")
    /\ UNCHANGED <<disk, lock, up, faults>>

DiscardBusy(o) ==
    /\ At(o, "discard") /\ lock # None
    /\ Finish(o, "refused")
    /\ UNCHANGED <<disk, lock, up, faults>>

\* discard_worktree: the candidate is removed file by file ...
DiscardLock(o) ==
    /\ At(o, "discard") /\ lock = None
    /\ lock' = o
    /\ Goto(o, "remove")
    /\ UNCHANGED <<disk, up, pin, todo, answer, faults>>

DiscardFile(o, f) ==
    /\ At(o, "remove") /\ candidate[f] # Absent
    /\ candidate' = [candidate EXCEPT ![f] = Absent]
    /\ UNCHANGED <<state, revision, hashes, evidence, old, lock, up, pc,
                   pin, todo, answer, faults>>

\* ... as far as that works, and the record as it was read is marked.
DiscardSave(o) ==
    /\ At(o, "remove")
    /\ TrySave("discarded", pin[o].rev, pin[o].hashes, Superseded(pin[o].evidence))
    /\ Release(o)
    /\ Finish(o, "discarded")
    /\ UNCHANGED <<candidate, up, crashes>>

-----------------------------------------------------------------------------
(* Processes: crash, restart, sweep, recovery.                             *)

\* The process dies; its requests are gone, its lock is free.
Crash(p) ==
    /\ up[p] # "down" /\ crashes < MaxCrashes
    /\ crashes' = crashes + 1
    /\ up' = [up EXCEPT ![p] = "down"]
    /\ lock' = IF lock = p \/ (lock \in Op /\ ProcOf[lock] = p) THEN None ELSE lock
    /\ pc' = [o \in Op |-> IF ProcOf[o] = p /\ pc[o] # "idle" THEN "done" ELSE pc[o]]
    /\ pin' = [o \in Op |-> IF ProcOf[o] = p THEN Unread ELSE pin[o]]
    /\ todo' = [o \in Op |-> IF ProcOf[o] = p THEN {} ELSE todo[o]]
    /\ UNCHANGED <<disk, answer, saveFaults>>

\* ChangeService::new
Restart(p) ==
    /\ up[p] = "down"
    /\ up' = [up EXCEPT ![p] = "sweep"]
    /\ UNCHANGED <<disk, lock, pc, pin, todo, answer, faults>>

\* Time passes.
Expire ==
    /\ ~old /\ state # "absent"
    /\ old' = TRUE
    /\ UNCHANGED <<state, revision, hashes, evidence, candidate, lock, up, pc,
                   pin, todo, answer, faults>>

\* sweep: busy or not expired.
SweepSkip(p) ==
    /\ up[p] = "sweep"
    /\ lock # None \/ ~old
    /\ up' = [up EXCEPT ![p] = "recover"]
    /\ UNCHANGED <<disk, lock, pc, pin, todo, answer, faults>>

\* Mutant: the lock is not probed.
SweepLock_Blind(p) ==
    /\ up[p] = "sweep" /\ old
    /\ lock' = p
    /\ up' = [up EXCEPT ![p] = "remove"]
    /\ UNCHANGED <<disk, pc, pin, todo, answer, faults>>
\* sweep: the age is read again under the lock.
SweepLock(p) ==
    /\ up[p] = "sweep" /\ lock = None /\ old
    /\ lock' = p
    /\ up' = [up EXCEPT ![p] = "remove"]
    /\ UNCHANGED <<disk, pc, pin, todo, answer, faults>>

\* remove_change_locked, in the order of the directory.
SweepFile(p, f) ==
    /\ up[p] = "remove" /\ candidate[f] # Absent
    /\ candidate' = [candidate EXCEPT ![f] = Absent]
    /\ UNCHANGED <<state, revision, hashes, evidence, old, lock, up, pc,
                   pin, todo, answer, faults>>

SweepRecord(p) ==
    /\ up[p] = "remove" /\ state # "absent"
    /\ state' = "absent"
    /\ UNCHANGED <<revision, hashes, evidence, candidate, old, lock, up, pc,
                   pin, todo, answer, faults>>

\* One removal failed; the rest stays for a later sweep.
SweepFails(p) ==
    /\ up[p] = "remove"
    /\ Release(p)
    /\ up' = [up EXCEPT ![p] = "recover"]
    /\ UNCHANGED <<disk, pc, pin, todo, answer, faults>>

\* All but the lock file is gone.  The lock is dropped first ...
SweepUnlock(p) ==
    /\ up[p] = "remove" /\ state = "absent" /\ \A f \in File : candidate[f] = Absent
    /\ Release(p)
    /\ up' = [up EXCEPT ![p] = "rmdir"]
    /\ UNCHANGED <<disk, pc, pin, todo, answer, faults>>

\* ... and the directory removed with all that has appeared in it since.
SweepRmdir(p) ==
    /\ up[p] = "rmdir"
    /\ state' = "absent" /\ candidate' = [f \in File |-> Absent]
    /\ lock' = None
    /\ up' = [up EXCEPT ![p] = "recover"]
    /\ UNCHANGED <<revision, hashes, evidence, old, pc, pin, todo, answer,
                   faults>>

\* recover_interrupted; a busy change is left alone, and so is an incomplete
\* capture whose directory cannot be removed.
Recover(p) ==
    /\ up[p] = "recover"
    /\ up' = [up EXCEPT ![p] = "up"]
    /\ \/ /\ lock = None /\ state = "applying"
          /\ TrySave("failed", revision, hashes, Superseded(evidence))
          /\ UNCHANGED candidate
       \/ /\ lock = None /\ state = "capturing"
          /\ state' = "absent" /\ candidate' = [f \in File |-> Absent]
          /\ UNCHANGED <<revision, hashes, evidence, old, saveFaults>>
       \/ /\ lock # None \/ state # "applying"
          /\ UNCHANGED <<disk, saveFaults>>
    /\ UNCHANGED <<lock, pc, pin, todo, answer, crashes>>

-----------------------------------------------------------------------------
Step(o) ==
    \/ Create(o) \/ CaptureDone(o) \/ CaptureFails(o)
    \/ \E f \in File : CaptureFile(o, f) \/ ApplyFile(o, f) \/ DiscardFile(o, f)
    \/ Refuse(o) \/ \E k \in {"validate", "export"} : Pin(o, k)
    \/ \E files \in SUBSET File : StageBegin(o, files)
    \/ ApplyFails(o) \/ StagePublish(o) \/ StagePublishFails(o)
    \/ PinRefused(o) \/ BytesRefused(o) \/ ValidateBegin(o) \/ ValidateAborts(o)
    \/ \E fresh, pass \in BOOLEAN : ValidateEnd(o, fresh, pass)
    \/ Export(o) \/ Inspect(o)
    \/ DiscardRead(o) \/ DiscardAgain(o) \/ DiscardBusy(o) \/ DiscardLock(o)
    \/ DiscardSave(o)

Life(p) ==
    \/ Crash(p) \/ Restart(p)
    \/ SweepSkip(p) \/ SweepLock(p) \/ SweepRecord(p)
    \/ \E f \in File : SweepFile(p, f)
    \/ SweepFails(p) \/ SweepUnlock(p) \/ SweepRmdir(p) \/ Recover(p)

Next == (\E o \in Op : Step(o)) \/ (\E p \in Proc : Life(p)) \/ Expire

Spec == Init /\ [][Next]_vars

-----------------------------------------------------------------------------
(* Properties.                                                             *)

\* A Ready record's candidate holds the recorded bytes of every file, or not
\* the file at all (a discard or a sweep was interrupted): never bytes of a
\* revision that was not published, whatever stage crashed, failed to write
\* its record or was recovered (stage_locked, recover_interrupted).
CandidateBytes ==
    state = "ready" => \A f \in File : candidate[f] \in {hashes[f], Absent}

\* A row of evidence that is still called fresh was produced by a gate run on
\* the recorded revision: it saw the recorded bytes of every staged file, and
\* no foreign bytes in any other (validate, StoredEvidence::supersede).
EvidenceIsCurrent ==
    \A e \in evidence : e.fresh =>
        /\ e.rev = revision
        /\ \A f \in File : /\ e.saw[f] \in {hashes[f], Absent}
                           /\ hashes[f] # Base => e.saw[f] = hashes[f]

\* Whoever captures, applies or runs the gate has the change to himself: it
\* stays in the state it was left in, and no sweep, recovery, discard or other
\* process takes it away in the middle (try_lock, sweep, recover_interrupted).
WriterOwnsChange ==
    \A o \in Op :
        /\ pc[o] = "capture" => lock = o /\ state = "capturing"
        /\ pc[o] = "apply" => lock = o /\ state = "applying"
        /\ pc[o] = "gate" => lock = o /\ state = "ready" /\ revision = pin[o].rev

\* export answers EXPORTED only when a gate run passed on these very bytes:
\* every staged file is as that run has compiled it, and no other file differs
\* but by having been removed since (export, reload_pinned_record,
\* verify_candidate_bytes).
ExportStep ==
    \A o \in Op : answer[o] # "exported" /\ answer'[o] = "exported" =>
        \E e \in evidence :
            /\ e.fresh /\ e.pass /\ e.rev = revision
            /\ \A f \in File : /\ candidate[f] \in {e.saw[f], Absent}
                               /\ hashes[f] # Base => candidate[f] = e.saw[f]
ExportsWhatWasChecked == [][ExportStep]_vars

\* The life of a record: an interrupted or failed stage never becomes Ready
\* again, only a complete capture or a published revision does, a discarded
\* change stays discarded until it is swept, and only a discard may record an
\* older revision (recover_interrupted, stage_locked, discard).
RecordStep ==
    /\ state = "discarded" => state' \in {"discarded", "absent"}
    /\ state = "failed" => state' \in {"failed", "discarded", "absent"}
    /\ state # "ready" /\ state' = "ready" =>
           \/ state = "capturing" /\ \A f \in File : candidate[f] = Base
           \/ state = "applying" /\ revision' = revision + 1
    /\ revision' < revision => state' = "discarded"
RecordMovesForward == [][RecordStep]_vars

\* The life a client can rely on: a stage that is under way has not happened
\* yet, and an incomplete capture is no change.
Standing == CASE state \in {"ready", "applying"} -> "open"
           [] state = "failed" -> "broken"
           [] state = "discarded" -> "closed"
           [] OTHER -> "none"
IsOpen == Standing = "open"
Ledger == INSTANCE ChangeLedger WITH
    life <- Standing,
    revision <- IF IsOpen THEN revision ELSE 0,
    contents <- IF IsOpen THEN hashes ELSE [f \in File |-> Base],
    proved <- IsOpen /\ FreshPass,
    exported <- {o \in Op : answer[o] = "exported"}

\* Markers, renames, record writes, pins, evidence rows, crashes, sweeps and
\* recoveries together behave as the ledger: a stage of several files is one
\* publication or none, a proof never passes from one revision to the next and
\* is gone once its row is drained, only a proved revision is exported as
\* verified, and what failed or was discarded never opens again (stage_locked,
\* validate, export, discard, recover_interrupted).
ImplementsLedger == Ledger!Spec

\* inspect answers verified for a change nobody is working on only if the
\* bytes of the candidate are those the passing gate run has seen
\* (StoredEvidence::supersede, data_for_record).
InspectStep ==
    \A o \in Op : answer[o] # "verified" /\ answer'[o] = "verified" /\ lock = None =>
        \E e \in evidence : /\ e.fresh /\ e.pass /\ e.rev = revision
                            /\ \A f \in File : candidate[f] = e.saw[f]
InspectIsHonest == [][InspectStep]_vars

=============================================================================
