------------------------ MODULE ChangeServiceProofs ------------------------
(***************************************************************************)
(* Proofs about ChangeService, for any number of processes, requests,      *)
(* files, revisions, crashes and failed writes.                            *)
(***************************************************************************)
EXTENDS ChangeService, TLAPS

\* A change that is gone never comes back; at most its tombstone does.
Gone == state \in {"absent", "discarded"}

\* Files are removed under the lock, or from a change that is gone already:
\* the lock file may have been unlinked under its holder.
Removers ==
    /\ \A o \in Op : pc[o] = "remove" => lock = o \/ Gone
    /\ \A p \in Proc : up[p] = "remove" => lock = p \/ Gone
    /\ \A p \in Proc : up[p] = "rmdir" => Gone

\* Nothing exists before the first request, so that nobody can be removing
\* what create makes.
Begun ==
    (\A o \in Op : pc[o] = "idle") =>
        /\ state = "absent" /\ revision = 0 /\ ~old
        /\ \A p \in Proc : up[p] \notin {"remove", "rmdir"}

Own == WriterOwnsChange /\ Removers /\ Begun

\* Files differ from the record only where the stage at work has written.
Stages ==
    /\ \A o \in Op : pc[o] = "apply" =>
           /\ revision < MaxRevisions
           /\ \A f \in File : candidate[f] \in {hashes[f], Absent, o}
    /\ state = "capturing" => revision = 0 /\ \A f \in File : hashes[f] = Base

\* The gate runs on verified bytes.
Gated == \A o \in Op : pc[o] = "gate" => BytesMatch

Bytes == CandidateBytes /\ Stages /\ Gated

\* A file may go after the gate has run, and nothing else happens to it.
Dwindles ==
    state = "ready" =>
        \A e \in evidence : e.fresh => \A f \in File : candidate[f] \in {e.saw[f], Absent}

Evidence == EvidenceIsCurrent /\ Dwindles

IInv == TypeOK /\ Own /\ Bytes /\ Evidence

-----------------------------------------------------------------------------
(* Helpers.                                                                *)

\* Nothing read yet is a record all the same.
LEMMA UnreadTyped == Unread \in Loaded
BY BoundsAreNat DEF Unread, Loaded

\* Superseded rows are rows, and none of them is fresh.
LEMMA SupersededTyped ==
    ASSUME NEW rows, rows \subseteq Row
    PROVE  /\ Superseded(rows) \subseteq Row
           /\ \A e \in Superseded(rows) : e.fresh = FALSE
<1>1. ASSUME NEW e \in rows
      PROVE  [rev |-> e.rev, fresh |-> FALSE, pass |-> e.pass, saw |-> e.saw] \in Row
  <2>1. e.rev \in Nat /\ e.pass \in BOOLEAN /\ e.saw \in [File -> Content] BY DEF Row
  <2> QED BY <2>1 DEF Row
<1> QED BY <1>1 DEF Superseded

\* The record as it is read is a record.
LEMMA LoadedTyped ==
    ASSUME TypeOK
    PROVE  [rev |-> revision, hashes |-> hashes, evidence |-> evidence] \in Loaded
BY DEF TypeOK, Loaded

\* What a request has read, field by field.
LEMMA PinTyped ==
    ASSUME TypeOK, NEW o \in Op
    PROVE  /\ pin[o].rev \in 0 .. MaxRevisions
           /\ pin[o].hashes \in [File -> Op \cup {Base}]
           /\ pin[o].evidence \subseteq Row
<1>1. pin[o] \in Loaded BY DEF TypeOK
<1> QED BY <1>1 DEF Loaded

-----------------------------------------------------------------------------
(* Every step keeps the invariant.                                         *)

USE DEF Serves, At, Ask, Goto, Finish, Release, Load, Saved, SaveFails, TrySave,
        vars, disk, faults

\* A step that only moves a request which has written nothing, and never
\* touches the disk or the lock.
Aside(o) ==
    /\ pc[o] \notin {"apply", "capture", "gate", "remove"}
    /\ \E q \in {"validate", "export", "discard", "done"} : pc' = [pc EXCEPT ![o] = q]
    /\ pin' \in [Op -> Loaded]
    /\ \A x \in Op : x # o => pin'[x] = pin[x]
    /\ todo' \in [Op -> SUBSET File]
    /\ answer' \in [Op -> {"none", "created", "staged", "pass", "fail", "exported",
                           "unverified", "discarded", "verified", "inspected",
                           "refused", "failed_inconsistent"}]
    /\ UNCHANGED <<disk, lock, up, faults>>

\* Reading the record, pinning it, inspecting and answering disturb nothing.
LEMMA AsideKeeps == ASSUME IInv, NEW o \in Op, Aside(o) PROVE IInv'
<1> USE DEF IInv, Aside
<1>1. TypeOK'
  <2>1. PICK q \in {"validate", "export", "discard", "done"} : pc' = [pc EXCEPT ![o] = q]
    OBVIOUS
  <2>2. /\ state' \in States /\ revision' \in 0 .. MaxRevisions
        /\ evidence' \subseteq Row /\ old' \in BOOLEAN
        /\ crashes' \in 0 .. MaxCrashes /\ saveFaults' \in 0 .. MaxSaveFaults
    BY DEF TypeOK
  <2> QED BY <2>1, <2>2 DEF TypeOK
<1>2. Own' BY DEF Own, WriterOwnsChange, Removers, Begun, Gone, TypeOK
<1>3. Bytes' BY DEF Bytes, CandidateBytes, Stages, Gated, BytesMatch, TypeOK
<1>4. Evidence' BY DEF Evidence, EvidenceIsCurrent, Dwindles
<1> QED BY <1>1, <1>2, <1>3, <1>4

\* The requests that only read, or are turned away.
LEMMA ReadersStepAside ==
    ASSUME IInv, NEW o \in Op, NEW k \in {"validate", "export"},
           \/ Refuse(o) \/ Pin(o, k) \/ PinRefused(o) \/ Export(o) \/ Inspect(o)
           \/ DiscardRead(o) \/ DiscardAgain(o) \/ DiscardBusy(o)
    PROVE  Aside(o)
<1> USE UnreadTyped, LoadedTyped DEF IInv, TypeOK, Aside, PinHolds
<1>1. CASE Refuse(o) BY <1>1 DEF Refuse
<1>2. CASE Pin(o, k) BY <1>2 DEF Pin
<1>3. CASE PinRefused(o) BY <1>3 DEF PinRefused
<1>4. CASE Export(o) BY <1>4 DEF Export
<1>5. CASE Inspect(o) BY <1>5 DEF Inspect
<1>6. CASE DiscardRead(o) BY <1>6 DEF DiscardRead
<1>7. CASE DiscardAgain(o) BY <1>7 DEF DiscardAgain
<1>8. CASE DiscardBusy(o) BY <1>8 DEF DiscardBusy
<1> QED BY <1>1, <1>2, <1>3, <1>4, <1>5, <1>6, <1>7, <1>8

\* A create starts a change that nobody else has.
LEMMA CreateKeeps == ASSUME IInv, NEW o \in Op, Create(o) PROVE IInv'
<1> USE DEF IInv, Create
<1>1. TypeOK'
  <2>2. evidence' \subseteq Row BY DEF TypeOK
  <2>3. pin' \in [Op -> Loaded] BY UnreadTyped DEF TypeOK
  <2>4. revision' \in 0 .. MaxRevisions BY BoundsAreNat DEF TypeOK
  <2>5. hashes' \in [File -> Op \cup {Base}] BY DEF TypeOK
  <2>6. saveFaults' \in 0 .. MaxSaveFaults BY BoundsAreNat DEF TypeOK
  <2>7. state' \in States /\ old' \in BOOLEAN BY DEF TypeOK, States
  <2> QED BY <2>2, <2>3, <2>4, <2>5, <2>6, <2>7 DEF TypeOK
<1>2. Own'
  BY NamesDiffer DEF Own, WriterOwnsChange, Removers, Begun, Gone, TypeOK
<1>3. Bytes'
  BY ContentsDiffer, NamesDiffer
  DEF Bytes, CandidateBytes, Stages, Gated, BytesMatch, Own, WriterOwnsChange,
      Removers, Begun, Gone, TypeOK, Content
<1>4. Evidence'
  BY ContentsDiffer, NamesDiffer
  DEF Evidence, EvidenceIsCurrent, Dwindles, Bytes, CandidateBytes, Gated,
      BytesMatch, Own, WriterOwnsChange, Removers, Gone
<1> QED BY <1>1, <1>2, <1>3, <1>4

\* A captured file is of a record that is not Ready yet.
LEMMA CaptureFileKeeps ==
    ASSUME IInv, NEW o \in Op, NEW f \in File, CaptureFile(o, f)
    PROVE  IInv'
<1> USE DEF IInv, CaptureFile
<1>1. TypeOK' BY UnreadTyped, BoundsAreNat DEF TypeOK, States, Content
<1>2. Own'
  BY NamesDiffer DEF Own, WriterOwnsChange, Removers, Begun, Gone, TypeOK
<1>3. Bytes'
  BY ContentsDiffer, NamesDiffer
  DEF Bytes, CandidateBytes, Stages, Gated, BytesMatch, Own, WriterOwnsChange,
      Removers, Begun, Gone, TypeOK, Content
<1>4. Evidence'
  BY ContentsDiffer, NamesDiffer
  DEF Evidence, EvidenceIsCurrent, Dwindles, Bytes, CandidateBytes, Gated,
      BytesMatch, Own, WriterOwnsChange, Removers, Gone
<1> QED BY <1>1, <1>2, <1>3, <1>4

\* The capture becomes revision 0, with exactly its bytes.
LEMMA CaptureDoneKeeps ==
    ASSUME IInv, NEW o \in Op, CaptureDone(o)
    PROVE  IInv'
<1> USE DEF IInv, CaptureDone
<1>1. TypeOK'
  <2>2. evidence' \subseteq Row BY DEF TypeOK
  <2>3. pin' \in [Op -> Loaded] BY UnreadTyped DEF TypeOK
  <2>4. revision' \in 0 .. MaxRevisions BY BoundsAreNat DEF TypeOK
  <2>5. hashes' \in [File -> Op \cup {Base}] BY DEF TypeOK
  <2>6. saveFaults' \in 0 .. MaxSaveFaults BY BoundsAreNat DEF TypeOK
  <2>7. state' \in States /\ old' \in BOOLEAN BY DEF TypeOK, States
  <2> QED BY <2>2, <2>3, <2>4, <2>5, <2>6, <2>7 DEF TypeOK
<1>2. Own'
  BY NamesDiffer DEF Own, WriterOwnsChange, Removers, Begun, Gone, TypeOK
<1>3. Bytes'
  BY ContentsDiffer, NamesDiffer
  DEF Bytes, CandidateBytes, Stages, Gated, BytesMatch, Own, WriterOwnsChange,
      Removers, Begun, Gone, TypeOK, Content
<1>4. Evidence'
  BY ContentsDiffer, NamesDiffer
  DEF Evidence, EvidenceIsCurrent, Dwindles, Bytes, CandidateBytes, Gated,
      BytesMatch, Own, WriterOwnsChange, Removers, Gone
<1> QED BY <1>1, <1>2, <1>3, <1>4

\* A capture that fails leaves no Ready record.
LEMMA CaptureFailsKeeps ==
    ASSUME IInv, NEW o \in Op, CaptureFails(o)
    PROVE  IInv'
<1> USE DEF IInv, CaptureFails
<1>1. TypeOK' BY UnreadTyped, BoundsAreNat DEF TypeOK, States, Content
<1>2. Own'
  BY NamesDiffer DEF Own, WriterOwnsChange, Removers, Begun, Gone, TypeOK
<1>3. Bytes'
  BY ContentsDiffer, NamesDiffer
  DEF Bytes, CandidateBytes, Stages, Gated, BytesMatch, Own, WriterOwnsChange,
      Removers, Begun, Gone, TypeOK, Content
<1>4. Evidence'
  BY ContentsDiffer, NamesDiffer
  DEF Evidence, EvidenceIsCurrent, Dwindles, Bytes, CandidateBytes, Gated,
      BytesMatch, Own, WriterOwnsChange, Removers, Gone
<1> QED BY <1>1, <1>2, <1>3, <1>4

\* The applying marker hides the bytes that are about to change.
LEMMA StageBeginKeeps ==
    ASSUME IInv, NEW o \in Op, NEW files \in SUBSET File, StageBegin(o, files)
    PROVE  IInv'
<1> USE DEF IInv, StageBegin
<1>1. TypeOK'
  <2>2. evidence' \subseteq Row BY DEF TypeOK
  <2>3. pin' \in [Op -> Loaded] BY UnreadTyped DEF TypeOK
  <2>4. revision' \in 0 .. MaxRevisions BY BoundsAreNat DEF TypeOK, Bytes, Stages
  <2>5. hashes' \in [File -> Op \cup {Base}] BY DEF TypeOK
  <2>6. saveFaults' \in 0 .. MaxSaveFaults BY BoundsAreNat DEF TypeOK
  <2>7. state' \in States /\ old' \in BOOLEAN BY DEF TypeOK, States
  <2> QED BY <2>2, <2>3, <2>4, <2>5, <2>6, <2>7 DEF TypeOK
<1>2. Own'
  BY NamesDiffer DEF Own, WriterOwnsChange, Removers, Begun, Gone, TypeOK
<1>3. Bytes'
  BY ContentsDiffer, NamesDiffer
  DEF Bytes, CandidateBytes, Stages, Gated, BytesMatch, Own, WriterOwnsChange,
      Removers, Begun, Gone, TypeOK, Content
<1>4. Evidence'
  BY ContentsDiffer, NamesDiffer
  DEF Evidence, EvidenceIsCurrent, Dwindles, Bytes, CandidateBytes, Gated,
      BytesMatch, Own, WriterOwnsChange, Removers, Gone
<1> QED BY <1>1, <1>2, <1>3, <1>4

\* A rename changes the bytes of a record that is not Ready.
LEMMA ApplyFileKeeps ==
    ASSUME IInv, NEW o \in Op, NEW f \in File, ApplyFile(o, f)
    PROVE  IInv'
<1> USE DEF IInv, ApplyFile
<1>1. TypeOK' BY UnreadTyped, BoundsAreNat DEF TypeOK, States, Content
<1>2. Own'
  BY NamesDiffer DEF Own, WriterOwnsChange, Removers, Begun, Gone, TypeOK
<1>3. Bytes'
  BY ContentsDiffer, NamesDiffer
  DEF Bytes, CandidateBytes, Stages, Gated, BytesMatch, Own, WriterOwnsChange,
      Removers, Begun, Gone, TypeOK, Content
<1>4. Evidence'
  BY ContentsDiffer, NamesDiffer
  DEF Evidence, EvidenceIsCurrent, Dwindles, Bytes, CandidateBytes, Gated,
      BytesMatch, Own, WriterOwnsChange, Removers, Gone
<1> QED BY <1>1, <1>2, <1>3, <1>4

\* A stage that stops half way is FailedInconsistent.
LEMMA ApplyFailsKeeps == ASSUME IInv, NEW o \in Op, ApplyFails(o) PROVE IInv'
<1> USE DEF IInv, ApplyFails
<1>1. TypeOK'
  <2>2. evidence' \subseteq Row BY DEF TypeOK
  <2>3. pin' \in [Op -> Loaded] BY UnreadTyped DEF TypeOK
  <2>4. revision' \in 0 .. MaxRevisions BY BoundsAreNat DEF TypeOK
  <2>5. hashes' \in [File -> Op \cup {Base}] BY DEF TypeOK
  <2>6. saveFaults' \in 0 .. MaxSaveFaults BY BoundsAreNat DEF TypeOK
  <2>7. state' \in States /\ old' \in BOOLEAN BY DEF TypeOK, States
  <2> QED BY <2>2, <2>3, <2>4, <2>5, <2>6, <2>7 DEF TypeOK
<1>2. Own'
  BY NamesDiffer DEF Own, WriterOwnsChange, Removers, Begun, Gone, TypeOK
<1>3. Bytes'
  BY ContentsDiffer, NamesDiffer
  DEF Bytes, CandidateBytes, Stages, Gated, BytesMatch, Own, WriterOwnsChange,
      Removers, Begun, Gone, TypeOK, Content
<1>4. Evidence'
  BY ContentsDiffer, NamesDiffer
  DEF Evidence, EvidenceIsCurrent, Dwindles, Bytes, CandidateBytes, Gated,
      BytesMatch, Own, WriterOwnsChange, Removers, Gone
<1> QED BY <1>1, <1>2, <1>3, <1>4

\* The published revision has the bytes just renamed and no fresh evidence.
LEMMA StagePublishKeeps ==
    ASSUME IInv, NEW o \in Op, StagePublish(o)
    PROVE  IInv'
<1> USE DEF IInv, StagePublish, StagedHashes
<1>1. TypeOK'
  <2>1. Superseded(evidence) \subseteq Row BY SupersededTyped DEF TypeOK
  <2>2. evidence' \subseteq Row BY <2>1 DEF TypeOK
  <2>3. pin' \in [Op -> Loaded] BY UnreadTyped DEF TypeOK
  <2>4. revision' \in 0 .. MaxRevisions BY BoundsAreNat DEF TypeOK, Bytes, Stages
  <2>5. hashes' \in [File -> Op \cup {Base}] BY DEF TypeOK
  <2>6. saveFaults' \in 0 .. MaxSaveFaults BY BoundsAreNat DEF TypeOK
  <2>7. state' \in States /\ old' \in BOOLEAN BY DEF TypeOK, States
  <2> QED BY <2>2, <2>3, <2>4, <2>5, <2>6, <2>7 DEF TypeOK
<1>2. Own'
  BY NamesDiffer DEF Own, WriterOwnsChange, Removers, Begun, Gone, TypeOK
<1>3. Bytes'
  BY ContentsDiffer, NamesDiffer
  DEF Bytes, CandidateBytes, Stages, Gated, BytesMatch, Own, WriterOwnsChange,
      Removers, Begun, Gone, TypeOK, Content
<1>4. Evidence'
  BY ContentsDiffer, NamesDiffer
  DEF Evidence, EvidenceIsCurrent, Dwindles, Bytes, CandidateBytes, Gated,
      BytesMatch, Own, WriterOwnsChange, Removers, Gone, Superseded
<1> QED BY <1>1, <1>2, <1>3, <1>4

\* A publication that fails leaves no Ready record.
LEMMA StagePublishFailsKeeps ==
    ASSUME IInv, NEW o \in Op, StagePublishFails(o)
    PROVE  IInv'
<1> USE DEF IInv, StagePublishFails, StagedHashes
<1>1. TypeOK'
  <2>1. Superseded(evidence) \subseteq Row BY SupersededTyped DEF TypeOK
  <2>2. evidence' \subseteq Row BY <2>1 DEF TypeOK
  <2>3. pin' \in [Op -> Loaded] BY UnreadTyped DEF TypeOK
  <2>4. revision' \in 0 .. MaxRevisions BY BoundsAreNat DEF TypeOK, Bytes, Stages
  <2>5. hashes' \in [File -> Op \cup {Base}] BY DEF TypeOK
  <2>6. saveFaults' \in 0 .. MaxSaveFaults BY BoundsAreNat DEF TypeOK
  <2>7. state' \in States /\ old' \in BOOLEAN BY DEF TypeOK, States
  <2> QED BY <2>2, <2>3, <2>4, <2>5, <2>6, <2>7 DEF TypeOK
<1>2. Own'
  BY NamesDiffer DEF Own, WriterOwnsChange, Removers, Begun, Gone, TypeOK
<1>3. Bytes'
  BY ContentsDiffer, NamesDiffer
  DEF Bytes, CandidateBytes, Stages, Gated, BytesMatch, Own, WriterOwnsChange,
      Removers, Begun, Gone, TypeOK, Content
<1>4. Evidence'
  BY ContentsDiffer, NamesDiffer
  DEF Evidence, EvidenceIsCurrent, Dwindles, Bytes, CandidateBytes, Gated,
      BytesMatch, Own, WriterOwnsChange, Removers, Gone, Superseded
<1> QED BY <1>1, <1>2, <1>3, <1>4

\* Bytes that do not match the record make it FailedInconsistent.
LEMMA BytesRefusedKeeps ==
    ASSUME IInv, NEW o \in Op, BytesRefused(o)
    PROVE  IInv'
<1> USE DEF IInv, BytesRefused, PinHolds
<1>1. TypeOK'
  <2>1. Superseded(evidence) \subseteq Row BY SupersededTyped DEF TypeOK
  <2>2. evidence' \subseteq Row BY <2>1 DEF TypeOK
  <2>3. pin' \in [Op -> Loaded] BY UnreadTyped DEF TypeOK
  <2>4. revision' \in 0 .. MaxRevisions BY BoundsAreNat DEF TypeOK
  <2>5. hashes' \in [File -> Op \cup {Base}] BY DEF TypeOK
  <2>6. saveFaults' \in 0 .. MaxSaveFaults BY BoundsAreNat DEF TypeOK
  <2>7. state' \in States /\ old' \in BOOLEAN BY DEF TypeOK, States
  <2> QED BY <2>2, <2>3, <2>4, <2>5, <2>6, <2>7 DEF TypeOK
<1>2. Own'
  BY NamesDiffer DEF Own, WriterOwnsChange, Removers, Begun, Gone, TypeOK
<1>3. Bytes'
  BY ContentsDiffer, NamesDiffer
  DEF Bytes, CandidateBytes, Stages, Gated, BytesMatch, Own, WriterOwnsChange,
      Removers, Begun, Gone, TypeOK, Content
<1>4. Evidence'
  BY ContentsDiffer, NamesDiffer
  DEF Evidence, EvidenceIsCurrent, Dwindles, Bytes, CandidateBytes, Gated,
      BytesMatch, Own, WriterOwnsChange, Removers, Gone, Superseded
<1> QED BY <1>1, <1>2, <1>3, <1>4

\* A gate run starts on the bytes of the record.
LEMMA ValidateBeginKeeps ==
    ASSUME IInv, NEW o \in Op, ValidateBegin(o)
    PROVE  IInv'
<1> USE DEF IInv, ValidateBegin, PinHolds
<1>1. TypeOK'
  <2>2. evidence' \subseteq Row BY DEF TypeOK
  <2>3. pin' \in [Op -> Loaded] BY UnreadTyped DEF TypeOK
  <2>4. revision' \in 0 .. MaxRevisions BY BoundsAreNat DEF TypeOK
  <2>5. hashes' \in [File -> Op \cup {Base}] BY DEF TypeOK
  <2>6. saveFaults' \in 0 .. MaxSaveFaults BY BoundsAreNat DEF TypeOK
  <2>7. state' \in States /\ old' \in BOOLEAN BY DEF TypeOK, States
  <2> QED BY <2>2, <2>3, <2>4, <2>5, <2>6, <2>7 DEF TypeOK
<1>2. Own'
  BY NamesDiffer DEF Own, WriterOwnsChange, Removers, Begun, Gone, TypeOK
<1>3. Bytes'
  BY ContentsDiffer, NamesDiffer
  DEF Bytes, CandidateBytes, Stages, Gated, BytesMatch, Own, WriterOwnsChange,
      Removers, Begun, Gone, TypeOK, Content
<1>4. Evidence'
  BY ContentsDiffer, NamesDiffer
  DEF Evidence, EvidenceIsCurrent, Dwindles, Bytes, CandidateBytes, Gated,
      BytesMatch, Own, WriterOwnsChange, Removers, Gone
<1> QED BY <1>1, <1>2, <1>3, <1>4

\* New evidence is about the bytes the gate has seen.
LEMMA ValidateEndKeeps ==
    ASSUME IInv, NEW o \in Op, NEW fresh \in BOOLEAN, NEW pass \in BOOLEAN, ValidateEnd(o, fresh, pass)
    PROVE  IInv'
<1> USE DEF IInv, ValidateEnd
<1>1. TypeOK'
  <2>2. evidence' \subseteq Row BY DEF TypeOK, Row
  <2>3. pin' \in [Op -> Loaded] BY UnreadTyped DEF TypeOK
  <2>4. revision' \in 0 .. MaxRevisions BY BoundsAreNat DEF TypeOK
  <2>5. hashes' \in [File -> Op \cup {Base}] BY DEF TypeOK
  <2>6. saveFaults' \in 0 .. MaxSaveFaults BY BoundsAreNat DEF TypeOK
  <2>7. state' \in States /\ old' \in BOOLEAN BY DEF TypeOK, States
  <2> QED BY <2>2, <2>3, <2>4, <2>5, <2>6, <2>7 DEF TypeOK
<1>2. Own'
  BY NamesDiffer DEF Own, WriterOwnsChange, Removers, Begun, Gone, TypeOK
<1>3. Bytes'
  BY ContentsDiffer, NamesDiffer
  DEF Bytes, CandidateBytes, Stages, Gated, BytesMatch, Own, WriterOwnsChange,
      Removers, Begun, Gone, TypeOK, Content
<1>4. Evidence'
  BY ContentsDiffer, NamesDiffer
  DEF Evidence, EvidenceIsCurrent, Dwindles, Bytes, CandidateBytes, Gated,
      BytesMatch, Own, WriterOwnsChange, Removers, Gone
<1> QED BY <1>1, <1>2, <1>3, <1>4

\* A gate run without a verdict leaves the evidence as it was.
LEMMA ValidateAbortsKeeps ==
    ASSUME IInv, NEW o \in Op, ValidateAborts(o)
    PROVE  IInv'
<1> USE DEF IInv, ValidateAborts
<1>1. TypeOK' BY UnreadTyped, BoundsAreNat DEF TypeOK, States, Content
<1>2. Own'
  BY NamesDiffer DEF Own, WriterOwnsChange, Removers, Begun, Gone, TypeOK
<1>3. Bytes'
  BY ContentsDiffer, NamesDiffer
  DEF Bytes, CandidateBytes, Stages, Gated, BytesMatch, Own, WriterOwnsChange,
      Removers, Begun, Gone, TypeOK, Content
<1>4. Evidence'
  BY ContentsDiffer, NamesDiffer
  DEF Evidence, EvidenceIsCurrent, Dwindles, Bytes, CandidateBytes, Gated,
      BytesMatch, Own, WriterOwnsChange, Removers, Gone
<1> QED BY <1>1, <1>2, <1>3, <1>4

\* A discard has the change to itself.
LEMMA DiscardLockKeeps ==
    ASSUME IInv, NEW o \in Op, DiscardLock(o)
    PROVE  IInv'
<1> USE DEF IInv, DiscardLock
<1>1. TypeOK' BY UnreadTyped, BoundsAreNat DEF TypeOK, States, Content
<1>2. Own'
  BY NamesDiffer DEF Own, WriterOwnsChange, Removers, Begun, Gone, TypeOK
<1>3. Bytes'
  BY ContentsDiffer, NamesDiffer
  DEF Bytes, CandidateBytes, Stages, Gated, BytesMatch, Own, WriterOwnsChange,
      Removers, Begun, Gone, TypeOK, Content
<1>4. Evidence'
  BY ContentsDiffer, NamesDiffer
  DEF Evidence, EvidenceIsCurrent, Dwindles, Bytes, CandidateBytes, Gated,
      BytesMatch, Own, WriterOwnsChange, Removers, Gone
<1> QED BY <1>1, <1>2, <1>3, <1>4

\* Removing a file never adds bytes of another revision.
LEMMA DiscardFileKeeps ==
    ASSUME IInv, NEW o \in Op, NEW f \in File, DiscardFile(o, f)
    PROVE  IInv'
<1> USE DEF IInv, DiscardFile
<1>1. TypeOK' BY UnreadTyped, BoundsAreNat DEF TypeOK, States, Content
<1>2. Own'
  BY NamesDiffer DEF Own, WriterOwnsChange, Removers, Begun, Gone, TypeOK
<1>3. Bytes'
  BY ContentsDiffer, NamesDiffer
  DEF Bytes, CandidateBytes, Stages, Gated, BytesMatch, Own, WriterOwnsChange,
      Removers, Begun, Gone, TypeOK, Content
<1>4. Evidence'
  BY ContentsDiffer, NamesDiffer
  DEF Evidence, EvidenceIsCurrent, Dwindles, Bytes, CandidateBytes, Gated,
      BytesMatch, Own, WriterOwnsChange, Removers, Gone
<1> QED BY <1>1, <1>2, <1>3, <1>4

\* A discarded record is not Ready.
LEMMA DiscardSaveKeeps ==
    ASSUME IInv, NEW o \in Op, DiscardSave(o)
    PROVE  IInv'
<1> USE DEF IInv, DiscardSave
<1>1. TypeOK'
  <2>1. Superseded(pin[o].evidence) \subseteq Row BY SupersededTyped, PinTyped
  <2>2. evidence' \subseteq Row BY <2>1, PinTyped DEF TypeOK
  <2>3. pin' \in [Op -> Loaded] BY UnreadTyped DEF TypeOK
  <2>4. revision' \in 0 .. MaxRevisions BY PinTyped, BoundsAreNat DEF TypeOK
  <2>5. hashes' \in [File -> Op \cup {Base}] BY PinTyped DEF TypeOK
  <2>6. saveFaults' \in 0 .. MaxSaveFaults BY BoundsAreNat DEF TypeOK
  <2>7. state' \in States /\ old' \in BOOLEAN BY DEF TypeOK, States
  <2> QED BY <2>2, <2>3, <2>4, <2>5, <2>6, <2>7 DEF TypeOK
<1>2. Own'
  BY NamesDiffer DEF Own, WriterOwnsChange, Removers, Begun, Gone, TypeOK
<1>3. Bytes'
  BY ContentsDiffer, NamesDiffer
  DEF Bytes, CandidateBytes, Stages, Gated, BytesMatch, Own, WriterOwnsChange,
      Removers, Begun, Gone, TypeOK, Content
<1>4. Evidence'
  BY ContentsDiffer, NamesDiffer
  DEF Evidence, EvidenceIsCurrent, Dwindles, Bytes, CandidateBytes, Gated,
      BytesMatch, Own, WriterOwnsChange, Removers, Gone, Superseded
<1> QED BY <1>1, <1>2, <1>3, <1>4

\* A crash frees the locks and leaves record and bytes as they are.
LEMMA CrashKeeps == ASSUME IInv, NEW p \in Proc, Crash(p) PROVE IInv'
<1> USE DEF IInv, Crash
<1>1. TypeOK' BY UnreadTyped, BoundsAreNat DEF TypeOK, States, Content
<1>2. Own'
  <2>1. \A o \in Op : pc'[o] \in {"capture", "apply", "gate", "remove"} =>
            ProcOf[o] # p /\ pc'[o] = pc[o] /\ pin'[o] = pin[o]
    BY DEF TypeOK
  <2>2. \A o \in Op : ProcOf[o] # p /\ lock = o => lock' = o
    BY NamesDiffer
  <2>3. WriterOwnsChange' BY <2>1, <2>2 DEF Own, WriterOwnsChange
  <2>4. Removers'
    BY <2>1, <2>2, NamesDiffer, OpsAreServed DEF Own, Removers, Gone, TypeOK
  <2>5. Begun' BY DEF Own, Begun, TypeOK
  <2> QED BY <2>3, <2>4, <2>5 DEF Own
<1>3. Bytes'
  BY ContentsDiffer, NamesDiffer
  DEF Bytes, CandidateBytes, Stages, Gated, BytesMatch, Own, WriterOwnsChange,
      Removers, Begun, Gone, TypeOK, Content
<1>4. Evidence'
  BY ContentsDiffer, NamesDiffer
  DEF Evidence, EvidenceIsCurrent, Dwindles, Bytes, CandidateBytes, Gated,
      BytesMatch, Own, WriterOwnsChange, Removers, Gone
<1> QED BY <1>1, <1>2, <1>3, <1>4

\* A process that starts has no request under way.
LEMMA RestartKeeps == ASSUME IInv, NEW p \in Proc, Restart(p) PROVE IInv'
<1> USE DEF IInv, Restart
<1>1. TypeOK' BY UnreadTyped, BoundsAreNat DEF TypeOK, States, Content
<1>2. Own'
  BY NamesDiffer DEF Own, WriterOwnsChange, Removers, Begun, Gone, TypeOK
<1>3. Bytes'
  BY ContentsDiffer, NamesDiffer
  DEF Bytes, CandidateBytes, Stages, Gated, BytesMatch, Own, WriterOwnsChange,
      Removers, Begun, Gone, TypeOK, Content
<1>4. Evidence'
  BY ContentsDiffer, NamesDiffer
  DEF Evidence, EvidenceIsCurrent, Dwindles, Bytes, CandidateBytes, Gated,
      BytesMatch, Own, WriterOwnsChange, Removers, Gone
<1> QED BY <1>1, <1>2, <1>3, <1>4

\* Time only makes a change fit to be swept.
LEMMA ExpireKeeps == ASSUME IInv, Expire PROVE IInv'
<1> USE DEF IInv, Expire
<1>1. TypeOK' BY UnreadTyped, BoundsAreNat DEF TypeOK, States, Content
<1>2. Own'
  BY NamesDiffer DEF Own, WriterOwnsChange, Removers, Begun, Gone, TypeOK
<1>3. Bytes'
  BY ContentsDiffer, NamesDiffer
  DEF Bytes, CandidateBytes, Stages, Gated, BytesMatch, Own, WriterOwnsChange,
      Removers, Begun, Gone, TypeOK, Content
<1>4. Evidence'
  BY ContentsDiffer, NamesDiffer
  DEF Evidence, EvidenceIsCurrent, Dwindles, Bytes, CandidateBytes, Gated,
      BytesMatch, Own, WriterOwnsChange, Removers, Gone
<1> QED BY <1>1, <1>2, <1>3, <1>4

\* A sweep that finds nothing to do leaves all as it is.
LEMMA SweepSkipKeeps == ASSUME IInv, NEW p \in Proc, SweepSkip(p) PROVE IInv'
<1> USE DEF IInv, SweepSkip
<1>1. TypeOK' BY UnreadTyped, BoundsAreNat DEF TypeOK, States, Content
<1>2. Own'
  BY NamesDiffer DEF Own, WriterOwnsChange, Removers, Begun, Gone, TypeOK
<1>3. Bytes'
  BY ContentsDiffer, NamesDiffer
  DEF Bytes, CandidateBytes, Stages, Gated, BytesMatch, Own, WriterOwnsChange,
      Removers, Begun, Gone, TypeOK, Content
<1>4. Evidence'
  BY ContentsDiffer, NamesDiffer
  DEF Evidence, EvidenceIsCurrent, Dwindles, Bytes, CandidateBytes, Gated,
      BytesMatch, Own, WriterOwnsChange, Removers, Gone
<1> QED BY <1>1, <1>2, <1>3, <1>4

\* A sweep takes a change only when it gets the lock.
LEMMA SweepLockKeeps == ASSUME IInv, NEW p \in Proc, SweepLock(p) PROVE IInv'
<1> USE DEF IInv, SweepLock
<1>1. TypeOK' BY UnreadTyped, BoundsAreNat DEF TypeOK, States, Content
<1>2. Own'
  BY NamesDiffer DEF Own, WriterOwnsChange, Removers, Begun, Gone, TypeOK
<1>3. Bytes'
  BY ContentsDiffer, NamesDiffer
  DEF Bytes, CandidateBytes, Stages, Gated, BytesMatch, Own, WriterOwnsChange,
      Removers, Begun, Gone, TypeOK, Content
<1>4. Evidence'
  BY ContentsDiffer, NamesDiffer
  DEF Evidence, EvidenceIsCurrent, Dwindles, Bytes, CandidateBytes, Gated,
      BytesMatch, Own, WriterOwnsChange, Removers, Gone
<1> QED BY <1>1, <1>2, <1>3, <1>4

\* A swept file is gone.
LEMMA SweepFileKeeps ==
    ASSUME IInv, NEW p \in Proc, NEW f \in File, SweepFile(p, f)
    PROVE  IInv'
<1> USE DEF IInv, SweepFile
<1>1. TypeOK' BY UnreadTyped, BoundsAreNat DEF TypeOK, States, Content
<1>2. Own'
  BY NamesDiffer DEF Own, WriterOwnsChange, Removers, Begun, Gone, TypeOK
<1>3. Bytes'
  BY ContentsDiffer, NamesDiffer
  DEF Bytes, CandidateBytes, Stages, Gated, BytesMatch, Own, WriterOwnsChange,
      Removers, Begun, Gone, TypeOK, Content
<1>4. Evidence'
  BY ContentsDiffer, NamesDiffer
  DEF Evidence, EvidenceIsCurrent, Dwindles, Bytes, CandidateBytes, Gated,
      BytesMatch, Own, WriterOwnsChange, Removers, Gone
<1> QED BY <1>1, <1>2, <1>3, <1>4

\* Without its record a change is absent.
LEMMA SweepRecordKeeps ==
    ASSUME IInv, NEW p \in Proc, SweepRecord(p)
    PROVE  IInv'
<1> USE DEF IInv, SweepRecord
<1>1. TypeOK' BY UnreadTyped, BoundsAreNat DEF TypeOK, States, Content
<1>2. Own'
  BY NamesDiffer DEF Own, WriterOwnsChange, Removers, Begun, Gone, TypeOK
<1>3. Bytes'
  BY ContentsDiffer, NamesDiffer
  DEF Bytes, CandidateBytes, Stages, Gated, BytesMatch, Own, WriterOwnsChange,
      Removers, Begun, Gone, TypeOK, Content
<1>4. Evidence'
  BY ContentsDiffer, NamesDiffer
  DEF Evidence, EvidenceIsCurrent, Dwindles, Bytes, CandidateBytes, Gated,
      BytesMatch, Own, WriterOwnsChange, Removers, Gone
<1> QED BY <1>1, <1>2, <1>3, <1>4

\* A sweep that fails gives the lock back.
LEMMA SweepFailsKeeps ==
    ASSUME IInv, NEW p \in Proc, SweepFails(p)
    PROVE  IInv'
<1> USE DEF IInv, SweepFails
<1>1. TypeOK' BY UnreadTyped, BoundsAreNat DEF TypeOK, States, Content
<1>2. Own'
  BY NamesDiffer DEF Own, WriterOwnsChange, Removers, Begun, Gone, TypeOK
<1>3. Bytes'
  BY ContentsDiffer, NamesDiffer
  DEF Bytes, CandidateBytes, Stages, Gated, BytesMatch, Own, WriterOwnsChange,
      Removers, Begun, Gone, TypeOK, Content
<1>4. Evidence'
  BY ContentsDiffer, NamesDiffer
  DEF Evidence, EvidenceIsCurrent, Dwindles, Bytes, CandidateBytes, Gated,
      BytesMatch, Own, WriterOwnsChange, Removers, Gone
<1> QED BY <1>1, <1>2, <1>3, <1>4

\* The lock is given back before the directory goes.
LEMMA SweepUnlockKeeps ==
    ASSUME IInv, NEW p \in Proc, SweepUnlock(p)
    PROVE  IInv'
<1> USE DEF IInv, SweepUnlock
<1>1. TypeOK' BY UnreadTyped, BoundsAreNat DEF TypeOK, States, Content
<1>2. Own'
  BY NamesDiffer DEF Own, WriterOwnsChange, Removers, Begun, Gone, TypeOK
<1>3. Bytes'
  BY ContentsDiffer, NamesDiffer
  DEF Bytes, CandidateBytes, Stages, Gated, BytesMatch, Own, WriterOwnsChange,
      Removers, Begun, Gone, TypeOK, Content
<1>4. Evidence'
  BY ContentsDiffer, NamesDiffer
  DEF Evidence, EvidenceIsCurrent, Dwindles, Bytes, CandidateBytes, Gated,
      BytesMatch, Own, WriterOwnsChange, Removers, Gone
<1> QED BY <1>1, <1>2, <1>3, <1>4

\* Unlinking the lock file of a swept change frees nobody.
LEMMA SweepRmdirKeeps ==
    ASSUME IInv, NEW p \in Proc, SweepRmdir(p)
    PROVE  IInv'
<1> USE DEF IInv, SweepRmdir
<1>1. TypeOK' BY UnreadTyped, BoundsAreNat DEF TypeOK, States, Content
<1>2. Own'
  BY NamesDiffer DEF Own, WriterOwnsChange, Removers, Begun, Gone, TypeOK
<1>3. Bytes'
  BY ContentsDiffer, NamesDiffer
  DEF Bytes, CandidateBytes, Stages, Gated, BytesMatch, Own, WriterOwnsChange,
      Removers, Begun, Gone, TypeOK, Content
<1>4. Evidence'
  BY ContentsDiffer, NamesDiffer
  DEF Evidence, EvidenceIsCurrent, Dwindles, Bytes, CandidateBytes, Gated,
      BytesMatch, Own, WriterOwnsChange, Removers, Gone
<1> QED BY <1>1, <1>2, <1>3, <1>4

\* Recovery makes no record Ready.
LEMMA RecoverKeeps == ASSUME IInv, NEW p \in Proc, Recover(p) PROVE IInv'
<1> USE DEF IInv, Recover
<1>1. TypeOK'
  <2>1. Superseded(evidence) \subseteq Row BY SupersededTyped DEF TypeOK
  <2>2. evidence' \subseteq Row BY <2>1 DEF TypeOK
  <2>3. pin' \in [Op -> Loaded] BY UnreadTyped DEF TypeOK
  <2>4. revision' \in 0 .. MaxRevisions BY BoundsAreNat DEF TypeOK
  <2>5. hashes' \in [File -> Op \cup {Base}] BY DEF TypeOK
  <2>6. saveFaults' \in 0 .. MaxSaveFaults BY BoundsAreNat DEF TypeOK
  <2>7. state' \in States /\ old' \in BOOLEAN BY DEF TypeOK, States
  <2> QED BY <2>2, <2>3, <2>4, <2>5, <2>6, <2>7 DEF TypeOK, Content
<1>2. Own'
  BY NamesDiffer DEF Own, WriterOwnsChange, Removers, Begun, Gone, TypeOK
<1>3. Bytes'
  BY ContentsDiffer, NamesDiffer
  DEF Bytes, CandidateBytes, Stages, Gated, BytesMatch, Own, WriterOwnsChange,
      Removers, Begun, Gone, TypeOK, Content
<1>4. Evidence'
  BY ContentsDiffer, NamesDiffer
  DEF Evidence, EvidenceIsCurrent, Dwindles, Bytes, CandidateBytes, Gated,
      BytesMatch, Own, WriterOwnsChange, Removers, Gone, Superseded
<1> QED BY <1>1, <1>2, <1>3, <1>4

-----------------------------------------------------------------------------
(* The invariant and what follows from it.                                 *)

\* Initially there is no change.
LEMMA InitHolds == ASSUME Init PROVE IInv
<1>1. TypeOK
  <2>1. pin \in [Op -> Loaded] BY UnreadTyped DEF Init
  <2>2. evidence \subseteq Row BY DEF Init
  <2>3. hashes \in [File -> Op \cup {Base}] /\ candidate \in [File -> Content]
    BY DEF Init, Content
  <2>4. /\ revision \in 0 .. MaxRevisions /\ crashes \in 0 .. MaxCrashes
        /\ saveFaults \in 0 .. MaxSaveFaults
    BY BoundsAreNat DEF Init
  <2>5. state \in States /\ old \in BOOLEAN BY DEF Init, States
  <2> QED BY <2>1, <2>2, <2>3, <2>4, <2>5 DEF Init, TypeOK
<1>2. Own BY DEF Init, Own, WriterOwnsChange, Removers, Begun
<1>3. Bytes BY DEF Init, Bytes, CandidateBytes, Stages, Gated
<1>4. Evidence BY DEF Init, Evidence, EvidenceIsCurrent, Dwindles
<1> QED BY <1>1, <1>2, <1>3, <1>4 DEF IInv

\* Every step keeps the inductive invariant.
LEMMA NextKeeps == ASSUME IInv, [Next]_vars PROVE IInv'
<1>1. CASE UNCHANGED vars
  <2>1. TypeOK' BY <1>1 DEF IInv, TypeOK
  <2>2. Own' BY <1>1 DEF IInv, Own, WriterOwnsChange, Removers, Begun, Gone
  <2>3. Bytes'
    BY <1>1 DEF IInv, Bytes, CandidateBytes, Stages, Gated, BytesMatch
  <2>4. Evidence' BY <1>1 DEF IInv, Evidence, EvidenceIsCurrent, Dwindles
  <2> QED BY <2>1, <2>2, <2>3, <2>4 DEF IInv
<1>2. ASSUME NEW o \in Op, Step(o) PROVE IInv'
  <2>1. CASE Create(o) BY <2>1, CreateKeeps
  <2>2. ASSUME NEW f \in File, CaptureFile(o, f) PROVE IInv'
    BY <2>2, CaptureFileKeeps
  <2>3. CASE CaptureDone(o) BY <2>3, CaptureDoneKeeps
  <2>4. CASE CaptureFails(o) BY <2>4, CaptureFailsKeeps
  <2>5. CASE Refuse(o) BY <2>5, ReadersStepAside, AsideKeeps
  <2>6. ASSUME NEW files \in SUBSET File, StageBegin(o, files) PROVE IInv'
    BY <2>6, StageBeginKeeps
  <2>7. ASSUME NEW f \in File, ApplyFile(o, f) PROVE IInv'
    BY <2>7, ApplyFileKeeps
  <2>8. CASE ApplyFails(o) BY <2>8, ApplyFailsKeeps
  <2>9. CASE StagePublish(o) BY <2>9, StagePublishKeeps
  <2>10. CASE StagePublishFails(o) BY <2>10, StagePublishFailsKeeps
  <2>11. ASSUME NEW k \in {"validate", "export"}, Pin(o, k) PROVE IInv'
    BY <2>11, ReadersStepAside, AsideKeeps
  <2>12. CASE PinRefused(o) BY <2>12, ReadersStepAside, AsideKeeps
  <2>13. CASE BytesRefused(o) BY <2>13, BytesRefusedKeeps
  <2>14. CASE ValidateBegin(o) BY <2>14, ValidateBeginKeeps
  <2>15. ASSUME NEW fresh \in BOOLEAN, NEW pass \in BOOLEAN, ValidateEnd(o, fresh, pass) PROVE IInv'
    BY <2>15, ValidateEndKeeps
  <2>16. CASE ValidateAborts(o) BY <2>16, ValidateAbortsKeeps
  <2>17. CASE Export(o) BY <2>17, ReadersStepAside, AsideKeeps
  <2>18. CASE Inspect(o) BY <2>18, ReadersStepAside, AsideKeeps
  <2>19. CASE DiscardRead(o) BY <2>19, ReadersStepAside, AsideKeeps
  <2>20. CASE DiscardAgain(o) BY <2>20, ReadersStepAside, AsideKeeps
  <2>21. CASE DiscardBusy(o) BY <2>21, ReadersStepAside, AsideKeeps
  <2>22. CASE DiscardLock(o) BY <2>22, DiscardLockKeeps
  <2>23. ASSUME NEW f \in File, DiscardFile(o, f) PROVE IInv'
    BY <2>23, DiscardFileKeeps
  <2>24. CASE DiscardSave(o) BY <2>24, DiscardSaveKeeps
  <2> QED BY <1>2, <2>1, <2>2, <2>3, <2>4, <2>5, <2>6, <2>7, <2>8, <2>9,
      <2>10, <2>11, <2>12, <2>13, <2>14, <2>15, <2>16, <2>17, <2>18, <2>19,
      <2>20, <2>21, <2>22, <2>23, <2>24 DEF Step
<1>3. ASSUME NEW p \in Proc, Life(p) PROVE IInv'
  <2>1. CASE Crash(p) BY <2>1, CrashKeeps
  <2>2. CASE Restart(p) BY <2>2, RestartKeeps
  <2>3. CASE SweepSkip(p) BY <2>3, SweepSkipKeeps
  <2>4. CASE SweepLock(p) BY <2>4, SweepLockKeeps
  <2>5. ASSUME NEW f \in File, SweepFile(p, f) PROVE IInv'
    BY <2>5, SweepFileKeeps
  <2>6. CASE SweepRecord(p) BY <2>6, SweepRecordKeeps
  <2>7. CASE SweepFails(p) BY <2>7, SweepFailsKeeps
  <2>8. CASE SweepUnlock(p) BY <2>8, SweepUnlockKeeps
  <2>9. CASE SweepRmdir(p) BY <2>9, SweepRmdirKeeps
  <2>10. CASE Recover(p) BY <2>10, RecoverKeeps
  <2> QED BY <1>3, <2>1, <2>2, <2>3, <2>4, <2>5, <2>6, <2>7, <2>8, <2>9, <2>10
      DEF Life
<1>4. CASE Expire BY <1>4, ExpireKeeps
<1> QED BY <1>1, <1>2, <1>3, <1>4 DEF Next

\* The inductive invariant holds of every state.
LEMMA Invariance == Spec => []IInv
<1>1. Init => IInv BY InitHolds
<1>2. IInv /\ [Next]_vars => IInv' BY NextKeeps
<1> QED BY <1>1, <1>2, PTL DEF Spec

\* Types: the record, the candidate and every request keep their shape, and
\* the revision never passes the configured limit (REVISION_LIMIT).
THEOREM TypesHold == Spec => []TypeOK
<1>1. IInv => TypeOK BY DEF IInv
<1> QED BY <1>1, Invariance, PTL

\* A Ready change holds no bytes of an unpublished revision, whatever crashed
\* or failed (stage_locked's applying marker, recover_interrupted).
THEOREM ReadyBytesAreRecorded == Spec => []CandidateBytes
<1>1. IInv => CandidateBytes BY DEF IInv, Bytes
<1> QED BY <1>1, Invariance, PTL

\* Fresh evidence is evidence about the recorded revision and its bytes
\* (validate under the lock, StoredEvidence::supersede in every other writer).
THEOREM FreshEvidenceIsCurrent == Spec => []EvidenceIsCurrent
<1>1. IInv => EvidenceIsCurrent BY DEF IInv, Evidence
<1> QED BY <1>1, Invariance, PTL

\* A capture, a stage and a gate run have the change to themselves from their
\* first write to their last, against sweeps and recoveries of other processes
\* and although the lock file itself can be unlinked (try_lock, sweep).
THEOREM WritersAreAlone == Spec => []WriterOwnsChange
<1>1. IInv => WriterOwnsChange BY DEF IInv, Own
<1> QED BY <1>1, Invariance, PTL

\* EXPORTED means that a gate run passed on the bytes of this candidate
\* (export, reload_pinned_record, verify_candidate_bytes).
THEOREM ExportsAreChecked == Spec => ExportsWhatWasChecked
<1>1. IInv /\ [Next]_vars => [ExportStep]_vars
  <2> SUFFICES ASSUME IInv, Next, NEW o \in Op,
                      answer[o] # "exported", answer'[o] = "exported"
               PROVE  \E e \in evidence :
                          /\ e.fresh /\ e.pass /\ e.rev = revision
                          /\ \A f \in File :
                                 /\ candidate[f] \in {e.saw[f], Absent}
                                 /\ hashes[f] # Base => candidate[f] = e.saw[f]
    BY DEF ExportStep
  <2>1. PinHolds(o) /\ BytesMatch /\ FreshPass
    <3>1. ASSUME NEW x \in Op, Step(x) PROVE Export(o) /\ FreshPass
      <4> USE DEF IInv, TypeOK
      <4>1. CASE Create(x) BY <4>1 DEF Create
      <4>2. ASSUME NEW f \in File, CaptureFile(x, f) PROVE Export(o) /\ FreshPass
        BY <4>2 DEF CaptureFile
      <4>3. CASE CaptureDone(x) BY <4>3 DEF CaptureDone
      <4>4. CASE CaptureFails(x) BY <4>4 DEF CaptureFails
      <4>5. CASE Refuse(x) BY <4>5 DEF Refuse
      <4>6. ASSUME NEW files \in SUBSET File, StageBegin(x, files) PROVE Export(o) /\ FreshPass
        BY <4>6 DEF StageBegin
      <4>7. ASSUME NEW f \in File, ApplyFile(x, f) PROVE Export(o) /\ FreshPass
        BY <4>7 DEF ApplyFile
      <4>8. CASE ApplyFails(x) BY <4>8 DEF ApplyFails
      <4>9. CASE StagePublish(x) BY <4>9 DEF StagePublish
      <4>10. CASE StagePublishFails(x) BY <4>10 DEF StagePublishFails
      <4>11. ASSUME NEW k \in {"validate", "export"}, Pin(x, k) PROVE Export(o) /\ FreshPass
        BY <4>11 DEF Pin
      <4>12. CASE PinRefused(x) BY <4>12 DEF PinRefused
      <4>13. CASE BytesRefused(x) BY <4>13 DEF BytesRefused
      <4>14. CASE ValidateBegin(x) BY <4>14 DEF ValidateBegin
      <4>15. ASSUME NEW fresh \in BOOLEAN, NEW pass \in BOOLEAN, ValidateEnd(x, fresh, pass) PROVE Export(o) /\ FreshPass
        BY <4>15 DEF ValidateEnd
      <4>16. CASE ValidateAborts(x) BY <4>16 DEF ValidateAborts
      <4>17. CASE Export(x) BY <4>17 DEF Export
      <4>18. CASE Inspect(x) BY <4>18 DEF Inspect
      <4>19. CASE DiscardRead(x) BY <4>19 DEF DiscardRead
      <4>20. CASE DiscardAgain(x) BY <4>20 DEF DiscardAgain
      <4>21. CASE DiscardBusy(x) BY <4>21 DEF DiscardBusy
      <4>22. CASE DiscardLock(x) BY <4>22 DEF DiscardLock
      <4>23. ASSUME NEW f \in File, DiscardFile(x, f) PROVE Export(o) /\ FreshPass
        BY <4>23 DEF DiscardFile
      <4>24. CASE DiscardSave(x) BY <4>24 DEF DiscardSave
      <4> QED BY <3>1, <4>1, <4>2, <4>3, <4>4, <4>5, <4>6, <4>7, <4>8, <4>9,
          <4>10, <4>11, <4>12, <4>13, <4>14, <4>15, <4>16, <4>17, <4>18,
          <4>19, <4>20, <4>21, <4>22, <4>23, <4>24 DEF Step
    <3>2. ASSUME NEW p \in Proc, Life(p) PROVE answer' = answer
      BY <3>2 DEF Life, Crash, Restart, SweepSkip, SweepLock, SweepRecord,
         SweepFile, SweepFails, SweepUnlock, SweepRmdir, Recover
    <3>3. CASE Expire BY <3>3 DEF Expire
    <3> QED BY <3>1, <3>2, <3>3 DEF Next, Export
  <2>2. PICK e \in evidence : e.rev = revision /\ e.fresh /\ e.pass
    BY <2>1 DEF FreshPass
  <2>3. state = "ready" BY <2>1 DEF PinHolds
  <2>4. \A f \in File : candidate[f] \in {e.saw[f], Absent}
    BY <2>2, <2>3 DEF IInv, Evidence, Dwindles
  <2>5. \A f \in File : hashes[f] # Base => candidate[f] = e.saw[f]
    BY <2>1, <2>2 DEF IInv, Evidence, EvidenceIsCurrent, BytesMatch
  <2> QED BY <2>2, <2>4, <2>5
<1> QED BY <1>1, Invariance, PTL DEF Spec, ExportsWhatWasChecked

\* An interrupted or failed stage never becomes Ready again, a discarded
\* change stays discarded, and only a discard, which saves the record it read
\* before it had the lock, may record an older revision
\* (recover_interrupted, stage_locked, discard).
THEOREM RecordsMoveForward == Spec => RecordMovesForward
<1>1. IInv /\ [Next]_vars => [RecordStep]_vars
  <2> SUFFICES ASSUME IInv, Next PROVE RecordStep
    OBVIOUS
  <2> USE BoundsAreNat
      DEF RecordStep, IInv, TypeOK, Own, WriterOwnsChange, Removers, Begun, Gone,
          Bytes, Stages
  <2>1. ASSUME NEW o \in Op, Step(o) PROVE RecordStep
    <3>1. CASE Create(o) BY <3>1 DEF Create
    <3>2. ASSUME NEW f \in File, CaptureFile(o, f) PROVE RecordStep
      BY <3>2 DEF CaptureFile
    <3>3. CASE CaptureDone(o) BY <3>3 DEF CaptureDone
    <3>4. CASE CaptureFails(o) BY <3>4 DEF CaptureFails
    <3>5. CASE Refuse(o) BY <3>5 DEF Refuse
    <3>6. ASSUME NEW files \in SUBSET File, StageBegin(o, files) PROVE RecordStep
      BY <3>6 DEF StageBegin
    <3>7. ASSUME NEW f \in File, ApplyFile(o, f) PROVE RecordStep
      BY <3>7 DEF ApplyFile
    <3>8. CASE ApplyFails(o) BY <3>8 DEF ApplyFails
    <3>9. CASE StagePublish(o) BY <3>9 DEF StagePublish, StagedHashes
    <3>10. CASE StagePublishFails(o)
      BY <3>10 DEF StagePublishFails, StagedHashes
    <3>11. ASSUME NEW k \in {"validate", "export"}, Pin(o, k) PROVE RecordStep
      BY <3>11 DEF Pin
    <3>12. CASE PinRefused(o) BY <3>12 DEF PinRefused
    <3>13. CASE BytesRefused(o) BY <3>13 DEF BytesRefused, PinHolds
    <3>14. CASE ValidateBegin(o) BY <3>14 DEF ValidateBegin, PinHolds
    <3>15. ASSUME NEW fresh \in BOOLEAN, NEW pass \in BOOLEAN, ValidateEnd(o, fresh, pass) PROVE RecordStep
      BY <3>15 DEF ValidateEnd
    <3>16. CASE ValidateAborts(o) BY <3>16 DEF ValidateAborts
    <3>17. CASE Export(o) BY <3>17 DEF Export, PinHolds
    <3>18. CASE Inspect(o) BY <3>18 DEF Inspect
    <3>19. CASE DiscardRead(o) BY <3>19 DEF DiscardRead
    <3>20. CASE DiscardAgain(o) BY <3>20 DEF DiscardAgain
    <3>21. CASE DiscardBusy(o) BY <3>21 DEF DiscardBusy
    <3>22. CASE DiscardLock(o) BY <3>22 DEF DiscardLock
    <3>23. ASSUME NEW f \in File, DiscardFile(o, f) PROVE RecordStep
      BY <3>23 DEF DiscardFile
    <3>24. CASE DiscardSave(o) BY <3>24, PinTyped DEF DiscardSave
    <3> QED BY <2>1, <3>1, <3>2, <3>3, <3>4, <3>5, <3>6, <3>7, <3>8, <3>9,
        <3>10, <3>11, <3>12, <3>13, <3>14, <3>15, <3>16, <3>17, <3>18, <3>19,
        <3>20, <3>21, <3>22, <3>23, <3>24 DEF Step
  <2>2. ASSUME NEW p \in Proc, Life(p) PROVE RecordStep
    <3>1. CASE Crash(p) BY <3>1 DEF Crash
    <3>2. CASE Restart(p) BY <3>2 DEF Restart
    <3>3. CASE SweepSkip(p) BY <3>3 DEF SweepSkip
    <3>4. CASE SweepLock(p) BY <3>4 DEF SweepLock
    <3>5. ASSUME NEW f \in File, SweepFile(p, f) PROVE RecordStep
      BY <3>5 DEF SweepFile
    <3>6. CASE SweepRecord(p) BY <3>6 DEF SweepRecord
    <3>7. CASE SweepFails(p) BY <3>7 DEF SweepFails
    <3>8. CASE SweepUnlock(p) BY <3>8 DEF SweepUnlock
    <3>9. CASE SweepRmdir(p) BY <3>9 DEF SweepRmdir
    <3>10. CASE Recover(p) BY <3>10 DEF Recover
    <3> QED BY <2>2, <3>1, <3>2, <3>3, <3>4, <3>5, <3>6, <3>7, <3>8, <3>9,
        <3>10 DEF Life
  <2>3. CASE Expire BY <2>3 DEF Expire, RecordStep, IInv, TypeOK
  <2> QED BY <2>1, <2>2, <2>3 DEF Next
<1> QED BY <1>1, Invariance, PTL DEF Spec, RecordMovesForward

-----------------------------------------------------------------------------
(* The service implements the ledger.                                      *)

\* A request answers once, at its end.
AnswersOnce == \A o \in Op : pc[o] # "done" => answer[o] = "none"

\* A stage has written a file or has one to write, so that what it publishes
\* is its own work.
StagesWork ==
    \A o \in Op : pc[o] = "apply" =>
        todo[o] # {} \/ \E f \in File : candidate[f] = o

Records == AnswersOnce /\ StagesWork

\* No step answers twice, and no file of a stage is taken from it before it
\* publishes.
LEMMA RecordsKept == ASSUME IInv, Records, [Next]_vars PROVE Records'
<1> USE DEF Records, AnswersOnce, StagesWork
<1>1. CASE UNCHANGED vars BY <1>1
<1> USE DEF IInv, TypeOK, Own, WriterOwnsChange, Removers, Gone
<1>2. ASSUME NEW o \in Op, Step(o) PROVE Records'
  <2>1. CASE Create(o) BY <2>1 DEF Create
  <2>2. ASSUME NEW f \in File, CaptureFile(o, f) PROVE Records'
    BY <2>2 DEF CaptureFile
  <2>3. CASE CaptureDone(o) BY <2>3 DEF CaptureDone
  <2>4. CASE CaptureFails(o) BY <2>4 DEF CaptureFails
  <2>5. CASE Refuse(o) BY <2>5 DEF Refuse
  <2>6. ASSUME NEW files \in SUBSET File, StageBegin(o, files) PROVE Records'
    BY <2>6 DEF StageBegin
  <2>7. ASSUME NEW f \in File, ApplyFile(o, f) PROVE Records'
    BY <2>7 DEF ApplyFile
  <2>8. CASE ApplyFails(o) BY <2>8 DEF ApplyFails
  <2>9. CASE StagePublish(o) BY <2>9 DEF StagePublish, StagedHashes
  <2>10. CASE StagePublishFails(o) BY <2>10 DEF StagePublishFails, StagedHashes
  <2>11. ASSUME NEW k \in {"validate", "export"}, Pin(o, k) PROVE Records'
    BY <2>11 DEF Pin
  <2>12. CASE PinRefused(o) BY <2>12 DEF PinRefused
  <2>13. CASE BytesRefused(o) BY <2>13 DEF BytesRefused, PinHolds
  <2>14. CASE ValidateBegin(o) BY <2>14 DEF ValidateBegin, PinHolds
  <2>15. ASSUME NEW fresh \in BOOLEAN, NEW pass \in BOOLEAN, ValidateEnd(o, fresh, pass) PROVE Records'
    BY <2>15 DEF ValidateEnd
  <2>16. CASE ValidateAborts(o) BY <2>16 DEF ValidateAborts
  <2>17. CASE Export(o) BY <2>17 DEF Export, PinHolds
  <2>18. CASE Inspect(o) BY <2>18 DEF Inspect
  <2>19. CASE DiscardRead(o) BY <2>19 DEF DiscardRead
  <2>20. CASE DiscardAgain(o) BY <2>20 DEF DiscardAgain
  <2>21. CASE DiscardBusy(o) BY <2>21 DEF DiscardBusy
  <2>22. CASE DiscardLock(o) BY <2>22 DEF DiscardLock
  <2>23. ASSUME NEW f \in File, DiscardFile(o, f) PROVE Records'
    BY <2>23 DEF DiscardFile
  <2>24. CASE DiscardSave(o) BY <2>24 DEF DiscardSave
  <2> QED BY <1>2, <2>1, <2>2, <2>3, <2>4, <2>5, <2>6, <2>7, <2>8, <2>9, <2>10, <2>11, <2>12, <2>13, <2>14, <2>15, <2>16, <2>17, <2>18, <2>19, <2>20, <2>21, <2>22, <2>23, <2>24
      DEF Step
<1>3. ASSUME NEW p \in Proc, Life(p) PROVE Records'
  <2>1. CASE Crash(p) BY <2>1 DEF Crash
  <2>2. CASE Restart(p) BY <2>2 DEF Restart
  <2>3. CASE SweepSkip(p) BY <2>3 DEF SweepSkip
  <2>4. CASE SweepLock(p) BY <2>4 DEF SweepLock
  <2>5. ASSUME NEW f \in File, SweepFile(p, f) PROVE Records'
    BY <2>5, NamesDiffer DEF SweepFile
  <2>6. CASE SweepRecord(p) BY <2>6 DEF SweepRecord
  <2>7. CASE SweepFails(p) BY <2>7 DEF SweepFails
  <2>8. CASE SweepUnlock(p) BY <2>8 DEF SweepUnlock
  <2>9. CASE SweepRmdir(p) BY <2>9 DEF SweepRmdir
  <2>10. CASE Recover(p) BY <2>10 DEF Recover
  <2> QED BY <1>3, <2>1, <2>2, <2>3, <2>4, <2>5, <2>6, <2>7, <2>8, <2>9, <2>10
      DEF Life
<1>4. CASE Expire BY <1>4 DEF Expire
<1> QED BY <1>1, <1>2, <1>3, <1>4 DEF Next

\* Initially nothing was answered.
LEMMA RecordsHold == ASSUME Init PROVE Records
BY DEF Init, Records, AnswersOnce, StagesWork

\* The requests whose export the ledger knows of.
Shown == {o \in Op : answer[o] = "exported"}
\* A step of the ledger, or none.
LedgerStep == [Ledger!Next]_(Ledger!vars)

\* What a request answers is no export unless it says so.
LEMMA AnswersAside ==
    ASSUME IInv, Records, NEW o \in Op, pc[o] # "done", NEW a,
           a # "exported", answer' = [answer EXCEPT ![o] = a]
    PROVE  Shown' = Shown
BY DEF Records, AnswersOnce, Shown, IInv, TypeOK

\* Markers, renames, locks and pins do not show.
LEMMA Unseen ==
    ASSUME UNCHANGED <<revision, hashes>>, FreshPass' = FreshPass,
           Standing' = Standing, Shown' = Shown
    PROVE  LedgerStep
BY DEF LedgerStep, Ledger!vars, IsOpen, Shown

\* A change that is not open shows nothing but how it was left.
LEMMA Left ==
    ASSUME ~IsOpen', Shown' = Shown, Standing' \in {"none", "broken", "closed"},
           Standing \in {"none", "open", "broken", "closed"},
           Standing' = "broken" => Standing \in {"open", "broken"}
    PROVE  LedgerStep
<1>1. CASE ~IsOpen /\ Standing' = Standing
  BY <1>1 DEF LedgerStep, Ledger!vars, Shown
<1>2. CASE IsOpen \/ Standing' # Standing
  <2>1. Ledger!Leave(Standing')
    BY <1>2 DEF Ledger!Leave, Ledger!Blank, IsOpen, Shown
  <2> QED BY <2>1 DEF LedgerStep, Ledger!Next
<1> QED BY <1>1, <1>2

\* Every step of the service is a step of the ledger, or none: only a capture
\* that is done, a publication, a gate run that passes or drains an earlier
\* pass, and a verified export show, and so does whatever ends the change.
LEMMA StepImplements ==
    ASSUME IInv, Records, NEW o \in Op, Step(o)
    PROVE  LedgerStep
<1> USE DEF IInv, TypeOK, Own, WriterOwnsChange, Standing
<1>1. Standing \in {"none", "open", "broken", "closed"} OBVIOUS
<1>2. CASE Create(o)
  <2>1. Standing = "none" /\ Standing' = "none" BY <1>2 DEF Create
  <2>2. Shown' = Shown BY <1>2, AnswersAside DEF Create, Shown
  <2> QED BY <2>1, <2>2, Left DEF IsOpen
<1>3. ASSUME NEW f \in File, CaptureFile(o, f) PROVE LedgerStep
  <2>1. UNCHANGED <<revision, hashes, evidence>> /\ Standing' = Standing BY <1>3 DEF CaptureFile
  <2>2. Shown' = Shown BY <1>3, AnswersAside DEF CaptureFile, Shown
  <2> QED BY <2>1, <2>2, Unseen DEF FreshPass
<1>4. CASE CaptureDone(o)
  <2>1. Shown' = Shown BY <1>4, AnswersAside DEF CaptureDone, Shown
  <2>2. Standing = "none" /\ Standing' = "open" BY <1>4 DEF CaptureDone
  <2>3. revision' = 0 /\ hashes' = [f \in File |-> Base]
    BY <1>4 DEF CaptureDone, Bytes, Stages
  <2>4. ~FreshPass' BY <1>4 DEF CaptureDone, FreshPass
  <2>5. Ledger!Capture BY <2>1, <2>2, <2>3, <2>4 DEF Ledger!Capture, IsOpen, Shown
  <2> QED BY <2>5 DEF LedgerStep, Ledger!Next
<1>5. CASE CaptureFails(o)
  <2>1. Standing' \in {"none", "broken", "closed"} BY <1>5 DEF CaptureFails, States
  <2>2. Shown' = Shown BY <1>5, AnswersAside DEF CaptureFails, Shown
  <2>3. Standing' = "broken" => Standing \in {"open", "broken"} BY <1>5 DEF CaptureFails
  <2> QED BY <1>1, <2>1, <2>2, <2>3, Left DEF IsOpen
<1>6. CASE Refuse(o)
  <2>1. UNCHANGED <<revision, hashes, evidence>> /\ Standing' = Standing BY <1>6 DEF Refuse
  <2>2. Shown' = Shown BY <1>6, AnswersAside DEF Refuse, Shown
  <2> QED BY <2>1, <2>2, Unseen DEF FreshPass
<1>7. ASSUME NEW files \in SUBSET File, StageBegin(o, files) PROVE LedgerStep
  <2>1. UNCHANGED <<revision, hashes, evidence>> /\ Standing' = Standing BY <1>7 DEF StageBegin
  <2>2. Shown' = Shown BY <1>7, AnswersAside DEF StageBegin, Shown
  <2> QED BY <2>1, <2>2, Unseen DEF FreshPass
<1>8. ASSUME NEW f \in File, ApplyFile(o, f) PROVE LedgerStep
  <2>1. UNCHANGED <<revision, hashes, evidence>> /\ Standing' = Standing BY <1>8 DEF ApplyFile
  <2>2. Shown' = Shown BY <1>8, AnswersAside DEF ApplyFile, Shown
  <2> QED BY <2>1, <2>2, Unseen DEF FreshPass
<1>9. CASE ApplyFails(o)
  <2>1. Shown' = Shown BY <1>9, AnswersAside DEF ApplyFails, Shown
  <2>2. Standing = "open" BY <1>9 DEF ApplyFails
  <2>3. CASE state' = "failed" BY <2>1, <2>2, <2>3, Left DEF IsOpen
  <2>4. CASE UNCHANGED <<state, revision, hashes, evidence>>
    BY <2>1, <2>4, Unseen DEF FreshPass
  <2> QED BY <1>9, <2>3, <2>4 DEF ApplyFails
<1>10. CASE StagePublish(o)
  <2> DEFINE files == {f \in File : candidate[f] = o}
  <2>1. Shown' = Shown BY <1>10, AnswersAside DEF StagePublish, Shown
  <2>2. Standing = "open" /\ Standing' = "open" BY <1>10 DEF StagePublish
  <2>3. files # {} BY <1>10 DEF StagePublish, Records, StagesWork
  <2>4. hashes' = [f \in File |-> IF f \in files THEN o ELSE hashes[f]]
    BY <1>10 DEF StagePublish, StagedHashes
  <2>5. ~FreshPass'
    BY <1>10, SupersededTyped DEF StagePublish, FreshPass
  <2>6. Ledger!Publish(o, files)
    BY <1>10, <2>1, <2>2, <2>3, <2>4, <2>5 DEF StagePublish, Ledger!Publish, IsOpen, Shown
  <2> QED BY <2>6 DEF LedgerStep, Ledger!Next
<1>11. CASE StagePublishFails(o)
  <2>1. Shown' = Shown BY <1>11, AnswersAside DEF StagePublishFails, Shown
  <2>2. Standing = "open" BY <1>11 DEF StagePublishFails
  <2>3. CASE state' = "failed" BY <2>1, <2>2, <2>3, Left DEF IsOpen
  <2>4. CASE UNCHANGED <<state, revision, hashes, evidence>>
    BY <2>1, <2>4, Unseen DEF FreshPass
  <2> QED BY <1>11, <2>3, <2>4 DEF StagePublishFails
<1>12. ASSUME NEW k \in {"validate", "export"}, Pin(o, k) PROVE LedgerStep
  <2>1. UNCHANGED <<revision, hashes, evidence>> /\ Standing' = Standing BY <1>12 DEF Pin
  <2>2. Shown' = Shown BY <1>12, AnswersAside DEF Pin, Shown
  <2> QED BY <2>1, <2>2, Unseen DEF FreshPass
<1>13. CASE PinRefused(o)
  <2>1. UNCHANGED <<revision, hashes, evidence>> /\ Standing' = Standing BY <1>13 DEF PinRefused
  <2>2. Shown' = Shown BY <1>13, AnswersAside DEF PinRefused, Shown
  <2> QED BY <2>1, <2>2, Unseen DEF FreshPass
<1>14. CASE BytesRefused(o)
  <2>1. Shown' = Shown BY <1>14, AnswersAside DEF BytesRefused, PinHolds, Shown
  <2>2. Standing = "open" BY <1>14 DEF BytesRefused, PinHolds
  <2>3. CASE state' = "failed" BY <2>1, <2>2, <2>3, Left DEF IsOpen
  <2>4. CASE UNCHANGED <<state, revision, hashes, evidence>>
    BY <2>1, <2>4, Unseen DEF FreshPass
  <2> QED BY <1>14, <2>3, <2>4 DEF BytesRefused
<1>15. CASE ValidateBegin(o)
  <2>1. UNCHANGED <<revision, hashes, evidence>> /\ Standing' = Standing BY <1>15 DEF ValidateBegin
  <2>2. Shown' = Shown BY <1>15, AnswersAside DEF ValidateBegin, Shown
  <2> QED BY <2>1, <2>2, Unseen DEF FreshPass
<1>16. ASSUME NEW fresh \in BOOLEAN, NEW pass \in BOOLEAN, ValidateEnd(o, fresh, pass) PROVE LedgerStep
  <2>1. Shown' = Shown
    <3>1. PICK a : a # "exported" /\ answer' = [answer EXCEPT ![o] = a]
      BY <1>16 DEF ValidateEnd
    <3>2. pc[o] # "done" BY <1>16 DEF ValidateEnd
    <3> QED BY <3>1, <3>2 DEF Records, AnswersOnce, Shown
  <2>2. Standing = "open" /\ Standing' = "open" /\ UNCHANGED <<revision, hashes>>
    BY <1>16 DEF ValidateEnd
  <2>3. FreshPass \in BOOLEAN /\ FreshPass' \in BOOLEAN BY DEF FreshPass
  <2>4. CASE FreshPass' = FreshPass BY <2>1, <2>2, <2>4, Unseen
  <2>5. CASE ~FreshPass /\ FreshPass'
    <3>1. Ledger!Prove BY <2>1, <2>2, <2>5 DEF Ledger!Prove, IsOpen, Shown
    <3> QED BY <3>1 DEF LedgerStep, Ledger!Next
  <2>6. CASE FreshPass /\ ~FreshPass'
    <3>1. Ledger!Forget BY <2>1, <2>2, <2>6 DEF Ledger!Forget, IsOpen, Shown
    <3> QED BY <3>1 DEF LedgerStep, Ledger!Next
  <2> QED BY <2>3, <2>4, <2>5, <2>6
<1>17. CASE ValidateAborts(o)
  <2>1. UNCHANGED <<revision, hashes, evidence>> /\ Standing' = Standing BY <1>17 DEF ValidateAborts
  <2>2. Shown' = Shown BY <1>17, AnswersAside DEF ValidateAborts, Shown
  <2> QED BY <2>1, <2>2, Unseen DEF FreshPass
<1>18. CASE Export(o)
  <2>1. CASE ~FreshPass
    <3>1. UNCHANGED disk BY <1>18 DEF Export
    <3>2. Shown' = Shown BY <1>18, <2>1, AnswersAside DEF Export, PinHolds
    <3> QED BY <3>1, <3>2, Unseen DEF FreshPass
  <2>2. CASE FreshPass
    <3>1. Standing = "open" /\ UNCHANGED disk BY <1>18 DEF Export, PinHolds
    <3>2. Shown' = Shown \cup {o} BY <1>18, <2>2 DEF Export, Shown
    <3>3. Ledger!Export(o)
      BY <2>2, <3>1, <3>2 DEF Ledger!Export, IsOpen, Shown, FreshPass
    <3> QED BY <3>3 DEF LedgerStep, Ledger!Next
  <2> QED BY <2>1, <2>2
<1>19. CASE Inspect(o)
  <2>1. UNCHANGED disk BY <1>19 DEF Inspect
  <2>2. PICK a : a # "exported" /\ answer' = [answer EXCEPT ![o] = a]
    BY <1>19 DEF Inspect
  <2>3. pc[o] # "done" BY <1>19 DEF Inspect
  <2>4. Shown' = Shown BY <2>2, <2>3 DEF Records, AnswersOnce, Shown
  <2> QED BY <2>1, <2>4, Unseen DEF FreshPass
<1>20. CASE DiscardRead(o)
  <2>1. UNCHANGED <<revision, hashes, evidence>> /\ Standing' = Standing BY <1>20 DEF DiscardRead
  <2>2. Shown' = Shown BY <1>20, AnswersAside DEF DiscardRead, Shown
  <2> QED BY <2>1, <2>2, Unseen DEF FreshPass
<1>21. CASE DiscardAgain(o)
  <2>1. UNCHANGED <<revision, hashes, evidence>> /\ Standing' = Standing BY <1>21 DEF DiscardAgain
  <2>2. Shown' = Shown BY <1>21, AnswersAside DEF DiscardAgain, Shown
  <2> QED BY <2>1, <2>2, Unseen DEF FreshPass
<1>22. CASE DiscardBusy(o)
  <2>1. UNCHANGED <<revision, hashes, evidence>> /\ Standing' = Standing BY <1>22 DEF DiscardBusy
  <2>2. Shown' = Shown BY <1>22, AnswersAside DEF DiscardBusy, Shown
  <2> QED BY <2>1, <2>2, Unseen DEF FreshPass
<1>23. CASE DiscardLock(o)
  <2>1. UNCHANGED <<revision, hashes, evidence>> /\ Standing' = Standing BY <1>23 DEF DiscardLock
  <2>2. Shown' = Shown BY <1>23, AnswersAside DEF DiscardLock, Shown
  <2> QED BY <2>1, <2>2, Unseen DEF FreshPass
<1>24. ASSUME NEW f \in File, DiscardFile(o, f) PROVE LedgerStep
  <2>1. UNCHANGED <<revision, hashes, evidence>> /\ Standing' = Standing BY <1>24 DEF DiscardFile
  <2>2. Shown' = Shown BY <1>24, AnswersAside DEF DiscardFile, Shown
  <2> QED BY <2>1, <2>2, Unseen DEF FreshPass
<1>25. CASE DiscardSave(o)
  <2>1. Shown' = Shown BY <1>25, AnswersAside DEF DiscardSave, Shown
  <2>2. CASE state' = "discarded" BY <1>1, <2>1, <2>2, Left DEF IsOpen
  <2>3. CASE UNCHANGED <<state, revision, hashes, evidence>>
    BY <2>1, <2>3, Unseen DEF FreshPass
  <2> QED BY <1>25, <2>2, <2>3 DEF DiscardSave
<1> QED BY <1>2, <1>3, <1>4, <1>5, <1>6, <1>7, <1>8, <1>9, <1>10, <1>11, <1>12, <1>13, <1>14, <1>15, <1>16, <1>17, <1>18, <1>19, <1>20, <1>21, <1>22, <1>23, <1>24, <1>25 DEF Step

\* A crash shows nothing, a sweep and a recovery end the change or nothing.
LEMMA LifeImplements ==
    ASSUME IInv, NEW p \in Proc, Life(p)
    PROVE  LedgerStep
<1> USE DEF IInv, TypeOK, Standing, Shown
<1>1. Standing \in {"none", "open", "broken", "closed"} OBVIOUS
<1>2. CASE Crash(p)
  <2>1. UNCHANGED <<state, revision, hashes, evidence, answer>> BY <1>2 DEF Crash
  <2> QED BY <2>1, Unseen DEF FreshPass
<1>3. CASE Restart(p)
  <2>1. UNCHANGED <<state, revision, hashes, evidence, answer>> BY <1>3 DEF Restart
  <2> QED BY <2>1, Unseen DEF FreshPass
<1>4. CASE SweepSkip(p)
  <2>1. UNCHANGED <<state, revision, hashes, evidence, answer>> BY <1>4 DEF SweepSkip
  <2> QED BY <2>1, Unseen DEF FreshPass
<1>5. CASE SweepLock(p)
  <2>1. UNCHANGED <<state, revision, hashes, evidence, answer>> BY <1>5 DEF SweepLock
  <2> QED BY <2>1, Unseen DEF FreshPass
<1>6. ASSUME NEW f \in File, SweepFile(p, f) PROVE LedgerStep
  <2>1. UNCHANGED <<state, revision, hashes, evidence, answer>> BY <1>6 DEF SweepFile
  <2> QED BY <2>1, Unseen DEF FreshPass
<1>7. CASE SweepRecord(p)
  BY <1>7, <1>1, Left DEF SweepRecord, IsOpen
<1>8. CASE SweepFails(p)
  <2>1. UNCHANGED <<state, revision, hashes, evidence, answer>> BY <1>8 DEF SweepFails
  <2> QED BY <2>1, Unseen DEF FreshPass
<1>9. CASE SweepUnlock(p)
  <2>1. UNCHANGED <<state, revision, hashes, evidence, answer>> BY <1>9 DEF SweepUnlock
  <2> QED BY <2>1, Unseen DEF FreshPass
<1>10. CASE SweepRmdir(p)
  BY <1>10, <1>1, Left DEF SweepRmdir, IsOpen
<1>11. CASE Recover(p)
  <2>1. answer' = answer BY <1>11 DEF Recover
  <2>2. CASE state' = "absent" BY <1>1, <2>1, <2>2, Left DEF IsOpen
  <2>3. CASE state = "applying" /\ state' = "failed" BY <1>1, <2>1, <2>3, Left DEF IsOpen
  <2>4. CASE UNCHANGED <<state, revision, hashes, evidence>>
    BY <2>1, <2>4, Unseen DEF FreshPass
  <2> QED BY <1>11, <2>2, <2>3, <2>4 DEF Recover
<1> QED BY <1>2, <1>3, <1>4, <1>5, <1>6, <1>7, <1>8, <1>9, <1>10, <1>11 DEF Life

\* The change service implements the ledger: the stages of many files, the
\* failed record writes, the crashes and the recoveries of any number of
\* processes show as whole publications, proofs of the published revision,
\* exports of proved revisions, and an end that is final (stage_locked,
\* validate, export, discard, recover_interrupted).
THEOREM ServiceImplementsLedger == Spec => ImplementsLedger
<1>1. Init => Ledger!Init
  BY DEF Init, Ledger!Init, Ledger!Blank, Standing, IsOpen
<1>2. IInv /\ Records /\ [Next]_vars => [Ledger!Next]_(Ledger!vars)
  <2> SUFFICES ASSUME IInv, Records, [Next]_vars PROVE LedgerStep
    BY DEF LedgerStep
  <2>1. CASE UNCHANGED vars
    BY <2>1, Unseen DEF FreshPass, Standing, Shown
  <2>2. CASE Expire
    BY <2>2, Unseen DEF Expire, FreshPass, Standing, Shown
  <2> QED BY <2>1, <2>2, StepImplements, LifeImplements DEF Next
<1>3. Init => Records BY RecordsHold
<1>4. IInv /\ Records /\ [Next]_vars => Records' BY RecordsKept
<1> QED BY <1>1, <1>2, <1>3, <1>4, Invariance, PTL
    DEF Spec, ImplementsLedger, Ledger!Spec

=============================================================================
