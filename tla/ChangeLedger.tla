----------------------------- MODULE ChangeLedger -----------------------------
(***************************************************************************)
(* What the change service promises about one change, whatever processes   *)
(* crash: a sequence of whole revisions, each the work of one request, the *)
(* proof that a gate gave for the last one, and exports of proved          *)
(* revisions only.  There is no half of a stage here, no marker, no lock   *)
(* and no evidence row.  ChangeService implements this specification.      *)
(* (docs/architecture.md, tools.md: change; change/model.rs)               *)
(***************************************************************************)
EXTENDS Naturals

CONSTANTS Op, File, Base   \* requests, files, the captured contents

VARIABLES life,      \* "none", "open", "broken" or "closed"
          revision,  \* revisions published since the capture
          contents,  \* what the last one holds
          proved,    \* a gate has passed on it
          exported   \* requests that were given it as verified

vars == <<life, revision, contents, proved, exported>>

Blank == [f \in File |-> Base]
Init == /\ life = "none" /\ revision = 0 /\ contents = Blank
        /\ proved = FALSE /\ exported = {}

Capture ==
    /\ life = "none" /\ life' = "open"
    /\ UNCHANGED <<revision, contents, proved, exported>>

\* A stage takes effect as a whole, and takes the proof away.
Publish(o, files) ==
    /\ life = "open" /\ files # {}
    /\ revision' = revision + 1
    /\ contents' = [f \in File |-> IF f \in files THEN o ELSE contents[f]]
    /\ proved' = FALSE
    /\ UNCHANGED <<life, exported>>

Prove ==
    /\ life = "open" /\ proved' = TRUE
    /\ UNCHANGED <<life, revision, contents, exported>>

\* Only so many results are kept: those of later gate runs may push it out.
Forget ==
    /\ life = "open" /\ proved /\ proved' = FALSE
    /\ UNCHANGED <<life, revision, contents, exported>>

Export(o) ==
    /\ life = "open" /\ proved
    /\ exported' = exported \cup {o}
    /\ UNCHANGED <<life, revision, contents, proved>>

\* The change is no longer to be relied upon: it failed, was discarded or was
\* swept.  A broken or closed change never opens again.
Leave(l) ==
    /\ \/ life \in {"open", "broken"}
       \/ life = "closed" /\ l = "none"
       \/ life = "none" /\ l = "closed"   \* a discard that the sweep overtook
    /\ life' = l
    /\ revision' = 0 /\ contents' = Blank /\ proved' = FALSE
    /\ UNCHANGED exported

Next ==
    \/ Capture \/ Prove \/ Forget
    \/ \E o \in Op : Export(o) \/ \E files \in SUBSET File : Publish(o, files)
    \/ \E l \in {"none", "broken", "closed"} : Leave(l)

Spec == Init /\ [][Next]_vars
=============================================================================
