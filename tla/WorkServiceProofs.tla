-------------------------- MODULE WorkServiceProofs --------------------------
(***************************************************************************)
(* The safety properties of WorkService for any calls, changes, gates and  *)
(* budgets.                                                                *)
(***************************************************************************)
EXTENDS WorkService, TLAPS

\* A call that has inserted or taken over a record and will write it back.
Driving(k) == pc[k] \in {"collect", "rebind", "drive", "stage", "gate", "final",
                         "commit"}

\* Nobody knows a work before its call has inserted it.
Unborn ==
    \A w \in Call : pc[w] \in {"idle", "insert"} =>
        /\ records[w] = None /\ spent[w] = Zero /\ work[w] = w
        /\ w \notin stopped /\ w \notin striped
        /\ loc[w].n = Zero /\ loc[w].tok = None /\ loc[w].state = "collecting"
        /\ \A k \in Call : work[k] = w => k = w

\* A driving call is the start of its work or holds the stripe; one stripe has
\* one holder.
Stripes ==
    /\ \A k \in Call : Driving(k) /\ k \notin striped => work[k] = k
    /\ \A k \in Call : pc[k] = "rebind" => k \in striped
    /\ \A k \in Call : pc[k] = "collect" => k \notin striped
    /\ \A k \in striped : pc[k] = "drive" => cand[k] # None
    /\ \A j, k \in striped : work[j] = work[k] => j = k

\* A work is driven by one call at a time.
OneDriver ==
    \A j, k \in Call : Driving(j) /\ Driving(k) /\ work[j] = work[k] => j = k

\* While a handoff is open, a call that drives the work holds its stripe and has
\* not staged yet, or has given up.
OpenHandoff ==
    \A w \in Call : records[w] # None /\ records[w].state = "needs_model" =>
        \A k \in Call : work[k] = w /\ Driving(k) =>
            /\ k \in striped
            /\ \/ pc[k] \in {"rebind", "drive"}
               \/ pc[k] \in {"final", "commit"} /\ loc[k].state \in Terminal

\* What the copies look like on the way.
Copies ==
    \A k \in Call :
        /\ pc[k] = "write" => loc[k].state \in Terminal
        /\ pc[k] \in {"final", "commit"} =>
               loc[k].state \in Terminal \cup {"needs_model"}
        /\ pc[k] = "stage" => loc[k].n.cands < MaxCandidates /\ cand[k] # None
        /\ pc[k] = "gate" => loc[k].state = "validating"
        /\ pc[k] \in {"collect", "drive", "stage", "gate"} => loc[k].state # "ready"
        /\ pc[k] \in {"collect", "drive", "rebind"} => loc[k].state \notin Terminal

\* Tokens carry the name of their work and a number already issued.
Tokens ==
    /\ \A w \in Call : records[w] # None /\ records[w].tok # None =>
           records[w].tok[1] = w /\ records[w].tok[2] <= sequence
    /\ \A k \in Call : loc[k].tok # None =>
           loc[k].tok[1] = work[k] /\ loc[k].tok[2] <= sequence
    /\ \A x \in staged : x[1] # None /\ x[1][2] <= sequence

\* Nothing was staged with the token of an open handoff, with one that was just
\* issued, or with one that was just accepted.
FreshTokens ==
    /\ \A w \in Call : records[w] # None /\ records[w].state = "needs_model" =>
           \A x \in staged : x[1] # records[w].tok
    /\ \A k \in Call : \/ pc[k] \in {"collect", "rebind", "drive"}
                       \/ /\ pc[k] \in {"final", "commit"}
                          /\ loc[k].state = "needs_model"
                       => \A x \in staged : x[1] # loc[k].tok

\* The copy of the driving call, or else the record of an open handoff, counts
\* all that was spent.
Counted ==
    /\ \A k \in Call : Driving(k) => spent[work[k]] = loc[k].n
    /\ \A w \in Call : records[w] # None /\ records[w].state = "needs_model" =>
           spent[w] = records[w].n
    /\ spent \in [Call -> Count]

\* Copies that say ready have earned it; the gates that ran passed.
Earned ==
    /\ \A k \in Call : loc[k].state = "ready" =>
           \A g \in 1 .. NGates : <<loc[k].chg, loc[k].rev, g>> \in passed
    /\ \A k \in Call : pc[k] = "gate" =>
           \A g \in 1 .. ran[k] : <<loc[k].chg, loc[k].rev, g>> \in passed

\* Everything but the types.
Rest == /\ Unborn /\ Stripes /\ OneDriver /\ OpenHandoff /\ Copies
        /\ Tokens /\ FreshTokens /\ Counted /\ Earned
        /\ ReadyMeansPassed /\ TokenSingleUse /\ CancelTakesEffect

IInv == TypeOK /\ Rest

ChangeAnswer == [state : {"absent", "ready", "dead", "gone"},
                 rev : 0 .. MaxRevisions]

\* A step of a driving call on its own copy: it goes to p with the copy q.
Drives(k, q, p) ==
    /\ Driving(k) /\ q \in Record
    /\ loc' = [loc EXCEPT ![k] = q] /\ pc' = [pc EXCEPT ![k] = p]
    /\ p \in {"drive", "gate", "final", "commit"}
    /\ UNCHANGED <<records, stopped, late, expired, work, striped, gone, staged,
                   cand, events>>
    /\ change' \in [Change -> ChangeAnswer] /\ ran' \in [Call -> 0 .. NGates]
    /\ spent' = [spent EXCEPT ![work[k]] = q.n]
    /\ passed \subseteq passed'
    /\ passed' \subseteq Change \X (0 .. MaxRevisions) \X (1 .. NGates)
    /\ \A j \in Call : j # k => ran'[j] = ran[j]
    /\ \/ q.tok = loc[k].tok /\ sequence' = sequence
          /\ (q.state = "needs_model" /\ p \in {"final", "commit"} =>
                 pc[k] = "final" /\ loc[k].state = "needs_model")
       \/ q.tok = <<work[k], sequence + 1>> /\ sequence' = sequence + 1 /\ p = "final"
    /\ p = "drive" => /\ pc[k] \in {"collect", "rebind"}
                      /\ pc[k] = "rebind" => cand[k] # None
                      /\ q.state \notin Terminal
    /\ p = "gate" => /\ pc[k] = "gate" /\ q.state = "validating"
                     /\ \A g \in 1 .. ran'[k] : <<q.chg, q.rev, g>> \in passed'
    /\ p \in {"final", "commit"} => q.state \in Terminal \cup {"needs_model"}
    /\ pc[k] \in {"rebind", "drive"} /\ k \in striped /\ p = "final" => q.state \in Terminal
    /\ pc[k] \in {"final", "commit"} => q.state \in {loc[k].state, "cancelled"} /\ p = "commit"
    /\ k \in striped /\ pc[k] \notin {"stage", "gate"} => q.n = loc[k].n
    /\ q.state = "ready" => \A g \in 1 .. NGates : <<q.chg, q.rev, g>> \in passed'

\* A call is about to write a terminal copy of the record of w.
Turns(k, w, q) ==
    /\ pc[k] \in {"idle", "rebind"} /\ pc[w] \notin {"idle", "insert"}
    /\ q \in Record /\ q.state \in Terminal
    /\ loc' = [loc EXCEPT ![k] = q] /\ pc' = [pc EXCEPT ![k] = "write"]
    /\ work' = [work EXCEPT ![k] = w] /\ (pc[k] = "rebind" => work[k] = w)
    /\ UNCHANGED <<records, late, expired, sequence, change, gone, spent, passed,
                   staged, ran, cand, events>>
    /\ \/ stopped' = stopped
       \/ stopped' = stopped \cup {w} /\ q.state = "cancelled"
    /\ \/ striped' = striped
       \/ striped' = striped \cup {k} /\ StripeFree(w)
    /\ q.tok # None => q.tok[1] = w /\ q.tok[2] <= sequence
    /\ q.state = "ready" => \A g \in 1 .. NGates : <<q.chg, q.rev, g>> \in passed

USE DEF shared, local, history, Driving, Terminal

-----------------------------------------------------------------------------
(* Records.                                                                *)

\* Records are closed under a change of state.
LEMMA StateTypes ==
    ASSUME NEW r \in Record, NEW s \in States
    PROVE  /\ InState(r, s) \in Record /\ InState(r, s).state = s
           /\ InState(r, s).n = r.n /\ InState(r, s).tok = r.tok
           /\ InState(r, s).chg = r.chg /\ InState(r, s).rev = r.rev
  BY DEF Record, InState

\* A record that finish_error has touched is terminal.
LEMMA FailedTypes ==
    ASSUME NEW r \in Record
    PROVE  /\ Failed(r) \in Record /\ Failed(r).state \in Terminal
           /\ Failed(r).n = r.n /\ Failed(r).tok = r.tok
           /\ Failed(r).chg = r.chg /\ Failed(r).rev = r.rev
           /\ Failed(r).state = "ready" => r.state = "ready"
  BY StateTypes DEF Failed, States, Record, InState

\* A new record is one.
LEMMA NewTypes == NewRecord \in Record /\ Zero \in Count /\ NewRecord.n = Zero
  BY BoundsAreNat DEF Record, NewRecord, Zero, Count, States

\* Counters within the budget are natural numbers.
LEMMA CountTypes ==
    ASSUME NEW f, f \in [Call -> Count]
    PROVE  f \in [Call -> [cands : Nat, comps : Nat, hands : Nat]]
  BY BoundsAreNat DEF Count

\* One more compile.
LEMMA CompiledTypes ==
    ASSUME NEW r \in Record, r.n.comps < MaxCompiles
    PROVE  /\ Compiled(r) \in Record
           /\ Compiled(r).n = [r.n EXCEPT !.comps = @ + 1]
           /\ Compiled(r).tok = r.tok /\ Compiled(r).state = r.state
           /\ Compiled(r).chg = r.chg /\ Compiled(r).rev = r.rev
           /\ Compiled(r).last = r.last
  BY BoundsAreNat DEF Compiled, Record, Count

\* A handoff spends one of the budget, or blocks.
LEMMA HandoffTypes ==
    ASSUME TypeOK, NEW r \in Record, NEW w \in Call
    PROVE  /\ Handoff(r, w) \in Record
           /\ NoHandoffLeft(r, w) => /\ Handoff(r, w).tok = r.tok
                                     /\ Handoff(r, w).state = "blocked"
                                     /\ Handoff(r, w).n = r.n
           /\ ~NoHandoffLeft(r, w) => /\ Handoff(r, w).tok = <<w, sequence + 1>>
                                      /\ Handoff(r, w).state = "needs_model"
                                      /\ Handoff(r, w).n = [r.n EXCEPT !.hands = @ + 1]
  <1>1. CASE NoHandoffLeft(r, w)
    BY <1>1, StateTypes DEF Handoff, States
  <1>2. CASE ~NoHandoffLeft(r, w)
    <2>1. r.n.hands + 1 \in 0 .. MaxHandoffs /\ <<w, sequence + 1>> \in Token
      BY <1>2, BoundsAreNat DEF NoHandoffLeft, Record, Count, Token, TypeOK
    <2>. QED BY <1>2, <2>1 DEF Handoff, Record, Count, States
  <1>. QED BY <1>1, <1>2

-----------------------------------------------------------------------------
(* The two shapes of a step preserve all but the types.                    *)

\* A step of a driving call on its own copy.
LEMMA DrivesKeeps ==
    ASSUME IInv, NEW k \in Call, NEW q, NEW p, Drives(k, q, p)
    PROVE  IInv'
  <1>. USE BoundsAreNat DEF IInv, Rest, Drives
  <1>1. Unborn' BY DEF TypeOK, Unborn
  <1>2. Stripes' BY DEF TypeOK, Stripes
  <1>3. OneDriver' BY DEF TypeOK, OneDriver
  <1>4. OpenHandoff' BY DEF TypeOK, OpenHandoff
  <1>5. Copies' BY DEF TypeOK, Copies
  <1>6. Tokens'
    <2>1. ASSUME NEW t \in Token, t[2] <= sequence PROVE t[2] <= sequence'
      BY <2>1 DEF TypeOK, Token
    <2>2. \A w \in Call : records[w] # None => records[w].tok \in Token \cup {None}
      BY DEF TypeOK, Record
    <2>3. ASSUME NEW j \in Call, loc'[j].tok # None
          PROVE  loc'[j].tok[1] = work[j] /\ loc'[j].tok[2] <= sequence'
      <3>1. CASE j = k /\ q.tok = <<work[k], sequence + 1>> /\ sequence' = sequence + 1
        BY <3>1 DEF TypeOK
      <3>2. CASE loc'[j].tok = loc[j].tok
        BY <2>1, <2>3, <3>2 DEF TypeOK, Record, Tokens
      <3>. QED BY <3>1, <3>2 DEF TypeOK
    <2>4. \A x \in staged : x[1] # None /\ x[1][2] <= sequence'
      BY <2>1 DEF TypeOK, Tokens
    <2>. QED BY <2>1, <2>2, <2>3, <2>4 DEF Tokens
  <1>7. FreshTokens'
    <2>1. ASSUME NEW x \in staged PROVE x[1] # <<work[k], sequence + 1>>
      BY DEF TypeOK, Tokens, Token
    <2>2. CASE q.tok = <<work[k], sequence + 1>>
      BY <2>1, <2>2 DEF TypeOK, FreshTokens
    <2>3. CASE q.tok = loc[k].tok /\ (q.state = "needs_model" /\ p \in {"final", "commit"} =>
                                         pc[k] = "final" /\ loc[k].state = "needs_model")
      BY <2>3 DEF TypeOK, FreshTokens
    <2>. QED BY <2>2, <2>3
  <1>8. Counted'
    <2>1. q.n \in Count BY DEF Record
    <2>2. spent' \in [Call -> Count] BY <2>1 DEF TypeOK, Counted
    <2>3. \A j \in Call : Driving(j)' => spent'[work'[j]] = loc'[j].n
      BY DEF TypeOK, Counted, OneDriver
    <2>4. ASSUME NEW w \in Call, records[w] # None, records[w].state = "needs_model"
          PROVE  spent'[w] = records[w].n
      BY <2>4 DEF TypeOK, Counted, OpenHandoff
    <2>. QED BY <2>2, <2>3, <2>4 DEF Counted
  <1>9. Earned' BY DEF TypeOK, Earned
  <1>10. ReadyMeansPassed' BY DEF ReadyMeansPassed
  <1>11. TokenSingleUse' BY DEF TokenSingleUse
  <1>12. CancelTakesEffect' BY DEF TypeOK, CancelTakesEffect
  <1>13. TypeOK'
    <2>1. spent' \in [Call -> [cands : Nat, comps : Nat, hands : Nat]]
      BY <1>8, CountTypes DEF Counted
    <2>. QED BY <2>1 DEF TypeOK, ChangeAnswer
  <1>. QED BY <1>1, <1>2, <1>3, <1>4, <1>5, <1>6, <1>7, <1>8, <1>9, <1>10, <1>11, <1>12, <1>13

\* A call that is about to write a terminal copy.
LEMMA TurnsKeeps ==
    ASSUME IInv, NEW k \in Call, NEW w \in Call, NEW q, Turns(k, w, q)
    PROVE  IInv'
  <1>. USE BoundsAreNat DEF IInv, Rest, Turns
  <1>1. Unborn' BY DEF TypeOK, Unborn
  <1>2. Stripes'
    <2>1. \A j \in striped : j # k => work'[j] = work[j] /\ pc'[j] = pc[j]
      BY DEF TypeOK
    <2>2. k \in striped => work[k] = w BY DEF Unborn
    <2>3. \A i, j \in striped' : work'[i] = work'[j] => i = j
      BY <2>1, <2>2 DEF TypeOK, Stripes, StripeFree
    <2>4. /\ \A j \in Call : Driving(j)' => j # k /\ Driving(j)
          /\ \A j \in Call : j # k => (j \in striped' <=> j \in striped)
      BY DEF TypeOK
    <2>. QED BY <2>1, <2>3, <2>4 DEF TypeOK, Stripes
  <1>3. OneDriver' BY DEF TypeOK, OneDriver
  <1>4. OpenHandoff' BY DEF TypeOK, OpenHandoff
  <1>5. Copies' BY DEF TypeOK, Copies
  <1>6. Tokens' BY DEF TypeOK, Tokens
  <1>7. FreshTokens' BY DEF TypeOK, FreshTokens
  <1>8. Counted' BY DEF TypeOK, Counted
  <1>9. Earned' BY DEF TypeOK, Earned
  <1>10. ReadyMeansPassed' BY DEF ReadyMeansPassed
  <1>11. TokenSingleUse' BY DEF TokenSingleUse
  <1>12. CancelTakesEffect' BY DEF TypeOK, CancelTakesEffect, Copies
  <1>13. TypeOK'
    <2>1. spent' \in [Call -> [cands : Nat, comps : Nat, hands : Nat]]
      BY <1>8, CountTypes DEF Counted
    <2>. QED BY <2>1 DEF TypeOK
  <1>. QED BY <1>1, <1>2, <1>3, <1>4, <1>5, <1>6, <1>7, <1>8, <1>9, <1>10, <1>11, <1>12, <1>13

-----------------------------------------------------------------------------
(* Driving.                                                                *)

\* The initial state.
LEMMA InitIInv == Init => IInv
  <1>. SUFFICES ASSUME Init PROVE IInv OBVIOUS
  <1>. USE NewTypes DEF Init
  <1>1. TypeOK
    <2>1. spent \in [Call -> [cands : Nat, comps : Nat, hands : Nat]]
      BY CountTypes
    <2>. QED BY <2>1, BoundsAreNat DEF TypeOK, Token
  <1>2. Unborn /\ Stripes /\ OneDriver /\ OpenHandoff
    BY DEF Unborn, Stripes, OneDriver, OpenHandoff, NewRecord
  <1>3. Copies /\ Tokens /\ FreshTokens /\ Counted /\ Earned
    BY DEF Copies, Tokens, FreshTokens, Counted, Earned, NewRecord
  <1>4. ReadyMeansPassed /\ TokenSingleUse /\ CancelTakesEffect
    BY DEF ReadyMeansPassed, TokenSingleUse, CancelTakesEffect
  <1>. QED BY <1>1, <1>2, <1>3, <1>4 DEF IInv, Rest

\* The counters of a driving call are what was spent.
LEMMA SpentIsCounted ==
    ASSUME IInv, NEW k \in Call, Driving(k)
    PROVE  /\ loc[k] \in Record /\ work[k] \in Call
           /\ spent[work[k]] = loc[k].n /\ loc[k].n \in Count
           /\ spent = [spent EXCEPT ![work[k]] = loc[k].n]
  <1>1. loc[k] \in Record /\ work[k] \in Call /\ loc[k].n \in Count
    BY DEF IInv, TypeOK, Record
  <1>2. spent[work[k]] = loc[k].n /\ spent \in [Call -> Count]
    BY DEF IInv, Rest, Counted
  <1>. QED BY <1>1, <1>2

\* start adopts a change or fails.
LEMMA AdoptKeeps ==
    ASSUME IInv, NEW k \in Call, Adopt(k), UNCHANGED events PROVE IInv'
  <1>. USE DEF Adopt, Copy, Goto
  <1>1. Driving(k) /\ loc[k] \in Record /\ loc[k].state \notin Terminal
        /\ loc[k].chg \in Change /\ k \notin striped
    BY SpentIsCounted DEF IInv, Rest, Copies, Stripes, Record
  <1>. DEFINE c == change[loc[k].chg]
              a == [loc[k] EXCEPT !.rev = c.rev]
              f == [loc[k] EXCEPT !.state = "failed", !.chg = None]
  <1>2. c.rev \in 0 .. MaxRevisions BY <1>1 DEF IInv, TypeOK
  <1>3. a \in Record /\ a.state = loc[k].state /\ a.n = loc[k].n /\ a.tok = loc[k].tok
    BY <1>1, <1>2 DEF Record
  <1>4. f \in Record /\ f.state = "failed" /\ f.n = loc[k].n /\ f.tok = loc[k].tok
    BY <1>1 DEF Record, States
  <1>5. CASE c.state = "ready"
    <2>1. Drives(k, a, "drive")
      <3>. HIDE DEF a
      <3>. QED BY <1>1, <1>3, <1>5, SpentIsCounted DEF Drives, IInv, TypeOK, ChangeAnswer, a
    <2>. QED BY <2>1, DrivesKeeps
  <1>6. CASE c.state # "ready"
    <2>1. Drives(k, f, "final")
      BY <1>1, <1>4, <1>6, SpentIsCounted DEF Drives, IInv, TypeOK, ChangeAnswer
    <2>. QED BY <2>1, DrivesKeeps
  <1>. QED BY <1>5, <1>6

\* start creates a change or does not.
LEMMA CreateKeeps ==
    ASSUME IInv, NEW k \in Call, Create(k), UNCHANGED events PROVE IInv'
  <1>. USE DEF Create, Copy, Goto
  <1>1. Driving(k) /\ loc[k] \in Record /\ loc[k].state \notin Terminal
        /\ k \notin striped
    BY SpentIsCounted DEF IInv, Rest, Copies, Stripes
  <1>2. CASE \E c \in Change :
            /\ change[c].state = "absent"
            /\ change' = [change EXCEPT ![c] = [state |-> "ready", rev |-> 0]]
            /\ Copy(k, [loc[k] EXCEPT !.chg = c]) /\ Goto(k, "drive")
    <2>1. PICK c \in Change :
            /\ change' = [change EXCEPT ![c] = [state |-> "ready", rev |-> 0]]
            /\ Copy(k, [loc[k] EXCEPT !.chg = c]) /\ Goto(k, "drive")
      BY <1>2
    <2>. DEFINE a == [loc[k] EXCEPT !.chg = c]
    <2>2. a \in Record /\ a.state = loc[k].state /\ a.n = loc[k].n /\ a.tok = loc[k].tok
      BY <1>1 DEF Record
    <2>3. change' \in [Change -> ChangeAnswer]
      BY <2>1, BoundsAreNat DEF IInv, TypeOK, ChangeAnswer
    <2>4. Drives(k, a, "drive")
      BY <1>1, <2>1, <2>2, <2>3, SpentIsCounted DEF Drives, IInv, TypeOK
    <2>. QED BY <2>4, DrivesKeeps
  <1>3. CASE \E s \in {"blocked", "failed", "cancelled"} :
            /\ Copy(k, InState(loc[k], s)) /\ Goto(k, "final")
            /\ UNCHANGED change
    <2>1. PICK s \in {"blocked", "failed", "cancelled"} :
            /\ Copy(k, InState(loc[k], s)) /\ Goto(k, "final")
            /\ UNCHANGED change
      BY <1>3
    <2>2. Drives(k, InState(loc[k], s), "final")
      BY <1>1, <2>1, StateTypes, SpentIsCounted
      DEF Drives, IInv, TypeOK, ChangeAnswer, States
    <2>. QED BY <2>2, DrivesKeeps
  <1>. QED BY <1>2, <1>3

\* resume goes on to drive, or writes back what stopped it.
LEMMA RebindKeeps ==
    ASSUME IInv, NEW k \in Call, Rebind(k), UNCHANGED events PROVE IInv'
  <1>. USE DEF Rebind, Copy, Goto
  <1>1. Driving(k) /\ loc[k] \in Record /\ loc[k].state \notin Terminal
        /\ k \in striped /\ work[k] \in Call
    BY SpentIsCounted DEF IInv, Rest, Copies, Stripes
  <1>2. pc[work[k]] \notin {"idle", "insert"}
    BY <1>1 DEF IInv, Rest, Unborn, TypeOK
  <1>3. ASSUME NEW q \in Record, q.state \in Terminal \ {"ready"}, q.tok = loc[k].tok,
               Copy(k, q), Goto(k, "write")
        PROVE  IInv'
    <2>1. Turns(k, work[k], q)
      BY <1>1, <1>2, <1>3 DEF Turns, IInv, Rest, Tokens, TypeOK
    <2>. QED BY <1>1, <2>1, TurnsKeeps
  <1>4. CASE Copy(k, Failed(loc[k])) /\ Goto(k, "write")
    BY <1>1, <1>3, <1>4, FailedTypes
  <1>5. CASE Copy(k, InState(loc[k], "blocked")) /\ Goto(k, "write")
    BY <1>1, <1>3, <1>5, StateTypes DEF States
  <1>6. CASE cand[k] # None /\ Goto(k, "drive") /\ UNCHANGED loc
    <2>1. Drives(k, loc[k], "drive")
      BY <1>1, <1>6, SpentIsCounted DEF Drives, IInv, TypeOK, ChangeAnswer
    <2>. QED BY <2>1, DrivesKeeps
  <1>. QED BY <1>4, <1>5, <1>6

\* The changes of a copy that is handed over.
LEMMA DriveHandoffKeeps ==
    ASSUME IInv, NEW k \in Call, DriveHandoff(k), UNCHANGED events PROVE IInv'
  <1>. USE DEF DriveHandoff, HandOver, Copy, Goto
  <1>. DEFINE w == work[k] h == Handoff(loc[k], w)
  <1>1. Driving(k) /\ loc[k] \in Record /\ k \notin striped /\ w \in Call
    BY SpentIsCounted DEF IInv, Rest, Stripes
  <1>2. spent' = [spent EXCEPT ![w] = h.n]
    <2>1. spent \in [Call -> Count] /\ spent[w] = loc[k].n
      BY <1>1 DEF IInv, Rest, Counted
    <2>2. CASE NoHandoffLeft(loc[k], w)
      <3>1. h.n = loc[k].n BY <1>1, <2>2, HandoffTypes DEF IInv
      <3>2. spent' = [spent EXCEPT ![w].hands = @] BY <2>2
      <3>3. [spent[w] EXCEPT !.hands = @] = spent[w] BY <1>1, <2>1 DEF Count
      <3>. QED BY <1>1, <2>1, <3>1, <3>2, <3>3
    <2>3. CASE ~NoHandoffLeft(loc[k], w)
      <3>1. h.n = [loc[k].n EXCEPT !.hands = @ + 1] BY <1>1, <2>3, HandoffTypes DEF IInv
      <3>. QED BY <1>1, <2>1, <2>3, <3>1
    <2>. QED BY <2>2, <2>3
  <1>3. Drives(k, h, "final")
    <2>1. h \in Record BY <1>1, HandoffTypes DEF IInv
    <2>2. CASE NoHandoffLeft(loc[k], w)
      <3>1. h.state = "blocked" /\ h.tok = loc[k].tok /\ h.n = loc[k].n
        BY <1>1, <2>2, HandoffTypes DEF IInv
      <3>. HIDE DEF h
      <3>. QED BY <1>1, <1>2, <2>1, <2>2, <3>1 DEF Drives, IInv, TypeOK, ChangeAnswer, h
    <2>3. CASE ~NoHandoffLeft(loc[k], w)
      <3>1. h.state = "needs_model" /\ h.tok = <<w, sequence + 1>>
        BY <1>1, <2>3, HandoffTypes DEF IInv
      <3>. QED BY <1>1, <1>2, <2>1, <2>3, <3>1 DEF Drives, IInv, TypeOK, ChangeAnswer
    <2>. QED BY <2>2, <2>3
  <1>. QED BY <1>3, DrivesKeeps

\* A copy that ends in a terminal state before anything was compiled.
LEMMA DriveBlocksKeeps ==
    ASSUME IInv, NEW k \in Call, DriveBlocks(k), UNCHANGED events PROVE IInv'
  <1>1. Driving(k) /\ loc[k] \in Record BY SpentIsCounted DEF DriveBlocks
  <1>2. Drives(k, InState(loc[k], "blocked"), "final")
    BY <1>1, StateTypes, SpentIsCounted
    DEF DriveBlocks, Copy, Goto, Drives, IInv, TypeOK, ChangeAnswer, States
  <1>. QED BY <1>2, DrivesKeeps

\* Staging that does not succeed.
LEMMA StageFailsKeeps ==
    ASSUME IInv, NEW k \in Call, StageFails(k), UNCHANGED events PROVE IInv'
  <1>1. Driving(k) /\ loc[k] \in Record BY SpentIsCounted DEF StageFails
  <1>2. PICK s \in {"cancelled", "failed"} : loc' = [loc EXCEPT ![k] = InState(loc[k], s)]
    BY DEF StageFails, Copy
  <1>3. change' \in [Change -> ChangeAnswer]
    <2>1. change \in [Change -> ChangeAnswer] BY DEF IInv, TypeOK, ChangeAnswer
    <2>2. ASSUME NEW c \in Change, change' = [change EXCEPT ![c].state = "dead"]
          PROVE  change' \in [Change -> ChangeAnswer]
      BY <2>1, <2>2 DEF ChangeAnswer
    <2>. QED BY <1>1, <2>1, <2>2 DEF StageFails, Record
  <1>4. Drives(k, InState(loc[k], s), "final")
    BY <1>1, <1>2, <1>3, StateTypes, SpentIsCounted
    DEF StageFails, Goto, Drives, IInv, TypeOK, States
  <1>. QED BY <1>4, DrivesKeeps

\* The loop over the gates stops.
LEMMA GateStopsKeeps ==
    ASSUME IInv, NEW k \in Call, GateStops(k), UNCHANGED events PROVE IInv'
  <1>1. Driving(k) /\ loc[k] \in Record BY SpentIsCounted DEF GateStops
  <1>2. PICK s \in {"cancelled", "blocked"} : loc' = [loc EXCEPT ![k] = InState(loc[k], s)]
    BY DEF GateStops, Copy
  <1>3. Drives(k, InState(loc[k], s), "final")
    BY <1>1, <1>2, StateTypes, SpentIsCounted
    DEF GateStops, Goto, Drives, IInv, TypeOK, ChangeAnswer, States
  <1>. QED BY <1>3, DrivesKeeps

\* What a compile does to the counters.
LEMMA CompileIsCounted ==
    ASSUME IInv, NEW k \in Call, CanCompile(k)
    PROVE  /\ Driving(k) /\ loc[k] \in Record /\ work[k] \in Call
           /\ loc[k].n.comps < MaxCompiles
           /\ loc[k].state = "validating" /\ ran[k] \in 0 .. NGates - 1
           /\ spent[work[k]] = loc[k].n /\ spent \in [Call -> Count]
           /\ Compiled(loc[k]) \in Record
           /\ [spent EXCEPT ![work[k]].comps = @ + 1]
                = [spent EXCEPT ![work[k]] = Compiled(loc[k]).n]
  <1>1. Driving(k) /\ loc[k] \in Record /\ work[k] \in Call
    BY SpentIsCounted DEF CanCompile
  <1>2. loc[k].n.comps < MaxCompiles
    BY <1>1, BoundsAreNat DEF CanCompile, NoCompileLeft, Record, Count
  <1>3. loc[k].state = "validating" /\ ran[k] \in 0 .. NGates - 1
    BY BoundsAreNat DEF CanCompile, IInv, Rest, TypeOK, Copies
  <1>4. spent[work[k]] = loc[k].n /\ spent \in [Call -> Count]
    BY <1>1, SpentIsCounted DEF IInv, Rest, Counted
  <1>5. /\ Compiled(loc[k]) \in Record
        /\ Compiled(loc[k]).n = [loc[k].n EXCEPT !.comps = @ + 1]
    BY <1>1, <1>2, CompiledTypes
  <1>. QED BY <1>1, <1>2, <1>3, <1>4, <1>5

\* A gate passes at the revision that was staged.
LEMMA GatePassesKeeps ==
    ASSUME IInv, NEW k \in Call, GatePasses(k), UNCHANGED events PROVE IInv'
  <1>. DEFINE r == loc[k] q == Compiled(loc[k])
  <1>0. CanCompile(k) /\ pc[k] = "gate" BY DEF GatePasses, CanCompile
  <1>1. /\ Driving(k) /\ r \in Record /\ r.n.comps < MaxCompiles
        /\ r.state = "validating" /\ ran[k] \in 0 .. NGates - 1
        /\ q \in Record
        /\ [spent EXCEPT ![work[k]].comps = @ + 1] = [spent EXCEPT ![work[k]] = q.n]
    BY <1>0, CompileIsCounted
  <1>2. /\ q.tok = r.tok /\ q.state = r.state /\ q.chg = r.chg /\ q.rev = r.rev
    BY <1>1, CompiledTypes
  <1>3. r.chg \in Change /\ change[r.chg].rev = r.rev /\ r.rev \in 0 .. MaxRevisions
        /\ passed' = passed \cup {<<r.chg, r.rev, ran[k] + 1>>}
    BY <1>1 DEF GatePasses, AtRevision, Record
  <1>4. /\ ran' = [ran EXCEPT ![k] = @ + 1] /\ ran \in [Call -> 0 .. NGates]
        /\ ran[k] + 1 \in 0 .. NGates /\ ran[k] + 1 \in 1 .. NGates
    BY <1>1, BoundsAreNat DEF GatePasses, IInv, TypeOK
  <1>5. ran' \in [Call -> 0 .. NGates] /\ \A j \in Call : j # k => ran'[j] = ran[j]
    BY <1>4
  <1>6. passed' \subseteq Change \X (0 .. MaxRevisions) \X (1 .. NGates)
    BY <1>3, <1>4 DEF IInv, TypeOK
  <1>7. \A g \in 1 .. ran'[k] : <<q.chg, q.rev, g>> \in passed'
    <2>1. \A g \in 1 .. ran[k] : <<r.chg, r.rev, g>> \in passed
      BY <1>0 DEF IInv, Rest, Earned
    <2>2. ran'[k] = ran[k] + 1 BY <1>4
    <2>3. \A g \in 1 .. ran'[k] : g \in 1 .. ran[k] \/ g = ran[k] + 1
      BY <1>1, <2>2, BoundsAreNat
    <2>. QED BY <1>2, <1>3, <2>1, <2>3
  <1>8. Drives(k, q, "gate")
    <2>1. /\ loc' = [loc EXCEPT ![k] = q] /\ pc' = [pc EXCEPT ![k] = "gate"]
          /\ spent' = [spent EXCEPT ![work[k]] = q.n]
          /\ UNCHANGED <<shared, change, work, striped, gone, staged, cand>>
      BY <1>0, <1>1 DEF GatePasses, Copy, IInv, TypeOK
    <2>2. change' \in [Change -> ChangeAnswer]
      BY <2>1 DEF IInv, TypeOK, ChangeAnswer
    <2>. HIDE DEF q
    <2>. QED BY <1>0, <1>1, <1>2, <1>3, <1>5, <1>6, <1>7, <2>1, <2>2 DEF Drives
  <1>. QED BY <1>8, DrivesKeeps

\* A gate that does not answer PASS or FAIL.
LEMMA GateErrsKeeps ==
    ASSUME IInv, NEW k \in Call, GateErrs(k), UNCHANGED events PROVE IInv'
  <1>. DEFINE c == Compiled(loc[k])
  <1>0. CanCompile(k) /\ pc[k] = "gate" BY DEF GateErrs, CanCompile
  <1>1. /\ Driving(k) /\ loc[k] \in Record /\ c \in Record
        /\ loc[k].n.comps < MaxCompiles
        /\ [spent EXCEPT ![work[k]].comps = @ + 1] = [spent EXCEPT ![work[k]] = c.n]
    BY <1>0, CompileIsCounted
  <1>2. c.tok = loc[k].tok BY <1>1, CompiledTypes
  <1>3. PICK s \in {"cancelled", "blocked", "failed"} :
            loc' = [loc EXCEPT ![k] = InState(c, s)]
    BY DEF GateErrs, Copy
  <1>. DEFINE q == InState(c, s)
  <1>4. q \in Record /\ q.state = s /\ q.tok = loc[k].tok /\ q.n = c.n
    BY <1>1, <1>2, StateTypes DEF States
  <1>5. Drives(k, q, "final")
    BY <1>0, <1>1, <1>3, <1>4
    DEF GateErrs, Goto, Drives, IInv, TypeOK, ChangeAnswer
  <1>. QED BY <1>5, DrivesKeeps

\* Two counters of one work are updated one after the other.
LEMMA TwoCounters ==
    ASSUME NEW f \in [Call -> Count], NEW w \in Call
    PROVE  /\ [f EXCEPT ![w].comps = @ + 1, ![w].hands = @]
                = [f EXCEPT ![w] = [f[w] EXCEPT !.comps = @ + 1]]
           /\ [f EXCEPT ![w].comps = @ + 1, ![w].hands = @ + 1]
                = [f EXCEPT ![w] = [f[w] EXCEPT !.comps = @ + 1, !.hands = @ + 1]]
  BY DEF Count

\* A gate that fails hands over, or blocks.
LEMMA GateFailsKeeps ==
    ASSUME IInv, NEW k \in Call, NEW d \in Diag \cup {None}, GateFails(k, d),
           UNCHANGED events
    PROVE  IInv'
  <1>. DEFINE w == work[k] r == Compiled(loc[k])
              f == [r EXCEPT !.last = IF d = None THEN @ ELSE d]
  <1>0. CanCompile(k) /\ pc[k] = "gate" BY DEF GateFails, CanCompile
  <1>1. /\ Driving(k) /\ loc[k] \in Record /\ r \in Record /\ w \in Call
        /\ loc[k].n.comps < MaxCompiles /\ spent[w] = loc[k].n
        /\ spent \in [Call -> Count]
        /\ [spent EXCEPT ![w].comps = @ + 1] = [spent EXCEPT ![w] = r.n]
    BY <1>0, CompileIsCounted
  <1>2. r.tok = loc[k].tok /\ r.n = [loc[k].n EXCEPT !.comps = @ + 1]
    BY <1>1, CompiledTypes
  <1>3. /\ pc' = [pc EXCEPT ![k] = "final"]
        /\ UNCHANGED <<records, stopped, late, expired, change, work, cand, ran,
                       striped, gone, passed, staged>>
    BY DEF GateFails, Goto
  <1>4. change' \in [Change -> ChangeAnswer] /\ ran' \in [Call -> 0 .. NGates]
        /\ passed' \subseteq Change \X (0 .. MaxRevisions) \X (1 .. NGates)
    BY <1>3 DEF IInv, TypeOK, ChangeAnswer
  <1>5. CASE SameFailure(r, d)
    <2>. DEFINE q == InState(r, "blocked")
    <2>1. q \in Record /\ q.state = "blocked" /\ q.tok = loc[k].tok /\ q.n = r.n
      BY <1>1, <1>2, StateTypes DEF States
    <2>2. /\ loc' = [loc EXCEPT ![k] = q] /\ sequence' = sequence
          /\ spent' = [spent EXCEPT ![w] = q.n]
      BY <1>1, <1>5, <2>1 DEF GateFails, Copy
    <2>. HIDE DEF q
    <2>3. Drives(k, q, "final")
      BY <1>0, <1>1, <1>3, <1>4, <2>1, <2>2 DEF Drives
    <2>. QED BY <2>3, DrivesKeeps
  <1>6. CASE ~SameFailure(r, d)
    <2>1. f \in Record /\ f.tok = r.tok /\ f.n = r.n BY <1>1 DEF Record
    <2>. DEFINE h == Handoff(f, w)
    <2>2. h \in Record BY <1>1, <2>1, HandoffTypes DEF IInv
    <2>3. /\ loc' = [loc EXCEPT ![k] = h]
          /\ sequence' = IF NoHandoffLeft(f, w) THEN sequence ELSE sequence + 1
          /\ spent' = [spent EXCEPT ![w].comps = @ + 1,
                          ![w].hands = IF NoHandoffLeft(f, w) THEN @ ELSE @ + 1]
      BY <1>6 DEF GateFails, Copy
    <2>. HIDE DEF f, r
    <2>4. CASE NoHandoffLeft(f, w)
      <3>1. h.state = "blocked" /\ h.tok = loc[k].tok /\ h.n = r.n
        BY <1>1, <1>2, <2>1, <2>4, HandoffTypes DEF IInv
      <3>2. spent' = [spent EXCEPT ![w] = r.n]
        <4>1. spent' = [spent EXCEPT ![w].comps = @ + 1, ![w].hands = @]
          BY <2>3, <2>4
        <4>. QED BY <1>1, <1>2, <4>1, TwoCounters
      <3>. HIDE DEF h
      <3>3. Drives(k, h, "final")
        BY <1>0, <1>1, <1>3, <1>4, <2>2, <2>3, <2>4, <3>1, <3>2 DEF Drives
      <3>. QED BY <3>3, DrivesKeeps
    <2>5. CASE ~NoHandoffLeft(f, w)
      <3>1. /\ h.state = "needs_model" /\ h.tok = <<w, sequence + 1>>
            /\ h.n = [f.n EXCEPT !.hands = @ + 1]
        BY <1>1, <2>1, <2>5, HandoffTypes DEF IInv
      <3>2. spent' = [spent EXCEPT ![w] = h.n]
        <4>1. spent' = [spent EXCEPT ![w].comps = @ + 1, ![w].hands = @ + 1]
          BY <2>3, <2>5
        <4>2. h.n = [spent[w] EXCEPT !.comps = @ + 1, !.hands = @ + 1]
          BY <1>1, <1>2, <2>1, <3>1 DEF Count
        <4>. HIDE DEF h
        <4>. QED BY <1>1, <4>1, <4>2, TwoCounters
      <3>. HIDE DEF h
      <3>3. Drives(k, h, "final")
        BY <1>0, <1>1, <1>3, <1>4, <2>2, <2>3, <2>5, <3>1, <3>2 DEF Drives
      <3>. QED BY <3>3, DrivesKeeps
    <2>. QED BY <2>4, <2>5
  <1>. QED BY <1>5, <1>6

\* Every gate has passed: the copy has earned to be ready.
LEMMA GatesDoneKeeps ==
    ASSUME IInv, NEW k \in Call, GatesDone(k), UNCHANGED events PROVE IInv'
  <1>1. Driving(k) /\ loc[k] \in Record BY SpentIsCounted DEF GatesDone
  <1>2. \A g \in 1 .. NGates : <<loc[k].chg, loc[k].rev, g>> \in passed
    BY DEF GatesDone, IInv, Rest, Earned
  <1>3. Drives(k, InState(loc[k], "ready"), "final")
    BY <1>1, <1>2, StateTypes, SpentIsCounted
    DEF GatesDone, Copy, Goto, Drives, IInv, TypeOK, ChangeAnswer, States
  <1>. QED BY <1>3, DrivesKeeps

\* finalize may turn the copy into a cancelled one.
LEMMA FinalizeKeeps ==
    ASSUME IInv, NEW k \in Call, Finalize(k), UNCHANGED events PROVE IInv'
  <1>1. Driving(k) /\ loc[k] \in Record /\ pc[k] = "final"
        /\ loc[k].state \in Terminal \cup {"needs_model"}
    BY SpentIsCounted DEF Finalize, IInv, Rest, Copies
  <1>. DEFINE q == IF work[k] \in stopped THEN InState(loc[k], "cancelled") ELSE loc[k]
  <1>2. /\ q \in Record /\ q.state \in {loc[k].state, "cancelled"} /\ q.n = loc[k].n
        /\ q.tok = loc[k].tok /\ (q.state # "cancelled" => q = loc[k])
    BY <1>1, StateTypes DEF States
  <1>3. q.state = "ready" => \A g \in 1 .. NGates : <<q.chg, q.rev, g>> \in passed
    BY <1>2 DEF IInv, Rest, Earned
  <1>4. /\ loc' = [loc EXCEPT ![k] = q] /\ pc' = [pc EXCEPT ![k] = "commit"]
        /\ UNCHANGED <<shared, change, work, cand, ran, striped, gone, history>>
    BY DEF Finalize, Copy, Goto
  <1>. HIDE DEF q
  <1>5. Drives(k, q, "commit")
    BY <1>1, <1>2, <1>3, <1>4, SpentIsCounted DEF Drives, IInv, TypeOK, ChangeAnswer
  <1>. QED BY <1>5, DrivesKeeps

-----------------------------------------------------------------------------
(* Calls that arrive.                                                      *)

\* A record that is there belongs to a work that is known.
LEMMA RecordsAreKnown ==
    ASSUME IInv, NEW w \in Call, records[w] # None
    PROVE  /\ records[w] \in Record /\ pc[w] \notin {"idle", "insert"}
           /\ records[w].tok # None =>
                 records[w].tok[1] = w /\ records[w].tok[2] <= sequence
           /\ records[w].state = "ready" =>
                 \A g \in 1 .. NGates :
                    <<records[w].chg, records[w].rev, g>> \in passed
  BY DEF IInv, Rest, TypeOK, Unborn, Tokens, ReadyMeansPassed

\* cancel takes a copy, and the token if the record is not terminal.
LEMMA CancelKeeps ==
    ASSUME IInv, NEW k \in Call, NEW w \in Call, NEW here \in BOOLEAN,
           Cancel(k, w, here), UNCHANGED events
    PROVE  IInv'
  <1>. DEFINE r == records[w] takes == here /\ r.state \notin Terminal
              q == IF takes THEN InState(r, "cancelled") ELSE Failed(r)
  <1>1. r # None /\ pc[k] = "idle" BY DEF Cancel
  <1>2. r \in Record BY <1>1, RecordsAreKnown
  <1>3. /\ q \in Record /\ q.state \in Terminal /\ q.tok = r.tok
        /\ q.chg = r.chg /\ q.rev = r.rev /\ (q.state = "ready" => r.state = "ready")
        /\ takes => q.state = "cancelled"
    BY <1>2, StateTypes, FailedTypes DEF States
  <1>4. /\ loc' = [loc EXCEPT ![k] = q]
        /\ stopped' = IF takes THEN stopped \cup {w} ELSE stopped
        /\ pc' = [pc EXCEPT ![k] = "write"] /\ work' = [work EXCEPT ![k] = w]
        /\ UNCHANGED <<records, late, expired, sequence, change, cand, ran,
                       striped, gone, history>>
    BY DEF Cancel, Copy, Goto
  <1>5. Turns(k, w, q)
    <2>. HIDE DEF q, takes
    <2>. QED BY <1>1, <1>3, <1>4, RecordsAreKnown DEF Turns
  <1>. QED BY <1>5, TurnsKeeps

\* inspect from elsewhere.
LEMMA InspectKeeps ==
    ASSUME IInv, NEW k \in Call, NEW w \in Call, Inspect(k, w), UNCHANGED events
    PROVE  IInv'
  <1>1. records[w] # None /\ records[w] \in Record
    BY RecordsAreKnown DEF Inspect
  <1>2. Turns(k, w, Failed(records[w]))
    BY <1>1, RecordsAreKnown, FailedTypes DEF Inspect, Copy, Goto, Turns
  <1>. QED BY <1>2, TurnsKeeps

\* A call that is refused leaves nothing behind.
LEMMA RefuseKeeps ==
    ASSUME IInv, NEW k \in Call, Refuse(k), UNCHANGED events PROVE IInv'
  <1>. USE DEF IInv, Rest, Refuse, Answer, Goto, Copy
  <1>0. /\ records[k] = None /\ k \notin stopped /\ k \notin striped
        /\ work' = work /\ striped' = striped
    BY DEF TypeOK, Unborn
  <1>a. NewRecord \in Record /\ NewRecord.tok = None /\ NewRecord.state = "collecting"
    BY NewTypes DEF NewRecord
  <1>1. Unborn' BY <1>0 DEF TypeOK, Unborn
  <1>2. Stripes' BY <1>0 DEF TypeOK, Stripes
  <1>3. OneDriver' BY <1>0 DEF TypeOK, OneDriver
  <1>4. OpenHandoff' BY <1>0 DEF TypeOK, OpenHandoff
  <1>5. Copies' BY DEF TypeOK, Copies
  <1>6. Tokens' BY <1>0, <1>a DEF TypeOK, Tokens
  <1>7. FreshTokens' BY DEF TypeOK, FreshTokens
  <1>8. Counted' BY <1>0 DEF TypeOK, Counted
  <1>9. Earned' BY <1>a DEF TypeOK, Earned
  <1>10. ReadyMeansPassed' BY DEF ReadyMeansPassed
  <1>11. TokenSingleUse' BY DEF TokenSingleUse
  <1>12. CancelTakesEffect' BY <1>0 DEF TypeOK, CancelTakesEffect
  <1>13. TypeOK' BY <1>0, <1>a, BoundsAreNat DEF TypeOK
  <1>. QED BY <1>1, <1>2, <1>3, <1>4, <1>5, <1>6, <1>7, <1>8, <1>9, <1>10, <1>11, <1>12, <1>13

\* start has checked its arguments.
LEMMA StartCheckKeeps ==
    ASSUME IInv, NEW k \in Call, NEW c \in Change \cup {None},
           NEW d \in Cand \cup {None}, StartCheck(k, c, d), UNCHANGED events
    PROVE  IInv'
  <1>1. CASE OutOfScope(d) \/ Cardinality(Active) >= MaxActive
    BY <1>1, RefuseKeeps DEF StartCheck, Refuse
  <1>2. CASE ~(OutOfScope(d) \/ Cardinality(Active) >= MaxActive)
    <2>. DEFINE q == [NewRecord EXCEPT !.chg = c]
    <2>1. /\ q \in Record /\ q.n = Zero /\ q.tok = None /\ q.state = "collecting"
      BY NewTypes DEF Record, NewRecord
    <2>2. /\ pc[k] = "idle" /\ pc' = [pc EXCEPT ![k] = "insert"]
          /\ loc' = [loc EXCEPT ![k] = q] /\ cand' = [cand EXCEPT ![k] = d]
          /\ UNCHANGED <<work, ran, striped, gone, shared, change, history>>
      BY <1>2 DEF StartCheck, Goto, Copy
    <2>. HIDE DEF q
    <2>. USE <2>1, <2>2 DEF IInv, Rest
    <2>3. Unborn' BY DEF TypeOK, Unborn
    <2>4. Stripes' BY DEF TypeOK, Stripes, Unborn
    <2>5. OneDriver' BY DEF TypeOK, OneDriver
    <2>6. OpenHandoff' BY DEF TypeOK, OpenHandoff
    <2>7. Copies' BY DEF TypeOK, Copies
    <2>8. Tokens' BY DEF TypeOK, Tokens
    <2>9. FreshTokens' BY DEF TypeOK, FreshTokens
    <2>10. Counted' BY DEF TypeOK, Counted
    <2>11. Earned' BY DEF TypeOK, Earned
    <2>12. ReadyMeansPassed' BY DEF ReadyMeansPassed
    <2>13. TokenSingleUse' BY DEF TokenSingleUse
    <2>14. CancelTakesEffect' BY DEF TypeOK, CancelTakesEffect
    <2>15. TypeOK' BY DEF TypeOK
    <2>. QED BY <2>3, <2>4, <2>5, <2>6, <2>7, <2>8, <2>9, <2>10, <2>11, <2>12, <2>13,
                <2>14, <2>15
  <1>. QED BY <1>1, <1>2

\* The record is published; another may make room for it.
LEMMA InsertKeeps ==
    ASSUME IInv, NEW k \in Call, Insert(k), UNCHANGED events PROVE IInv'
  <1>1. PICK v \in Call : records' = [w \in Call |-> IF w = k THEN NewRecord
                                          ELSE IF w = v THEN None ELSE records[w]]
    BY DEF Insert
  <1>2. /\ pc[k] = "insert" /\ pc' = [pc EXCEPT ![k] = "collect"]
        /\ UNCHANGED <<stopped, late, expired, sequence, change, work, loc, cand,
                       ran, striped, gone, history>>
    BY DEF Insert, Goto
  <1>3. /\ NewRecord \in Record /\ NewRecord.state = "collecting" /\ NewRecord.tok = None
    BY NewTypes DEF NewRecord
  <1>4. /\ work[k] = k /\ k \notin stopped /\ k \notin striped /\ loc[k].tok = None
        /\ loc[k].n = Zero /\ spent[k] = Zero /\ loc[k].state = "collecting"
        /\ \A j \in Call : work[j] = k => j = k
    BY <1>2 DEF IInv, Rest, Unborn
  <1>. USE <1>1, <1>2, <1>3, <1>4 DEF IInv, Rest
  <1>5. Unborn' BY DEF TypeOK, Unborn
  <1>6. Stripes' BY DEF TypeOK, Stripes
  <1>7. OneDriver' BY DEF TypeOK, OneDriver
  <1>8. OpenHandoff' BY DEF TypeOK, OpenHandoff
  <1>9. Copies' BY DEF TypeOK, Copies
  <1>10. Tokens' BY DEF TypeOK, Tokens
  <1>11. FreshTokens' BY DEF TypeOK, FreshTokens, Tokens
  <1>12. Counted' BY DEF TypeOK, Counted
  <1>13. Earned' BY DEF TypeOK, Earned
  <1>14. ReadyMeansPassed' BY DEF ReadyMeansPassed
  <1>15. TokenSingleUse' BY DEF TokenSingleUse
  <1>16. CancelTakesEffect' BY DEF TypeOK, CancelTakesEffect
  <1>17. TypeOK' BY DEF TypeOK
  <1>. QED BY <1>5, <1>6, <1>7, <1>8, <1>9, <1>10, <1>11, <1>12, <1>13, <1>14, <1>15,
              <1>16, <1>17

\* resume: a token is consumed, refused, or something is written back.
LEMMA ResumeKeeps ==
    ASSUME IInv, NEW k \in Call, NEW w \in Call, NEW n \in 0 .. sequence,
           NEW d \in Cand \cup {None}, NEW here \in BOOLEAN,
           Resume(k, w, <<w, n>>, d, here), UNCHANGED events
    PROVE  IInv'
  <1>. DEFINE r == records[w] t == <<w, n>>
  <1>0. /\ pc[k] = "idle" /\ StripeFree(w) /\ UNCHANGED <<shared, change, history>>
        /\ k \notin striped /\ work[k] = k
    BY DEF Resume, IInv, Rest, Unborn
  <1>1. CASE Answer(k)
    BY <1>0, <1>1, RefuseKeeps DEF Refuse
  <1>2. ASSUME r # None, NEW q \in Record, q.state \in Terminal, q.tok = r.tok,
               q.state = "ready" => r.state = "ready" /\ q.chg = r.chg /\ q.rev = r.rev,
               loc' = [loc EXCEPT ![k] = q], pc' = [pc EXCEPT ![k] = "write"],
               work' = [work EXCEPT ![k] = w], striped' = striped \cup {k},
               UNCHANGED <<cand, ran, gone>>
        PROVE  IInv'
    <2>1. Turns(k, w, q)
      BY <1>0, <1>2, RecordsAreKnown DEF Turns
    <2>. QED BY <2>1, TurnsKeeps
  <1>3. CASE /\ r # None /\ Copy(k, Failed(r)) /\ Goto(k, "write")
             /\ work' = [work EXCEPT ![k] = w] /\ striped' = striped \cup {k}
             /\ UNCHANGED <<cand, ran, gone>>
    <2>1. r \in Record BY <1>3, RecordsAreKnown
    <2>2. /\ Failed(r) \in Record /\ Failed(r).state \in Terminal
          /\ Failed(r).tok = r.tok /\ Failed(r).chg = r.chg /\ Failed(r).rev = r.rev
          /\ Failed(r).state = "ready" => r.state = "ready"
      BY <2>1, FailedTypes
    <2>. QED BY <1>2, <1>3, <2>2 DEF Copy, Goto
  <1>4. CASE /\ r # None
             /\ Copy(k, [r EXCEPT !.used = TRUE, !.state = "blocked"])
             /\ Goto(k, "write") /\ UNCHANGED <<cand, ran, gone>>
             /\ work' = [work EXCEPT ![k] = w] /\ striped' = striped \cup {k}
    <2>. DEFINE q == [r EXCEPT !.used = TRUE, !.state = "blocked"]
    <2>1. r \in Record BY <1>4, RecordsAreKnown
    <2>2. q \in Record /\ q.state = "blocked" /\ q.tok = r.tok
      BY <2>1 DEF Record, States
    <2>. HIDE DEF q
    <2>3. loc' = [loc EXCEPT ![k] = q] /\ pc' = [pc EXCEPT ![k] = "write"]
      BY <1>4 DEF Copy, Goto, q
    <2>. QED BY <1>2, <1>4, <2>2, <2>3
  <1>5. CASE /\ r # None /\ r.state = "needs_model" /\ r.tok # None
             /\ Copy(k, [r EXCEPT !.used = TRUE])
             /\ Goto(k, "rebind") /\ cand' = [cand EXCEPT ![k] = d]
             /\ work' = [work EXCEPT ![k] = w] /\ striped' = striped \cup {k}
             /\ UNCHANGED <<ran, gone>>
    <2>. DEFINE q == [r EXCEPT !.used = TRUE]
    <2>1. r \in Record BY <1>5, RecordsAreKnown
    <2>2. q \in Record /\ q.state = "needs_model" /\ q.tok = r.tok /\ q.n = r.n
      BY <1>5, <2>1 DEF Record
    <2>. HIDE DEF q
    <2>3. /\ loc' = [loc EXCEPT ![k] = q] /\ pc' = [pc EXCEPT ![k] = "rebind"]
      BY <1>5 DEF Copy, Goto, q
    <2>4. \A j \in Call : work[j] = w => ~Driving(j)
      <3>. SUFFICES ASSUME NEW j \in Call, work[j] = w, Driving(j) PROVE FALSE
        OBVIOUS
      <3>1. j \in striped BY <1>5 DEF IInv, Rest, OpenHandoff
      <3>. QED BY <1>0, <3>1 DEF StripeFree
    <2>5. pc[w] \notin {"idle", "insert"} /\ w # k
      BY <1>0, <1>5, RecordsAreKnown
    <2>6. \A x \in staged : x[1] # q.tok
      BY <1>5, <2>2 DEF IInv, Rest, FreshTokens
    <2>7. spent[w] = q.n BY <1>5, <2>2 DEF IInv, Rest, Counted
    <2>8. q.tok[1] = w /\ q.tok[2] <= sequence
      BY <1>5, <2>2, RecordsAreKnown
    <2>9. /\ work' \in [Call -> Call] /\ work'[k] = w /\ loc'[k] = q /\ pc'[k] = "rebind"
          /\ \A j \in Call : j # k => /\ work'[j] = work[j] /\ loc'[j] = loc[j]
                                      /\ pc'[j] = pc[j] /\ cand'[j] = cand[j]
                                      /\ (j \in striped' <=> j \in striped)
      BY <1>5, <2>3 DEF IInv, TypeOK
    <2>. USE <1>0, <2>9 DEF IInv, Rest
    <2>10. Unborn' BY <2>5 DEF Unborn
    <2>11. Stripes' BY <1>5 DEF Stripes, StripeFree, TypeOK
    <2>12. OneDriver' BY <2>4 DEF OneDriver
    <2>13. OpenHandoff' BY <1>5 DEF OpenHandoff
    <2>14. Copies' BY <2>2 DEF Copies
    <2>15. Tokens' BY <2>8 DEF Tokens
    <2>16. FreshTokens' BY <2>6 DEF FreshTokens
    <2>17. Counted' BY <2>7 DEF Counted
    <2>18. Earned' BY <1>5, <2>2 DEF Earned
    <2>19. ReadyMeansPassed' BY DEF ReadyMeansPassed
    <2>20. TokenSingleUse' BY DEF TokenSingleUse
    <2>21. CancelTakesEffect' BY DEF CancelTakesEffect
    <2>22. TypeOK' BY <1>5, <2>2, <2>3 DEF TypeOK
    <2>. QED BY <2>10, <2>11, <2>12, <2>13, <2>14, <2>15, <2>16, <2>17, <2>18, <2>19,
                <2>20, <2>21, <2>22
  <1>. QED BY <1>1, <1>3, <1>4, <1>5 DEF Resume

-----------------------------------------------------------------------------
(* The steps that write the record.                                        *)

\* What set_state leaves.
LEMMA SetStateTypes ==
    ASSUME TypeOK, NEW w \in Call, NEW s \in States, SetState(w, s)
    PROVE  /\ records' \in [Call -> Record \cup {None}]
           /\ \A v \in Call : v # w => records'[v] = records[v]
           /\ records[w] = None \/ records[w].state = "cancelled" =>
                records'[w] = records[w]
           /\ ~(records[w] = None \/ records[w].state = "cancelled") =>
                /\ records'[w] = InState(records[w], s)
                /\ records'[w] \in Record /\ records'[w].state = s
                /\ records'[w].n = records[w].n /\ records'[w].tok = records[w].tok
  BY StateTypes DEF SetState, TypeOK

\* A candidate is about to be staged.
LEMMA DriveStagesKeeps ==
    ASSUME IInv, NEW k \in Call, DriveStages(k), UNCHANGED events PROVE IInv'
  <1>. DEFINE w == work[k] q == InState(loc[k], "staging")
  <1>1. /\ Driving(k) /\ loc[k] \in Record /\ w \in Call /\ spent[w] = loc[k].n
        /\ loc[k].state \notin Terminal
    BY SpentIsCounted DEF DriveStages, IInv, Rest, Copies
  <1>2. /\ q \in Record /\ q.state = "staging" /\ q.n = loc[k].n /\ q.tok = loc[k].tok
        /\ q.n.cands < MaxCandidates
    <2>1. q \in Record /\ q.state = "staging" /\ q.n = loc[k].n /\ q.tok = loc[k].tok
      BY <1>1, StateTypes DEF States
    <2>2. loc[k].n.cands < MaxCandidates
      BY <1>1, BoundsAreNat DEF DriveStages, Unfit, NoCandidateLeft, Record, Count
    <2>. QED BY <2>1, <2>2
  <1>3. /\ pc[k] = "drive" /\ cand[k] # None /\ pc' = [pc EXCEPT ![k] = "stage"]
        /\ loc' = [loc EXCEPT ![k] = q] /\ SetState(w, "staging")
        /\ staged' = IF loc[k].tok = None THEN staged
                     ELSE staged \cup {<<loc[k].tok, k>>}
        /\ UNCHANGED <<stopped, late, expired, sequence, change, work, cand, ran,
                       striped, gone, passed, spent>>
    BY DEF DriveStages, Copy, Goto
  <1>. HIDE DEF q
  <1>4. /\ records' \in [Call -> Record \cup {None}]
        /\ \A v \in Call : v # w => records'[v] = records[v]
        /\ records[w] = None \/ records[w].state = "cancelled" =>
                records'[w] = records[w]
        /\ ~(records[w] = None \/ records[w].state = "cancelled") =>
                /\ records'[w].state = "staging" /\ records'[w].tok = records[w].tok
    BY <1>1, <1>3, SetStateTypes DEF IInv, States
  <1>5. \A x \in staged : x[1] # loc[k].tok
    BY <1>3 DEF IInv, Rest, FreshTokens
  <1>6. \A x \in staged' : x \in staged \/ (x = <<loc[k].tok, k>> /\ loc[k].tok # None)
    BY <1>3
  <1>7. /\ loc'[k] = q /\ pc'[k] = "stage"
        /\ \A j \in Call : j # k => loc'[j] = loc[j] /\ pc'[j] = pc[j]
    BY <1>3 DEF IInv, TypeOK
  <1>8. loc[k].tok # None => /\ loc[k].tok \in Token /\ loc[k].tok[1] = w
                             /\ loc[k].tok[2] <= sequence
    BY <1>1 DEF IInv, Rest, Tokens, Record
  <1>. USE <1>1, <1>2, <1>3, <1>4, <1>7 DEF IInv, Rest
  <1>9. Unborn' BY DEF TypeOK, Unborn
  <1>10. Stripes' BY DEF TypeOK, Stripes
  <1>11. OneDriver' BY DEF TypeOK, OneDriver
  <1>12. OpenHandoff'
    <2>. SUFFICES ASSUME NEW v \in Call, records'[v] # None,
                         records'[v].state = "needs_model",
                         NEW j \in Call, work[j] = v, Driving(j)'
                  PROVE  /\ j \in striped
                         /\ \/ pc'[j] \in {"rebind", "drive"}
                            \/ pc'[j] \in {"final", "commit"} /\ loc'[j].state \in Terminal
      BY <1>3 DEF OpenHandoff
    <2>1. v # w /\ records'[v] = records[v] BY <1>4
    <2>2. j # k /\ pc'[j] = pc[j] /\ loc'[j] = loc[j] BY <1>7, <2>1
    <2>. QED BY <2>1, <2>2 DEF OpenHandoff
  <1>13. Copies' BY DEF TypeOK, Copies
  <1>14. Tokens'
    <2>1. \A v \in Call : records'[v] # None /\ records'[v].tok # None =>
              records'[v].tok[1] = v /\ records'[v].tok[2] <= sequence
      BY DEF Tokens
    <2>2. \A j \in Call : loc'[j].tok # None =>
              loc'[j].tok[1] = work[j] /\ loc'[j].tok[2] <= sequence
      BY DEF Tokens
    <2>3. \A x \in staged' : x[1] # None /\ x[1][2] <= sequence
      BY <1>6, <1>8 DEF Tokens
    <2>. QED BY <2>1, <2>2, <2>3 DEF Tokens
  <1>15. FreshTokens'
    <2>1. ASSUME NEW v \in Call, records'[v] # None, records'[v].state = "needs_model",
                 NEW x \in staged'
          PROVE  x[1] # records'[v].tok
      <3>1. v # w /\ records'[v] = records[v] /\ records[v].state = "needs_model" BY <2>1
      <3>2. x \in staged => x[1] # records[v].tok BY <2>1, <3>1 DEF FreshTokens
      <3>3. records[v].tok # None => records[v].tok[1] = v BY <2>1, <3>1 DEF Tokens
      <3>. QED BY <1>6, <1>8, <3>1, <3>2, <3>3
    <2>2. ASSUME NEW j \in Call, NEW x \in staged',
                 \/ pc'[j] \in {"collect", "rebind", "drive"}
                 \/ pc'[j] \in {"final", "commit"} /\ loc'[j].state = "needs_model"
          PROVE  x[1] # loc'[j].tok
      <3>1. j # k /\ loc'[j] = loc[j] /\ pc'[j] = pc[j] BY <2>2
      <3>2. x \in staged => x[1] # loc[j].tok BY <2>2, <3>1 DEF FreshTokens
      <3>3. work[j] # w BY <2>2, <3>1 DEF OneDriver
      <3>4. loc[j].tok # None => loc[j].tok[1] = work[j] BY DEF Tokens
      <3>. QED BY <1>6, <1>8, <3>1, <3>2, <3>3, <3>4
    <2>. QED BY <2>1, <2>2 DEF FreshTokens
  <1>16. Counted' BY DEF TypeOK, Counted
  <1>17. Earned' BY DEF TypeOK, Earned
  <1>18. ReadyMeansPassed' BY DEF ReadyMeansPassed
  <1>19. TokenSingleUse' BY <1>5, <1>6 DEF TokenSingleUse
  <1>20. CancelTakesEffect' BY DEF TypeOK, CancelTakesEffect
  <1>21. TypeOK'
    <2>1. staged' \subseteq Token \X Call BY <1>6, <1>8 DEF TypeOK
    <2>2. loc' \in [Call -> Record] BY DEF TypeOK
    <2>. QED BY <2>1, <2>2 DEF TypeOK
  <1>. QED BY <1>9, <1>10, <1>11, <1>12, <1>13, <1>14, <1>15, <1>16, <1>17, <1>18, <1>19,
              <1>20, <1>21

\* A candidate has been staged.
LEMMA StagedKeeps ==
    ASSUME IInv, NEW k \in Call, Staged(k), UNCHANGED events PROVE IInv'
  <1>. DEFINE w == work[k] r == loc[k]
              q == [r EXCEPT !.state = "validating", !.rev = change[r.chg].rev + 1,
                             !.n.cands = @ + 1, !.tried = @ \cup {cand[k]}]
  <1>1. /\ Driving(k) /\ r \in Record /\ w \in Call /\ spent[w] = r.n
        /\ pc[k] = "stage" /\ r.n.cands < MaxCandidates /\ cand[k] \in Cand
        /\ spent \in [Call -> Count]
    BY SpentIsCounted DEF Staged, IInv, Rest, Copies, Counted, TypeOK
  <1>2. /\ r.chg \in Change /\ change[r.chg].rev + 1 \in 0 .. MaxRevisions
        /\ change' = [change EXCEPT ![r.chg].rev = @ + 1]
    BY <1>1, BoundsAreNat DEF Staged, IInv, TypeOK, Record
  <1>3. /\ q \in Record /\ q.state = "validating" /\ q.tok = r.tok
        /\ q.n = [r.n EXCEPT !.cands = @ + 1]
    <2>1. r.n.cands + 1 \in 0 .. MaxCandidates
      BY <1>1, BoundsAreNat DEF Record, Count
    <2>2. r.tried \cup {cand[k]} \in SUBSET Cand BY <1>1 DEF Record
    <2>. QED BY <1>1, <1>2, <2>1, <2>2 DEF Record, Count, States
  <1>4. /\ loc' = [loc EXCEPT ![k] = q] /\ SetState(w, "validating")
        /\ pc' = [pc EXCEPT ![k] = "gate"] /\ ran' = [ran EXCEPT ![k] = 0]
        /\ UNCHANGED <<stopped, late, expired, sequence, work, cand, striped, gone,
                       passed, staged>>
    BY DEF Staged, Copy, Goto
  <1>5. spent' = [spent EXCEPT ![w] = q.n]
    <2>1. spent' = [spent EXCEPT ![w].cands = @ + 1] BY DEF Staged
    <2>. HIDE DEF q
    <2>. QED BY <1>1, <1>3, <2>1
  <1>. HIDE DEF q
  <1>6. /\ records' \in [Call -> Record \cup {None}]
        /\ \A v \in Call : v # w => records'[v] = records[v]
        /\ records[w] = None \/ records[w].state = "cancelled" =>
                records'[w] = records[w]
        /\ ~(records[w] = None \/ records[w].state = "cancelled") =>
                /\ records'[w].state = "validating" /\ records'[w].tok = records[w].tok
    BY <1>1, <1>4, SetStateTypes DEF IInv, States
  <1>7. /\ loc'[k] = q /\ pc'[k] = "gate" /\ ran'[k] = 0
        /\ \A j \in Call : j # k => loc'[j] = loc[j] /\ pc'[j] = pc[j] /\ ran'[j] = ran[j]
    BY <1>4 DEF IInv, TypeOK
  <1>8. q.n \in Count /\ spent'[w] = q.n /\ (\A v \in Call : v # w => spent'[v] = spent[v])
    BY <1>1, <1>3, <1>5 DEF Record
  <1>. USE <1>1, <1>3, <1>4, <1>6, <1>7 DEF IInv, Rest
  <1>9. Unborn' BY <1>8 DEF TypeOK, Unborn
  <1>10. Stripes' BY DEF TypeOK, Stripes
  <1>11. OneDriver' BY DEF TypeOK, OneDriver
  <1>12. OpenHandoff'
    <2>. SUFFICES ASSUME NEW v \in Call, records'[v] # None,
                         records'[v].state = "needs_model",
                         NEW j \in Call, work[j] = v, Driving(j)'
                  PROVE  /\ j \in striped
                         /\ \/ pc'[j] \in {"rebind", "drive"}
                            \/ pc'[j] \in {"final", "commit"} /\ loc'[j].state \in Terminal
      BY <1>4 DEF OpenHandoff
    <2>1. v # w /\ records'[v] = records[v] BY <1>6
    <2>2. j # k /\ pc'[j] = pc[j] /\ loc'[j] = loc[j] BY <1>7, <2>1
    <2>. QED BY <2>1, <2>2 DEF OpenHandoff
  <1>13. Copies' BY DEF TypeOK, Copies
  <1>14. Tokens' BY DEF Tokens
  <1>15. FreshTokens' BY DEF TypeOK, FreshTokens
  <1>16. Counted'
    <2>1. spent' \in [Call -> Count] BY <1>5, <1>8
    <2>2. \A j \in Call : Driving(j)' => spent'[work'[j]] = loc'[j].n
      BY <1>8 DEF TypeOK, Counted, OneDriver
    <2>3. \A v \in Call : records'[v] # None /\ records'[v].state = "needs_model" =>
              spent'[v] = records'[v].n
      BY <1>8 DEF Counted
    <2>. QED BY <2>1, <2>2, <2>3 DEF Counted
  <1>17. Earned' BY BoundsAreNat DEF Earned
  <1>18. ReadyMeansPassed' BY DEF ReadyMeansPassed
  <1>19. TokenSingleUse' BY DEF TokenSingleUse
  <1>20. CancelTakesEffect' BY DEF TypeOK, CancelTakesEffect
  <1>21. TypeOK'
    <2>1. spent' \in [Call -> [cands : Nat, comps : Nat, hands : Nat]]
      BY <1>16, CountTypes DEF Counted
    <2>2. change' \in [Change -> [state : {"absent", "ready", "dead", "gone"},
                                  rev : 0 .. MaxRevisions]]
      <3>1. ASSUME NEW c \in Change, change[c].rev + 1 \in 0 .. MaxRevisions
            PROVE  [change EXCEPT ![c].rev = @ + 1] \in
                     [Change -> [state : {"absent", "ready", "dead", "gone"},
                                 rev : 0 .. MaxRevisions]]
        BY IInv, <3>1 DEF IInv, TypeOK
      <3>. QED BY <1>2, <3>1
    <2>3. loc' \in [Call -> Record] BY DEF TypeOK
    <2>4. ran' \in [Call -> 0 .. NGates] BY BoundsAreNat DEF TypeOK
    <2>. QED BY <2>1, <2>2, <2>3, <2>4 DEF TypeOK
  <1>. QED BY <1>9, <1>10, <1>11, <1>12, <1>13, <1>14, <1>15, <1>16, <1>17, <1>18, <1>19,
              <1>20, <1>21

\* The copy is written back, unless the record is gone or cancelled.
LEMMA FinishKeeps ==
    ASSUME IInv, NEW k \in Call, Finish(k), UNCHANGED events PROVE IInv'
  <1>. DEFINE w == work[k] r == loc[k]
  <1>1. /\ pc[k] \in {"commit", "write"} /\ w \in Call /\ r \in Record
        /\ r.state \in Terminal \cup {"needs_model"}
        /\ pc[k] = "write" => r.state \in Terminal
    BY DEF Finish, IInv, Rest, TypeOK, Copies
  <1>2. /\ records' = IF records[w] = None \/ records[w].state = "cancelled"
                      THEN records ELSE [records EXCEPT ![w] = r]
        /\ pc' = [pc EXCEPT ![k] = "done"] /\ loc' = [loc EXCEPT ![k] = NewRecord]
        /\ work' = [work EXCEPT ![k] = k] /\ cand' = [cand EXCEPT ![k] = None]
        /\ ran' = [ran EXCEPT ![k] = 0]
        /\ striped' = striped \ {k} /\ gone' = gone \ {k}
        /\ UNCHANGED <<stopped, late, expired, sequence, change, history>>
    BY DEF Finish, Commit, Answer, Goto, Copy
  <1>3. /\ NewRecord \in Record /\ NewRecord.tok = None /\ NewRecord.state = "collecting"
    BY NewTypes DEF NewRecord
  <1>4. /\ records' \in [Call -> Record \cup {None}]
        /\ \A v \in Call : records'[v] = records[v] \/
              (v = w /\ records'[v] = r /\ records[v] # None
               /\ records[v].state # "cancelled")
    BY <1>1, <1>2 DEF IInv, TypeOK
  <1>5. /\ loc'[k] = NewRecord /\ pc'[k] = "done" /\ work'[k] = k /\ k \notin striped'
        /\ \A j \in Call : j # k => /\ work'[j] = work[j] /\ loc'[j] = loc[j]
                                    /\ pc'[j] = pc[j] /\ cand'[j] = cand[j]
                                    /\ ran'[j] = ran[j]
                                    /\ (j \in striped' <=> j \in striped)
    BY <1>2 DEF IInv, TypeOK
  <1>6. \A j \in Call : Driving(j)' => j # k /\ Driving(j) BY <1>5
  <1>7. pc[k] = "commit" => \A j \in Call : j # k /\ Driving(j) => work[j] # w
    BY DEF IInv, Rest, OneDriver
  <1>. USE <1>1, <1>2, <1>3, <1>4, <1>5, <1>6 DEF IInv, Rest
  <1>9. Unborn' BY DEF TypeOK, Unborn
  <1>10. Stripes'
    <2>1. \A j \in striped' : j \in striped /\ j # k BY <1>2
    <2>. QED BY <2>1 DEF TypeOK, Stripes
  <1>11. OneDriver' BY DEF OneDriver
  <1>12. OpenHandoff'
    <2>. SUFFICES ASSUME NEW v \in Call, records'[v] # None,
                         records'[v].state = "needs_model",
                         NEW j \in Call, work'[j] = v, Driving(j)'
                  PROVE  /\ j \in striped'
                         /\ \/ pc'[j] \in {"rebind", "drive"}
                            \/ pc'[j] \in {"final", "commit"} /\ loc'[j].state \in Terminal
      BY DEF OpenHandoff
    <2>1. j # k /\ Driving(j) /\ work[j] = v BY <1>5, <1>6
    <2>2. CASE records'[v] = records[v] BY <2>1, <2>2 DEF OpenHandoff
    <2>3. CASE v = w /\ records'[v] = r BY <1>7, <2>1, <2>3
    <2>. QED BY <1>4, <2>2, <2>3
  <1>13. Copies' BY DEF Copies
  <1>14. Tokens' BY DEF Tokens
  <1>15. FreshTokens'
    <2>1. ASSUME NEW v \in Call, records'[v] # None, records'[v].state = "needs_model",
                 NEW x \in staged
          PROVE  x[1] # records'[v].tok
      <3>1. CASE records'[v] = records[v] BY <2>1, <3>1 DEF FreshTokens
      <3>2. CASE v = w /\ records'[v] = r BY <2>1, <3>2 DEF FreshTokens
      <3>. QED BY <1>4, <3>1, <3>2
    <2>2. ASSUME NEW j \in Call, NEW x \in staged,
                 \/ pc'[j] \in {"collect", "rebind", "drive"}
                 \/ pc'[j] \in {"final", "commit"} /\ loc'[j].state = "needs_model"
          PROVE  x[1] # loc'[j].tok
      BY <2>2 DEF FreshTokens
    <2>. QED BY <1>2, <2>1, <2>2 DEF FreshTokens
  <1>16. Counted'
    <2>1. \A j \in Call : Driving(j)' => spent'[work'[j]] = loc'[j].n
      BY DEF Counted
    <2>2. ASSUME NEW v \in Call, records'[v] # None, records'[v].state = "needs_model"
          PROVE  spent'[v] = records'[v].n
      <3>1. CASE records'[v] = records[v] BY <2>2, <3>1 DEF Counted
      <3>2. CASE v = w /\ records'[v] = r BY <2>2, <3>2 DEF Counted
      <3>. QED BY <1>4, <3>1, <3>2
    <2>. QED BY <2>1, <2>2 DEF Counted
  <1>17. Earned' BY DEF Earned
  <1>18. ReadyMeansPassed' BY DEF ReadyMeansPassed, Earned
  <1>19. TokenSingleUse' BY DEF TokenSingleUse
  <1>20. CancelTakesEffect'
    <2>. SUFFICES ASSUME NEW v \in stopped, records'[v] # None,
                         records'[v].state # "cancelled"
                  PROVE  \E j \in Call : /\ work'[j] = v /\ pc'[j] = "write"
                                         /\ loc'[j].state = "cancelled"
      BY DEF CancelTakesEffect
    <2>1. v \in Call BY DEF TypeOK
    <2>2. records[v] # None /\ records[v].state # "cancelled" BY <1>4, <2>1
    <2>3. PICK j \in Call : work[j] = v /\ pc[j] = "write" /\ loc[j].state = "cancelled"
      BY <2>2 DEF CancelTakesEffect
    <2>4. j # k BY <2>1, <2>2, <2>3 DEF TypeOK
    <2>. QED BY <1>5, <2>3, <2>4
  <1>21. TypeOK'
    <2>1. /\ loc' \in [Call -> Record] /\ work' \in [Call -> Call]
          /\ cand' \in [Call -> Cand \cup {None}]
      BY DEF TypeOK
    <2>2. ran' \in [Call -> 0 .. NGates] BY BoundsAreNat DEF TypeOK
    <2>. QED BY <2>1, <2>2 DEF TypeOK
  <1>. QED BY <1>9, <1>10, <1>11, <1>12, <1>13, <1>14, <1>15, <1>16, <1>17, <1>18, <1>19,
              <1>20, <1>21

-----------------------------------------------------------------------------
(* The world around, and the theorems.                                     *)

\* Events touch what the invariant does not speak of.
LEMMA EventsKeep ==
    ASSUME IInv,
           \/ \E k \in Call : RequestCancelled(k)
           \/ \E w \in Call : WallTimeOver(w) \/ TokenExpires(w)
           \/ \E c \in Change : ChangedElsewhere(c)
    PROVE  IInv'
  <1>1. /\ UNCHANGED <<records, stopped, sequence, pc, work, loc, cand, ran, striped, history>>
        /\ events' \in 0 .. MaxEvents
    BY BoundsAreNat
    DEF RequestCancelled, WallTimeOver, TokenExpires, ChangedElsewhere, Event, IInv, TypeOK
  <1>2. gone' \subseteq Call /\ late' \subseteq Call
    BY DEF RequestCancelled, WallTimeOver, TokenExpires, ChangedElsewhere, IInv, TypeOK
  <1>3. expired' \subseteq Token
    <2>1. \A w \in Call : records[w] # None /\ records[w].tok # None =>
              records[w].tok \in Token
      BY DEF IInv, TypeOK, Record
    <2>. QED BY <2>1 DEF RequestCancelled, WallTimeOver, TokenExpires, ChangedElsewhere,
                         IInv, TypeOK
  <1>4. change' \in [Change -> ChangeAnswer]
    <2>1. change \in [Change -> ChangeAnswer] BY DEF IInv, TypeOK, ChangeAnswer
    <2>2. ASSUME NEW c \in Change, ChangedElsewhere(c) PROVE change' \in [Change -> ChangeAnswer]
      <3>1. change[c] \in ChangeAnswer BY <2>1
      <3>2. CASE change' = [change EXCEPT ![c].state = "ready"]
        BY <2>1, <3>1, <3>2 DEF ChangeAnswer
      <3>3. CASE change[c].rev < MaxRevisions /\ change' = [change EXCEPT ![c].rev = @ + 1]
        <4>1. change[c].rev + 1 \in 0 .. MaxRevisions
          BY <3>1, <3>3, BoundsAreNat DEF ChangeAnswer
        <4>. QED BY <2>1, <3>1, <3>3, <4>1 DEF ChangeAnswer
      <3>4. CASE change' = [change EXCEPT ![c].state = "gone"]
        BY <2>1, <3>1, <3>4 DEF ChangeAnswer
      <3>. QED BY <2>2, <3>2, <3>3, <3>4 DEF ChangedElsewhere
    <2>. QED BY <2>1, <2>2 DEF RequestCancelled, WallTimeOver, TokenExpires
  <1>5. TypeOK' BY <1>1, <1>2, <1>3, <1>4 DEF IInv, TypeOK, ChangeAnswer
  <1>6. Rest'
    BY <1>1 DEF IInv, Rest, Unborn, Stripes, OneDriver, OpenHandoff, Copies, Tokens,
                FreshTokens, Counted, Earned, ReadyMeansPassed, TokenSingleUse,
                CancelTakesEffect
  <1>. QED BY <1>5, <1>6 DEF IInv

\* The invariant is inductive.
LEMMA NextKeeps == IInv /\ [Next]_vars => IInv'
  <1>. SUFFICES ASSUME IInv, [Next]_vars PROVE IInv' OBVIOUS
  <1>1. ASSUME NEW k \in Call, Arrive(k), UNCHANGED events PROVE IInv'
    <2>1. CASE Refuse(k) BY <1>1, <2>1, RefuseKeeps
    <2>2. CASE \E c \in Change \cup {None}, d \in Cand \cup {None} : StartCheck(k, c, d)
      BY <1>1, <2>2, StartCheckKeeps
    <2>3. CASE \E w \in Call, here \in BOOLEAN, d \in Cand \cup {None} :
                 \E n \in 0 .. sequence : Resume(k, w, <<w, n>>, d, here)
      BY <1>1, <2>3, ResumeKeeps
    <2>4. CASE \E w \in Call, here \in BOOLEAN : Cancel(k, w, here)
      BY <1>1, <2>4, CancelKeeps
    <2>5. CASE \E w \in Call : Inspect(k, w) BY <1>1, <2>5, InspectKeeps
    <2>. QED BY <1>1, <2>1, <2>2, <2>3, <2>4, <2>5 DEF Arrive
  <1>2. ASSUME NEW k \in Call, Drive(k), UNCHANGED events PROVE IInv'
    <2>1. CASE \E d \in Diag \cup {None} : GateFails(k, d) BY <1>2, <2>1, GateFailsKeeps
    <2>2. CASE Insert(k) \/ Adopt(k) \/ Create(k) \/ Rebind(k)
      BY <1>2, <2>2, InsertKeeps, AdoptKeeps, CreateKeeps, RebindKeeps
    <2>3. CASE DriveHandoff(k) \/ DriveBlocks(k) \/ DriveStages(k) \/ Staged(k) \/ StageFails(k)
      BY <1>2, <2>3, DriveHandoffKeeps, DriveBlocksKeeps, DriveStagesKeeps, StagedKeeps,
         StageFailsKeeps
    <2>4. CASE GateStops(k) \/ GatePasses(k) \/ GateErrs(k) \/ GatesDone(k)
      BY <1>2, <2>4, GateStopsKeeps, GatePassesKeeps, GateErrsKeeps, GatesDoneKeeps
    <2>5. CASE Finalize(k) \/ Finish(k) BY <1>2, <2>5, FinalizeKeeps, FinishKeeps
    <2>. QED BY <1>2, <2>1, <2>2, <2>3, <2>4, <2>5 DEF Drive
  <1>3. CASE UNCHANGED vars
    <2>1. TypeOK' BY <1>3 DEF IInv, TypeOK, vars
    <2>2. Rest'
      BY <1>3 DEF vars, IInv, Rest, Unborn, Stripes, OneDriver, OpenHandoff, Copies, Tokens,
                  FreshTokens, Counted, Earned, ReadyMeansPassed, TokenSingleUse,
                  CancelTakesEffect
    <2>. QED BY <2>1, <2>2 DEF IInv
  <1>. QED BY <1>1, <1>2, <1>3, EventsKeep DEF Next

\* The inductive invariant holds in every reachable state.
THEOREM InvariantHolds == Spec => []IInv
  BY InitIInv, NextKeeps, PTL DEF Spec

\* Types of the state of the work executor.
THEOREM TypesHold == Spec => []TypeOK
  <1>1. IInv => TypeOK BY DEF IInv
  <1>. QED BY <1>1, InvariantHolds, PTL

\* A ready record names a change and a revision on which every gate passed,
\* for any number of concurrent calls, gates and foreign stagings.
THEOREM ReadyIsEarned == Spec => []ReadyMeansPassed
  <1>1. IInv => ReadyMeansPassed BY DEF IInv, Rest
  <1>. QED BY <1>1, InvariantHolds, PTL

\* What was really spent on a work stays within its budget.
THEOREM BudgetsAreKept == Spec => []BudgetsHold
  <1>1. IInv => BudgetsHold
    BY BoundsAreNat DEF IInv, Rest, Counted, Count, BudgetsHold
  <1>. QED BY <1>1, InvariantHolds, PTL

\* No token lets two calls stage.
THEOREM TokensAreSingleUse == Spec => []TokenSingleUse
  <1>1. IInv => TokenSingleUse BY DEF IInv, Rest
  <1>. QED BY <1>1, InvariantHolds, PTL

\* A cancellation that took effect is not overwritten by the call it stopped.
THEOREM CancellationsTakeEffect == Spec => []CancelTakesEffect
  <1>1. IInv => CancelTakesEffect BY DEF IInv, Rest
  <1>. QED BY <1>1, InvariantHolds, PTL
=============================================================================
