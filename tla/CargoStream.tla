---------------------------- MODULE CargoStream ----------------------------
(***************************************************************************)
(* Compiler evidence read from the standard output of Cargo while it runs  *)
(* (diagnostics/stream.rs): lines put together from chunks, bounded, and   *)
(* a bounded set of diagnostics in which errors displace warnings.         *)
(* A byte is the number of its line, or 0 for the line end.                *)
(***************************************************************************)
EXTENDS Naturals, Sequences, FiniteSets, SequencesExt

CONSTANTS
  Logs,         \* what Cargo prints: sequences of lines
  ChunkSizes,
  MaxLine, MaxDiagnostics, MaxEvidenceBytes

\* A line: its length, its kind and what a diagnostic of it is (level, key and size in the report).
\*   kinds: "diagnostic", "finished", "artifact", "summary", "human", "malformed", "badutf8"
VARIABLES
  log, unread,  \* the lines printed, and the bytes to come
  st,           \* the CargoStream
  phase

vars == <<log, unread, st, phase>>

BytesOf(l, i) == [k \in 1 .. l.len |-> i] \o <<0>>
NoStats == [records |-> 0, duplicates |-> 0, omitted |-> 0, malformed |-> 0, oversized |-> 0,
            finished |-> FALSE, summaries |-> 0, binaries |-> 0]
Init ==
  /\ log \in Logs
  /\ unread = FlattenSeq([i \in 1 .. Len(log) |-> BytesOf(log[i], i)])
  /\ st = [line |-> <<>>, discard |-> FALSE, bytes |-> 0, diagnostics |-> <<>>, keys |-> {}, human |-> <<>>,
           stats |-> NoStats]
  /\ phase = "running"

-----------------------------------------------------------------------------
Count(s, field) == [s EXCEPT !.stats[field] = @ + 1]

\* retain: a known key is a duplicate; a full report makes room for an error by giving up its latest
\* warnings, and otherwise leaves the diagnostic out.
Warnings(s) == {k \in 1 .. Len(s.diagnostics) : s.diagnostics[k].level = "warning"}
LastWarning(s) == CHOOSE k \in Warnings(s) : \A j \in Warnings(s) : j <= k
Full(s, d) == Len(s.diagnostics) >= MaxDiagnostics \/ s.bytes + d.size > MaxEvidenceBytes
GiveUp(s) ==
  LET w == s.diagnostics[LastWarning(s)]
  IN  [Count(s, "omitted") EXCEPT !.diagnostics = RemoveAt(@, LastWarning(s)),
                                  !.keys = @ \ {w.key}, !.bytes = @ - w.size]
RECURSIVE MakeRoom(_, _)
\* Mutant: warnings are given up without being counted.
MakeRoom_Silent(s, d) ==
  IF ~Full(s, d) THEN [s EXCEPT !.bytes = @ + d.size, !.keys = @ \union {d.key}, !.diagnostics = Append(@, d)]
  ELSE IF d.level = "error" /\ Warnings(s) # {} THEN MakeRoom([GiveUp(s) EXCEPT !.stats = s.stats], d)
  ELSE Count(s, "omitted")
MakeRoom(s, d) ==
  IF ~Full(s, d) THEN [s EXCEPT !.bytes = @ + d.size, !.keys = @ \union {d.key}, !.diagnostics = Append(@, d)]
  ELSE IF d.level = "error" /\ Warnings(s) # {} THEN MakeRoom(GiveUp(s), d)
  ELSE Count(s, "omitted")
Retain(s, d) ==
  LET r == Count(s, "records")
  IN  IF d.key \in s.keys THEN Count(r, "duplicates")
      ELSE IF d.size > MaxEvidenceBytes \/ MaxDiagnostics = 0 THEN Count(r, "omitted")
      ELSE MakeRoom(r, d)

\* consume_line, on the line now in the buffer; the beginning of a record is no record.
Records == {"diagnostic", "finished", "artifact", "malformed"}
ConsumeLine(s) ==
  LET t == [s EXCEPT !.line = <<>>]
      l == log[s.line[1]]
  IN  IF s.discard \/ s.line = <<>> THEN t
      ELSE IF Len(s.line) < l.len
        THEN IF l.kind \in Records THEN Count(t, "malformed") ELSE [t EXCEPT !.human = Append(@, s.line[1])]
      ELSE CASE l.kind \in {"malformed", "badutf8"} -> Count(t, "malformed")
             [] l.kind = "diagnostic" -> Retain(t, l.diagnostic)
             [] l.kind = "finished"   -> [t EXCEPT !.stats.finished = TRUE]
             [] l.kind = "artifact"   -> Count(t, "binaries")
             [] l.kind = "summary"    -> [Count(t, "summaries") EXCEPT !.human = Append(@, s.line[1])]
             [] OTHER                 -> [t EXCEPT !.human = Append(@, s.line[1])]

\* push: the chunk is cut at the line ends; a line past the bound is discarded up to its end.
Fill(s, segment) ==
  IF s.discard THEN s
  ELSE IF Len(s.line) + Len(segment) > MaxLine
    THEN [Count(s, "oversized") EXCEPT !.line = <<>>, !.discard = TRUE]
    ELSE [s EXCEPT !.line = @ \o segment]
RECURSIVE Push(_, _)
Push(s, bytes) ==
  LET ends == {k \in 1 .. Len(bytes) : bytes[k] = 0}
      end  == CHOOSE k \in ends : \A j \in ends : k <= j
  IN  IF bytes = <<>> THEN s
      ELSE IF ends = {} THEN Fill(s, bytes)
      ELSE Push([ConsumeLine(Fill(s, SubSeq(bytes, 1, end - 1))) EXCEPT !.discard = FALSE],
                SubSeq(bytes, end + 1, Len(bytes)))

\* The stdout callback of the collector, on one chunk.
Chunk ==
  \E n \in ChunkSizes :
    /\ phase = "running" /\ n <= Len(unread)
    /\ st' = Push(st, SubSeq(unread, 1, n))
    /\ unread' = SubSeq(unread, n + 1, Len(unread))
    /\ UNCHANGED <<log, phase>>

\* finish_with_human_output, at the end of the output or when the command was stopped before it.
Finish ==
  /\ phase = "running"
  /\ st' = ConsumeLine(st) /\ phase' = "done"
  /\ UNCHANGED <<log, unread>>

Next == Chunk \/ Finish
Spec == Init /\ [][Next]_vars

Truncated == st.stats.omitted > 0 \/ st.stats.malformed > 0 \/ st.stats.oversized > 0
-----------------------------------------------------------------------------
Seen == {log[i].diagnostic : i \in {j \in 1 .. Len(log) : log[j].kind = "diagnostic"}}

\* EvidenceIsHonest: wherever the pipe cuts the lines, a finished report of the whole output that is not
\* marked truncated holds every diagnostic Cargo printed, once, and its bounds hold; an error is left
\* out only when the report holds no warning it could have displaced, so a report with room names an
\* error if there was one (CargoStream::push, retain).
EvidenceIsHonest ==
  /\ Len(st.diagnostics) <= MaxDiagnostics /\ st.bytes <= MaxEvidenceBytes
  /\ st.keys = {st.diagnostics[k].key : k \in 1 .. Len(st.diagnostics)}
  /\ Cardinality(st.keys) = Len(st.diagnostics)
  /\ (phase = "done" /\ unread = <<>> /\ ~Truncated) =>
       /\ st.keys = {d.key : d \in Seen}
       /\ st.stats.finished = (\E i \in 1 .. Len(log) : log[i].kind = "finished")
       /\ st.stats.summaries = Cardinality({i \in 1 .. Len(log) : log[i].kind = "summary"})
  /\ (phase = "done" /\ unread = <<>> /\ st.stats.oversized = 0)
       => ((\E d \in Seen : d.level = "error" /\ d.size <= MaxEvidenceBytes)
             => \E k \in 1 .. Len(st.diagnostics) : st.diagnostics[k].level = "error")
=============================================================================
