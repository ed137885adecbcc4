--------------------------- MODULE ProcessOutput ---------------------------
(***************************************************************************)
(* The output of a supervised command (process/output.rs and the drain in  *)
(* process/supervisor.rs): two readers cut stdout and stderr into chunks,  *)
(* one collector decodes them, drops terminal escapes, keeps bounded tails *)
(* and looks for the first diagnostic line.  Chunks end anywhere, inside a *)
(* character or an escape; a read may fail, and the drain has a deadline.  *)
(***************************************************************************)
EXTENDS Naturals, Sequences, SequencesExt

CONSTANTS
  Outputs,      \* what the command prints: a pair of byte sequences, stdout and stderr
  ChunkSizes,   \* bytes of one read
  MaxBytes,     \* max_bytes of the collector
  Capacity      \* events the channel holds before a reader waits

\* Bytes: "a" a plain character, "d" the one a diagnostic line starts with, "m1" "m2" the two bytes of
\* one character, "x" no UTF-8, "nl" the line end, "esc" "[" "]" "bel" "bs" the marks of escapes, "ctl"
\* another control character.  Characters are the same, "m" for the pair and "?" for the replacement.
StreamKind == {"stdout", "stderr"}

VARIABLES
  printed, unread,  \* what the command printed, and the part no reader has taken
  reader,           \* each reader: "open", "failed" or "ended"
  queue,            \* the channel between the readers and the collector
  col,              \* the collector
  eof,              \* the streams whose end the owner has seen
  phase, drained    \* the run, and drain_complete of its result

vars == <<printed, unread, reader, queue, col, eof, phase, drained>>

NoTail == [text |-> <<>>, cut |-> FALSE]
NewCollector ==
  [combined |-> NoTail, stdout |-> NoTail, stderr |-> NoTail,
   partial |-> [s \in StreamKind |-> FALSE],        \* Utf8Decoder: the first byte of a character waits
   escape |-> [s \in StreamKind |-> "Normal"],      \* TerminalSanitizer
   line |-> <<>>, found |-> FALSE, raw |-> <<>>, rawCut |-> FALSE, errors |-> {}]

Init ==
  /\ printed \in Outputs
  /\ unread = printed /\ reader = [s \in StreamKind |-> "open"]
  /\ queue = <<>> /\ col = NewCollector /\ eof = {}
  /\ phase = "running" /\ drained = FALSE

-----------------------------------------------------------------------------
(* Decoding, escapes and tails, a byte or a character at a time. *)

Byte(b) == IF b = "m1" THEN <<>> ELSE IF b \in {"m2", "x"} THEN <<"?">> ELSE <<b>>
\* Utf8Decoder::push: d is whether a first byte waits, and the text so far.
DecodeByte(d, b) ==
  IF d.wait /\ b = "m2" THEN [wait |-> FALSE, text |-> Append(d.text, "m")]
  ELSE [wait |-> b = "m1", text |-> d.text \o (IF d.wait THEN <<"?">> ELSE <<>>) \o Byte(b)]
Decode(wait, bytes) == FoldLeft(DecodeByte, [wait |-> wait, text |-> <<>>], bytes)

\* TerminalSanitizer::push.
CleanChar(s, c) ==
  CASE s.state = "Normal"    -> IF c = "esc" THEN [s EXCEPT !.state = "Escape"]
                                ELSE IF c \in {"ctl", "bel"} THEN s ELSE [s EXCEPT !.text = Append(@, c)]
    [] s.state = "Escape"    -> [s EXCEPT !.state = CASE c = "[" -> "Csi" [] c = "]" -> "Osc" [] OTHER -> "Normal"]
    [] s.state = "Csi"       -> IF c \in {"a", "d", "[", "]", "bs"} THEN [s EXCEPT !.state = "Normal"] ELSE s
    [] s.state = "Osc"       -> [s EXCEPT !.state = CASE c = "bel" -> "Normal" [] c = "esc" -> "OscEscape" [] OTHER -> "Osc"]
    [] s.state = "OscEscape" -> [s EXCEPT !.state = CASE c = "bs" -> "Normal" [] c = "esc" -> "OscEscape" [] OTHER -> "Osc"]
Sanitize(state, text) == FoldLeft(CleanChar, [state |-> state, text |-> <<>>], text)

\* UTF-8 bytes of a text.
Size(text) == FoldLeft(LAMBDA n, c : n + (CASE c = "m" -> 2 [] c = "?" -> 3 [] OTHER -> 1), 0, text)
\* utf8_tail: the longest end of whole characters within the bound.
Utf8Tail(text) ==
  LET fits == {k \in 0 .. Len(text) : Size(SubSeq(text, k + 1, Len(text))) <= MaxBytes}
  IN  SubSeq(text, (CHOOSE k \in fits : \A j \in fits : k <= j) + 1, Len(text))
\* TailBuffer::push.
PushTail(tail, text) ==
  [text |-> Utf8Tail(tail.text \o text), cut |-> tail.cut \/ Size(tail.text \o text) > MaxBytes]

\* inspect_complete_lines: complete lines go to the callback until one matches.
Breaks(line) == {k \in 1 .. Len(line) : line[k] = "nl"}
LineStarts(line) == {1} \union {k + 1 : k \in Breaks(line)}
LastBreak(line) == IF Breaks(line) = {} THEN 0 ELSE CHOOSE k \in Breaks(line) : \A j \in Breaks(line) : j <= k
Matches(line) == \E k \in LineStarts(line) : k <= LastBreak(line) /\ line[k] = "d"
InspectLines(c, text) ==
  IF c.found THEN c
  ELSE LET line == Utf8Tail(c.line \o text)
       IN  IF Matches(line) THEN [c EXCEPT !.found = TRUE, !.line = line]
           ELSE [c EXCEPT !.line = SubSeq(line, LastBreak(line) + 1, Len(line))]
\* append_clean.
AppendClean(c, s, text) ==
  IF text = <<>> THEN c
  ELSE InspectLines([c EXCEPT !.combined = PushTail(@, text), ![s] = PushTail(@, text)], text)

\* OutputCollector::push, with the raw copy of stdout first.
Raw(c, s, bytes) ==
  LET room == MaxBytes - Len(c.raw)
  IN  IF s # "stdout" THEN c
      ELSE [c EXCEPT !.raw = @ \o SubSeq(bytes, 1, IF room < Len(bytes) THEN room ELSE Len(bytes)),
                     !.rawCut = @ \/ Len(bytes) > room]
\* Mutant: a chunk is decoded on its own.
Push_NoCarry(c, s, bytes) ==
  LET d == Decode(FALSE, bytes)
      t == Sanitize(c.escape[s], d.text \o (IF d.wait THEN <<"?">> ELSE <<>>))
  IN  AppendClean([Raw(c, s, bytes) EXCEPT !.escape[s] = t.state], s, t.text)
Push(c, s, bytes) ==
  LET d == Decode(c.partial[s], bytes)
      t == Sanitize(c.escape[s], d.text)
  IN  AppendClean([Raw(c, s, bytes) EXCEPT !.partial[s] = d.wait, !.escape[s] = t.state], s, t.text)

\* finish_stream: what waits is replaced, an open escape is dropped.
FinishStream(c, s) ==
  LET t == Sanitize(c.escape[s], IF c.partial[s] THEN <<"?">> ELSE <<>>)
  IN  AppendClean([c EXCEPT !.partial[s] = FALSE, !.escape[s] = "Normal"], s, t.text)
\* inspect_remaining_line.
InspectRemaining(c) ==
  [c EXCEPT !.found = @ \/ (c.line # <<>> /\ c.line[1] = "d")]

-----------------------------------------------------------------------------
\* A reader sends when the channel has room.
Send(s, kind, bytes) ==
  /\ phase = "running" /\ Len(queue) < Capacity
  /\ queue' = Append(queue, [of |-> s, kind |-> kind, bytes |-> bytes])
\* spawn_reader: one read is one chunk; the two readers share the channel.
ReadChunk(s) ==
  /\ reader[s] = "open" /\ unread[s] # <<>>
  /\ \E n \in ChunkSizes :
       /\ n <= Len(unread[s])
       /\ Send(s, "chunk", SubSeq(unread[s], 1, n))
       /\ unread' = [unread EXCEPT ![s] = SubSeq(@, n + 1, Len(@))]
  /\ UNCHANGED <<printed, reader, col, eof, phase, drained>>

\* A read that fails says so and ends the stream: the rest of it is never read.
ReadFails(s) ==
  /\ reader[s] = "open"
  /\ reader' = [reader EXCEPT ![s] = "failed"]
  /\ Send(s, "error", <<>>)
  /\ UNCHANGED <<printed, unread, col, eof, phase, drained>>

\* After the last read, the one that failed or the one that found nothing.
EndOfStream(s) ==
  /\ reader[s] = "failed" \/ (reader[s] = "open" /\ unread[s] = <<>>)
  /\ reader' = [reader EXCEPT ![s] = "ended"]
  /\ Send(s, "eof", <<>>)
  /\ UNCHANGED <<printed, unread, col, eof, phase, drained>>

\* handle_event: the owner takes one event.
HandleEvent ==
  /\ phase = "running" /\ queue # <<>>
  /\ LET e == Head(queue)
     IN  /\ col' = CASE e.kind = "chunk" -> Push(col, e.of, e.bytes)
                     [] e.kind = "error" -> [col EXCEPT !.errors = @ \union {e.of}]
                     [] e.kind = "eof"   -> FinishStream(col, e.of)
         /\ eof' = IF e.kind = "eof" THEN eof \union {e.of} ELSE eof
  /\ queue' = Tail(queue)
  /\ UNCHANGED <<printed, unread, reader, phase, drained>>

\* The drain ends when both streams have, or at the cleanup deadline, which may also pass before the
\* readers are joined; then finish: both streams once more, and the line that has no end.
Finish ==
  /\ phase = "running"
  /\ drained' \in {FALSE, eof = StreamKind}
  /\ col' = InspectRemaining(FinishStream(FinishStream(col, "stdout"), "stderr"))
  /\ phase' = "done"
  /\ UNCHANGED <<printed, unread, reader, queue, eof>>

Next == HandleEvent \/ Finish \/ \E s \in StreamKind : ReadChunk(s) \/ ReadFails(s) \/ EndOfStream(s)
Spec == Init /\ [][Next]_vars

-----------------------------------------------------------------------------
\* What bytes of a stream say, read at once.
Says(bytes) == Sanitize("Normal", LET d == Decode(FALSE, bytes)
                                  IN  d.text \o IF d.wait THEN <<"?">> ELSE <<>>).text
\* The bytes of a stream that reached the collector.
Waiting(s) == FoldLeft(LAMBDA n, e : IF e.of = s THEN n + Len(e.bytes) ELSE n, 0, queue)
Taken(s) == SubSeq(printed[s], 1, Len(printed[s]) - Len(unread[s]) - Waiting(s))
\* The result says that a stream was read to its end: no warning of a failed read, a complete drain.
ToldWhole(s) == drained /\ s \notin col.errors

\* TailsAreHonest: however the pipes cut and interleave the output, each stream's tail is the end of
\* what was read of that stream, in whole characters, and the raw copy of stdout its exact beginning
\* (OutputCollector).  What was read is all that was printed when the drain was complete and no read
\* failed, and then an output not reported as truncated is all of it; a failed read alone leaves
\* drain_complete true and output_truncated false on part of the output, and shows in the
\* warnings (spawn_reader, push_error).
TailsAreHonest ==
  phase = "done" =>
    /\ \A s \in StreamKind : col[s].text = Utf8Tail(Says(Taken(s)))
    /\ \A s \in StreamKind : ToldWhole(s) => col[s].text = Utf8Tail(Says(printed[s]))
    /\ IsPrefix(col.raw, printed.stdout)
    /\ (~(col.combined.cut \/ col.rawCut) /\ \A s \in StreamKind : ToldWhole(s)) =>
         /\ \A s \in StreamKind : col[s].text = Says(printed[s])
         /\ Len(col.combined.text) = Len(Says(printed.stdout)) + Len(Says(printed.stderr))
         /\ col.raw = printed.stdout
=============================================================================
