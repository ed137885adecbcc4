---------------------------- MODULE LspFraming ----------------------------
(***************************************************************************)
(* The frame decoder of the analyzer's output (lsp/client.rs, the          *)
(* FrameDecoder) and the classification of a decoded message.  The stream  *)
(* is cut into reads at any place.  A byte is the frame it belongs to and  *)
(* its part: "s" the Content-Length field, "h" the rest of the header,     *)
(* "e1" to "e4" the line ends that close it, "b" the body.                 *)
(***************************************************************************)
EXTENDS Naturals, Sequences, SequencesExt

CONSTANTS
  Streams,           \* sequences of frames the analyzer may print
  ReadSizes,         \* sizes of a read of the pipe
  MaxBody, MaxHeader, MaxFrames   \* the bounds of the decoder

\* FrameDecoder::new: the buffer has room for the largest header and the largest body, and none for
\* the four bytes between them.
MaxBuffer == MaxBody + MaxHeader

\* A frame: bytes of its header, what the header says, length and kind of its body.
Bytes(f, i) == <<<<i, "s">>>> \o [k \in 1 .. f.header - 1 |-> <<i, "h">>]
                 \o <<<<i, "e1">>, <<i, "e2">>, <<i, "e3">>, <<i, "e4">>>> \o [k \in 1 .. f.len |-> <<i, "b">>]

VARIABLES
  frames,   \* the frames printed
  unread,   \* the bytes still in the pipe
  decoder,  \* its buffer and the rest of an oversized body to discard
  seen      \* what the reader got: frames and errors, in order

vars == <<frames, unread, decoder, seen>>

Frame(i) == [of |-> i, error |-> "none"]
Error(e) == [of |-> 0, error |-> e]

Init ==
  /\ frames \in Streams
  /\ unread = FlattenSeq([i \in 1 .. Len(frames) |-> Bytes(frames[i], i)])
  /\ decoder = [buffer |-> <<>>, discard |-> 0]
  /\ seen = <<>>

-----------------------------------------------------------------------------
(* FrameDecoder. *)

Find(s, part) == {k \in 1 .. Len(s) : s[k][2] = part}
First(S) == CHOOSE k \in S : \A j \in S : k <= j
Drop(s, n) == SubSeq(s, n + 1, Len(s))
\* find_header_end: where the four bytes stand in a row; a buffer that begins or ends among them has none.
HeaderEnds(s) == {k \in Find(s, "e1") : k + 3 <= Len(s)}

\* parse_content_length: only a header that starts with its own field names a length; text before
\* the field makes another name of it.
ParseContentLength(header) ==
  IF header = <<>> \/ header[1][2] # "s" THEN [ok |-> FALSE, error |-> "MissingContentLength", len |-> 0]
  ELSE LET f == frames[header[1][1]]
       IN  [ok |-> f.says = "length", error |-> f.says, len |-> f.len]

\* resync_header: the buffer is cut at the next field in it, if there is one.
ResyncHeader(s) == IF Find(s, "s") = {} THEN s ELSE Drop(s, First(Find(s, "s")) - 1)

\* The body of a complete frame: UTF-8, then JSON.
Body(i) == IF frames[i].body = "json" THEN Frame(i) ELSE Error(frames[i].body)

\* decode_available, on the decoder d extended with the results of this push.
RECURSIVE DecodeAvailable(_)
Refuse(d, s, e) == [d EXCEPT !.buffer = s, !.out = Append(@, Error(e))]
\* Mutant: the rest of an oversized body is not remembered.
TooLarge_KeepsRest(d, start, len) == Refuse(d, <<>>, "BodyTooLarge")
TooLarge(d, start, len) ==
  LET body == Len(d.buffer) - start
  IN  IF body >= len THEN Refuse(d, Drop(d.buffer, start + len), "BodyTooLarge")
      ELSE [Refuse(d, <<>>, "BodyTooLarge") EXCEPT !.discard = len - body]
DecodeAvailable(d) ==
  LET ends  == HeaderEnds(d.buffer)
      head  == SubSeq(d.buffer, 1, First(ends) - 1)
      start == Len(head) + 4                    \* the body starts after it
      parse == ParseContentLength(head)
      gone  == IF d.discard < Len(d.buffer) THEN d.discard ELSE Len(d.buffer)
  IN  IF Len(d.out) >= MaxFrames THEN d
      ELSE IF d.discard > 0
        THEN LET e == [d EXCEPT !.buffer = Drop(@, gone), !.discard = @ - gone]
             IN  IF e.discard > 0 THEN e ELSE DecodeAvailable(e)
      ELSE IF ends = {}
        THEN IF Len(d.buffer) > MaxHeader THEN Refuse(d, <<>>, "HeaderTooLarge") ELSE d
      ELSE IF Len(head) > MaxHeader
        THEN DecodeAvailable(Refuse(d, ResyncHeader(Drop(d.buffer, start)), "HeaderTooLarge"))
      ELSE IF ~parse.ok
        THEN DecodeAvailable(Refuse(d, ResyncHeader(Drop(d.buffer, start)), parse.error))
      ELSE IF parse.len > MaxBody THEN DecodeAvailable(TooLarge(d, start, parse.len))
      ELSE IF Len(d.buffer) < start + parse.len THEN d
      ELSE DecodeAvailable([d EXCEPT !.buffer = Drop(@, start + parse.len),
                                     !.out = Append(@, Body(head[1][1]))])

\* push: the buffer is filled up to its bound and decoded, until the read is used up.  After
\* MaxFrames results the rest of the read waits in the buffer for the next read.
RECURSIVE Push(_, _)
Push(d, chunk) ==
  LET e    == DecodeAvailable(d)
      room == MaxBuffer - Len(e.buffer)
      take == IF room < Len(chunk) THEN room ELSE Len(chunk)
  IN  IF chunk = <<>> THEN e
      ELSE IF Len(e.out) >= MaxFrames
        THEN IF Len(chunk) > room THEN Refuse(e, <<>>, "BufferTooLarge")
                                  ELSE [e EXCEPT !.buffer = @ \o chunk]
      ELSE IF room = 0 THEN Refuse(e, <<>>, "BufferTooLarge")
      ELSE Push([e EXCEPT !.buffer = @ \o SubSeq(chunk, 1, take)], Drop(chunk, take))

\* read_stdout: one read of the pipe.
ReadStdout ==
  \E n \in ReadSizes :
    /\ n <= Len(unread) /\ n > 0
    /\ LET d == Push([buffer |-> decoder.buffer, discard |-> decoder.discard, out |-> <<>>],
                     SubSeq(unread, 1, n))
       IN  /\ decoder' = [buffer |-> d.buffer, discard |-> d.discard]
           /\ seen' = seen \o d.out
    /\ unread' = Drop(unread, n)
    /\ UNCHANGED frames

Next == ReadStdout
Spec == Init /\ [][Next]_vars

-----------------------------------------------------------------------------
\* What a stream of frames stands for, read at once.
Expected(f, i) ==
  IF f.says # "length" THEN Error(f.says)
  ELSE IF f.header > MaxHeader THEN Error("HeaderTooLarge")
  ELSE IF f.len > MaxBody THEN Error("BodyTooLarge")
  ELSE IF f.body # "json" THEN Error(f.body) ELSE Frame(i)
Reference == [i \in 1 .. Len(frames) |-> Expected(frames[i], i)]
\* The decoder may lose its place at a header it cannot read, since the body that follows has no length
\* and the next field is only looked for in what is already buffered, and at one within four bytes of
\* the limit: a read that ends among the line ends makes it too large, and a buffer that holds it
\* has no room for the largest body.
Legible == \A i \in 1 .. Len(frames) : frames[i].says = "length" /\ frames[i].header + 4 <= MaxHeader
\* What was got before more frames of one read had to wait than the buffer holds.
Overflows == {k \in 1 .. Len(seen) : seen[k] = Error("BufferTooLarge")}
InPlace == IF Overflows = {} THEN seen ELSE SubSeq(seen, 1, First(Overflows) - 1)

\* FramesAreWhole: wherever the pipe cuts the stream, the messages the client handles are the
\* ones the analyzer printed, each once, whole and in order: an oversized or unreadable body costs
\* its own frame and no other (FrameDecoder, read_stdout), until the buffer overflows.  It never
\* overflows, and nothing is left in it once the pipe is empty, unless more frames came than one
\* read may yield.  Of a stream with a header that is no header, or within four bytes of its limit,
\* nothing is said.
FramesAreWhole ==
  Legible => /\ IsPrefix(InPlace, Reference)
             /\ Len(frames) <= MaxFrames => /\ Overflows = {}
                                            /\ unread = <<>> => Len(seen) = Len(frames)
=============================================================================
