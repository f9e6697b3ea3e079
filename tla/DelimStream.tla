---------------------------- MODULE DelimStream -----------------------------
(***************************************************************************)
(* Delimited streams, src/delim_stream.c: a writer sends one stream after  *)
(* the other over an underlying stream, in chunks with an intro of two     *)
(* bytes each, and a reader takes them apart.  The underlying stream takes *)
(* or gives part of what it is asked for, or makes its caller wait; errors *)
(* of a write take the same way back as a wait.  A call may use it twice,  *)
(* so that reader and writer interleave within their calls.                *)
(***************************************************************************)
EXTENDS Integers, Sequences, FiniteSets, SequencesExt

CONSTANTS
    MaxChunk,       \* MAX_CHUNK_SIZE
    MaxLen,         \* bound on what is written or read in one call
    MaxBytes,       \* bound on the bytes of a stream
    MaxStreams,     \* bound on the streams
    PipeSize        \* bytes the underlying stream holds

ASSUME DelimAssumption ==
    /\ MaxChunk \in Nat \ {0} /\ MaxLen \in Nat \ {0} /\ MaxBytes \in Nat
    /\ MaxStreams \in Nat \ {0} /\ PipeSize \in Nat \ {0}

VARIABLES
    pipe,       \* the underlying stream: bytes of intros and of payload
    hungUp,     \* its writing end is gone
    writer,     \* struct delim_write_stream, and the call in progress
    reader,     \* struct delim_read_stream, and the call in progress
    sent,       \* of each stream begun: the bytes its writer was told are written
    got         \* of each stream begun: the bytes its reader was given

delimVars == <<pipe, hungUp, writer, reader, sent, got>>

(* state counts the bytes of the intro; "final" is the closing intro.      *)
NewWriter == [state |-> 0, final |-> FALSE, left |-> 0, at |-> "idle", len |-> 0]
NewReader == [state |-> 0, ended |-> FALSE, left |-> 0, last |-> FALSE, at |-> "idle", len |-> 0]
Payload == 2

DelimInit ==
    /\ pipe = << >> /\ hungUp = FALSE
    /\ writer = NewWriter /\ reader = NewReader
    /\ sent = <<0>> /\ got = << << >> >>

Intro(n, end) == [part \in 1..2 |-> [intro |-> TRUE, part |-> part, n |-> n, end |-> end]]
Bytes(s, from, n) == [k \in 1..n |-> [intro |-> FALSE, stream |-> s, v |-> from + k]]

Least(m, n) == IF m < n THEN m ELSE n
Waiting == -1

(* stream_write and stream_read of the underlying stream *)
MayWrite(bytes) ==
    LET n == Least(Len(bytes), PipeSize - Len(pipe))
    IN  IF bytes = << >> THEN {0} ELSE IF n = 0 THEN {Waiting} ELSE 1..n
MayRead(len) ==
    LET n == Least(len, Len(pipe))
    IN  IF len = 0 THEN {0} ELSE IF n = 0 THEN {Waiting} ELSE 1..n

Put(bytes, r) == pipe' = IF r > 0 THEN pipe \o SubSeq(bytes, 1, r) ELSE pipe

-----------------------------------------------------------------------------
(* The writer *)

WriteCall ==
    /\ writer.at = "idle" /\ ~writer.final
    /\ \E len \in 0..Least(MaxLen, MaxBytes - sent[Len(sent)]) :
          writer' = [writer EXCEPT !.at = "write", !.len = len]
    /\ UNCHANGED <<pipe, sent>>

(* The intro, or what is left of it; then the payload in the same call.    *)
WriteIntro ==
    /\ writer.at = "write" /\ writer.state < Payload
    /\ LET chunk == IF writer.state = 0 THEN Least(writer.len, MaxChunk) ELSE writer.left
           rest == SubSeq(Intro(chunk, FALSE), writer.state + 1, 2)
       IN  \E r \in MayWrite(rest) :
              /\ Put(rest, r)
              /\ LET state == IF r > 0 THEN writer.state + r ELSE writer.state
                 IN  writer' = [writer EXCEPT !.left = chunk, !.state = state,
                                              !.at = IF state = Payload THEN "write" ELSE "idle"]
    /\ UNCHANGED sent

WritePayload ==
    /\ writer.at = "write" /\ writer.state = Payload
    /\ LET s == Len(sent)
           bytes == Bytes(s, sent[s], Least(writer.len, writer.left))
       IN  \E r \in MayWrite(bytes) :
              /\ Put(bytes, r)
              /\ LET n == IF r > 0 THEN r ELSE 0 IN
                 /\ sent' = [sent EXCEPT ![s] = @ + n]
                 /\ writer' = [writer EXCEPT !.left = @ - n, !.at = "idle",
                                   !.state = IF r >= 0 /\ writer.left = n THEN 0 ELSE @]

(* delim_write_stream_close aborts in the middle of a chunk.               *)
CloseCall ==
    /\ writer.at = "idle"
    /\ writer' = IF writer.final \/ writer.state = 0
                 THEN [writer EXCEPT !.at = "close", !.final = TRUE]
                 ELSE [writer EXCEPT !.at = "aborted"]
    /\ UNCHANGED <<pipe, sent>>

CloseStep ==
    /\ writer.at = "close"
    /\ LET rest == SubSeq(Intro(0, TRUE), writer.state + 1, 2) IN
       \E r \in MayWrite(rest) :
          /\ Put(rest, r)
          /\ writer' =
                IF r = Waiting THEN [writer EXCEPT !.at = "idle"]
                ELSE [writer EXCEPT !.state = @ + r,
                                    !.at = IF writer.state + r = 2 THEN "closed" ELSE @]
    /\ UNCHANGED sent

(* delim_write_stream_destroy and delim_write_next *)
NextWriter ==
    /\ writer.at = "closed" /\ Len(sent) < MaxStreams
    /\ writer' = NewWriter
    /\ sent' = Append(sent, 0)
    /\ UNCHANGED pipe

Writer ==
    /\ ~hungUp
    /\ \/ WriteCall \/ WriteIntro \/ WritePayload \/ CloseCall \/ CloseStep \/ NextWriter
    /\ UNCHANGED <<hungUp, reader, got>>

HangUp == ~hungUp /\ hungUp' = TRUE /\ UNCHANGED <<pipe, writer, reader, sent, got>>

-----------------------------------------------------------------------------
(* The reader *)

ReadCall ==
    /\ reader.at = "idle"
    /\ \E len \in 1..MaxLen : reader' = [reader EXCEPT !.at = "read", !.len = len]
    /\ UNCHANGED <<pipe, got>>

Take(r) == pipe' = IF r > 0 THEN SubSeq(pipe, r + 1, Len(pipe)) ELSE pipe

(* The reader waits, or the end of the underlying stream is its end too.   *)
NoBytes == IF hungUp THEN [reader EXCEPT !.at = "told"] ELSE [reader EXCEPT !.at = "idle"]

ReadIntro ==
    /\ reader.at = "read" /\ reader.state < Payload
    /\ \E r \in MayRead(2 - reader.state) :
          /\ Take(r)
          /\ reader' =
                IF r = Waiting THEN NoBytes
                ELSE IF reader.state + r < 2 THEN [reader EXCEPT !.state = @ + r, !.at = "idle"]
                ELSE LET h == pipe[r] IN
                     IF h.end /\ h.n = 0
                     THEN [reader EXCEPT !.state = 2, !.ended = TRUE, !.at = "told"]
                     ELSE [reader EXCEPT !.state = 2, !.left = h.n, !.last = h.end]
    /\ UNCHANGED got

(* Seeded defect: a read is not cut off at the end of the chunk. *)
ReadPayloadPastChunk ==
    /\ reader.at = "read" /\ reader.state = Payload
    /\ \E r \in MayRead(reader.len) :
          /\ Take(r)
          /\ IF r <= 0
             THEN reader' = IF r = 0 THEN [reader EXCEPT !.at = "idle"] ELSE NoBytes
             ELSE reader' = [reader EXCEPT !.left = @ - r, !.at = "idle",
                                !.state = IF reader.left <= r /\ ~reader.last THEN 0 ELSE @,
                                !.ended = reader.left <= r /\ reader.last]
          /\ got' = IF r > 0 THEN [got EXCEPT ![Len(got)] = @ \o SubSeq(pipe, 1, r)] ELSE got

ReadPayload ==
    /\ reader.at = "read" /\ reader.state = Payload
    /\ \E r \in MayRead(Least(reader.len, reader.left)) :
          /\ Take(r)
          /\ IF r <= 0
             THEN reader' = IF r = 0 THEN [reader EXCEPT !.at = "idle"] ELSE NoBytes
             ELSE reader' = [reader EXCEPT !.left = @ - r, !.at = "idle",
                                !.state = IF reader.left = r /\ ~reader.last THEN 0 ELSE @,
                                !.ended = reader.left = r /\ reader.last]
          /\ got' = IF r > 0 THEN [got EXCEPT ![Len(got)] = @ \o SubSeq(pipe, 1, r)] ELSE got

(* Told of the end, the caller closes and destroys the stream, which       *)
(* asserts that it is at its end, and goes on to the next.                 *)
NextReader ==
    /\ reader.at = "told"
    /\ IF ~reader.ended THEN reader' = [reader EXCEPT !.at = "aborted"] /\ UNCHANGED got
       ELSE /\ Len(got) < MaxStreams
            /\ reader' = NewReader
            /\ got' = Append(got, << >>)
    /\ UNCHANGED pipe

Reader ==
    /\ ReadCall \/ ReadIntro \/ ReadPayload \/ NextReader
    /\ UNCHANGED <<hungUp, writer, sent>>

DelimNext == Writer \/ HangUp \/ Reader

-----------------------------------------------------------------------------
(* What a reader was given of a stream is the beginning of what was        *)
(* written to it, byte for byte; and one that is at its end has all of a   *)
(* stream that was closed.                                                 *)
StreamsDelimited ==
    /\ Len(got) <= Len(sent) + 1
    /\ \A s \in DOMAIN got :
          LET written == IF s \in DOMAIN sent THEN sent[s] ELSE 0 IN
          /\ IsPrefix(got[s], Bytes(s, 0, written))
          /\ s < Len(got) \/ reader.ended
                => Len(got[s]) = written /\ (s < Len(sent) \/ writer.at = "closed")
=============================================================================
