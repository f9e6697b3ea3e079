----------------------------- MODULE HttpWriter -----------------------------
(***************************************************************************)
(* src/http_writer.c over the growing buffer of src/buffer.c, and the      *)
(* callers that have one message after another written: the responses of   *)
(* src/http_server_main.c and the requests of src/http_client.c.           *)
(*                                                                         *)
(* The characters of a message are numbered from 1, those of the body      *)
(* after those of the prebody; 0 is a terminating null.  The stream takes  *)
(* part of what it is offered, makes the caller wait, or fails.            *)
(***************************************************************************)
EXTENDS Integers, Sequences, FiniteSetsExt

CONSTANTS
    StartCapacity,  \* of the buffer; 1000 in the code
    MaxText,        \* bound on the length of a prebody
    MaxBody,        \* bound on the length of a body
    MaxWritten      \* bound on the messages

ASSUME WriterAssumption ==
    /\ StartCapacity \in Nat \ {0} /\ MaxText \in Nat \ {0} /\ MaxBody \in Nat
    /\ MaxWritten \in Nat

VARIABLES
    wstate,     \* w->state
    buffer,     \* w->prebody: its characters, how often it has grown, its frozen flag
    prebodyOut, \* w->prebody_out: how much of it the stream has taken
    calling,    \* the caller is in http_writer_write or _end
    user,       \* the caller: "idle", "headers", "body", "end", "failed"
    bodyLeft,   \* what it has to write of the body
    onWire,     \* the message, as the stream got it
    begun       \* the number of messages begun

writerVars == <<wstate, buffer, prebodyOut, calling, user, bodyLeft, onWire, begun>>

WriterInit ==
    /\ wstate = "INIT"
    /\ buffer = [chars |-> << >>, doublings |-> 0, frozen |-> FALSE]
    /\ prebodyOut = 0 /\ calling = FALSE
    /\ user = "idle" /\ bodyLeft = 0 /\ onWire = << >> /\ begun = 0

-----------------------------------------------------------------------------
Capacity[doublings \in Nat] ==
    IF doublings = 0 THEN StartCapacity ELSE 2 * Capacity[doublings - 1]

(* The buffer doubles until there is space for need more. *)
Reserve(b, need) ==
    LET Enough(k) == need <= Capacity[k] - Len(b.chars)
    IN  [b EXCEPT !.doublings = Min({k \in @ .. @ + need : Enough(k)})]

Text(b, len) == [n \in 1..len |-> Len(b.chars) + n]

(* growbuf_append *)
AppendTo(b, len) == [Reserve(b, len) EXCEPT !.chars = @ \o Text(b, len)]

(* growbuf_vprintf: vsnprintf puts a null in the last place there is. *)
PrintTo(b, len) ==
    LET r == Reserve(b, len)
        Printed(n) == IF n = Capacity[r.doublings] THEN 0 ELSE n
    IN  [r EXCEPT !.chars = @ \o [n \in 1..len |-> Printed(Len(@) + n)]]

Line == 1..MaxText
Fits(b) == Len(b.chars) <= MaxText

(* http_writer_request and http_writer_response, after growbuf_reset *)
BeginMessage ==
    /\ user = "idle" /\ wstate = "INIT" /\ begun < MaxWritten
    /\ begun' = begun + 1
    /\ LET empty == [buffer EXCEPT !.chars = << >>, !.frozen = FALSE] IN
       \E len \in Line : buffer' \in {AppendTo(empty, len), PrintTo(empty, len)}
    /\ Fits(buffer')
    /\ bodyLeft' \in 0..MaxBody
    /\ wstate' = "HEADERS" /\ user' = "headers"
    /\ onWire' = << >>
    /\ UNCHANGED <<prebodyOut, calling>>

(* http_writer_header, and http_writer_headerf, which prints the value     *)
Header ==
    /\ user = "headers" /\ wstate = "HEADERS" /\ ~buffer.frozen
    /\ \E name, value \in Line :
          buffer' \in {AppendTo(buffer, name + value),
                        AppendTo(PrintTo(AppendTo(buffer, name), value), 1)}
    /\ Fits(buffer')
    /\ UNCHANGED <<wstate, prebodyOut, calling, user, bodyLeft, onWire, begun>>

(* write_body comes before finish_write; a request is finished at once.    *)
HeadersOver ==
    /\ user = "headers"
    /\ user' = IF bodyLeft > 0 THEN "body" ELSE "end"
    /\ UNCHANGED <<wstate, buffer, prebodyOut, calling, bodyLeft, onWire, begun>>

-----------------------------------------------------------------------------
(* http_writer_write and http_writer_end, both by way of finish_prebody *)

(* Seeded defect: each call starts with the whole prebody. *)
CallFromStart ==
    /\ user \in {"body", "end"} /\ ~calling
    /\ calling' = TRUE
    /\ IF wstate \in {"HEADERS", "PREBODY"}
       THEN /\ buffer' = IF wstate = "HEADERS"
                          THEN [AppendTo(buffer, 1) EXCEPT !.frozen = TRUE]
                          ELSE buffer
            /\ prebodyOut' = 0
            /\ wstate' = "PREBODY"
       ELSE UNCHANGED <<wstate, buffer, prebodyOut>>
    /\ UNCHANGED <<user, bodyLeft, onWire, begun>>

Call ==
    /\ user \in {"body", "end"} /\ ~calling
    /\ calling' = TRUE
    /\ IF wstate = "HEADERS"
       THEN /\ buffer' = [AppendTo(buffer, 1) EXCEPT !.frozen = TRUE]
            /\ prebodyOut' = 0
            /\ wstate' = "PREBODY"
       ELSE UNCHANGED <<wstate, buffer, prebodyOut>>
    /\ UNCHANGED <<user, bodyLeft, onWire, begun>>

WritePrebody ==
    /\ calling /\ wstate = "PREBODY" /\ prebodyOut < Len(buffer.chars)
    /\ \E n \in prebodyOut + 1 .. Len(buffer.chars) :
          /\ onWire' = onWire \o SubSeq(buffer.chars, prebodyOut + 1, n)
          /\ prebodyOut' = n
    /\ UNCHANGED <<wstate, buffer, calling, user, bodyLeft, begun>>

PrebodyWritten ==
    /\ calling /\ wstate = "PREBODY" /\ prebodyOut = Len(buffer.chars)
    /\ wstate' = "BODY"
    /\ UNCHANGED <<buffer, prebodyOut, calling, user, bodyLeft, onWire, begun>>

(* The caller comes again until it has written all.                        *)
WriteBody ==
    /\ calling /\ wstate = "BODY" /\ user = "body"
    /\ \E n \in 1..bodyLeft :
          /\ onWire' = onWire \o [k \in 1..n |-> Len(onWire) + k]
          /\ bodyLeft' = bodyLeft - n
          /\ user' = IF n = bodyLeft THEN "end" ELSE "body"
    /\ calling' = FALSE
    /\ UNCHANGED <<wstate, buffer, prebodyOut, begun>>

WriterEnd ==
    /\ calling /\ wstate = "BODY" /\ user = "end"
    /\ wstate' = "INIT"
    /\ user' = "idle" /\ calling' = FALSE
    /\ UNCHANGED <<buffer, prebodyOut, bodyLeft, onWire, begun>>

(* Either the caller waits and calls again, or it gives up.                *)
StreamWaitsOrFails ==
    /\ calling /\ wstate \in {"PREBODY", "BODY"}
    /\ wstate = "PREBODY" => prebodyOut < Len(buffer.chars)
    /\ wstate = "BODY" => user = "body"
    /\ calling' = FALSE
    /\ user' \in {user, "failed"}
    /\ UNCHANGED <<wstate, buffer, prebodyOut, bodyLeft, onWire, begun>>

WriterNext ==
    \/ BeginMessage \/ Header \/ HeadersOver
    \/ Call \/ WritePrebody \/ PrebodyWritten \/ WriteBody \/ WriterEnd \/ StreamWaitsOrFails

-----------------------------------------------------------------------------
(* What the stream gets is the message from its first character on, each   *)
(* once, however often the caller had to wait, and all of it when the      *)
(* writer says that it is done; and the buffer neither overflows nor moves *)
(* while prebody_out points into it.  The exception is a character printed *)
(* into the last place of the buffer: the loop of growbuf_vprintf takes    *)
(* res = space for success, where vsnprintf has put a null instead.        *)
MessageIntact ==
    /\ \A n \in DOMAIN onWire :
          \/ onWire[n] = n
          \/ onWire[n] = 0 /\ n <= Len(buffer.chars)
             /\ \E k \in 0..buffer.doublings : n = Capacity[k]
    /\ user = "idle" /\ begun > 0 => Len(onWire) >= Len(buffer.chars) /\ bodyLeft = 0
    /\ Len(buffer.chars) <= Capacity[buffer.doublings]
    /\ wstate = "HEADERS" <=> ~buffer.frozen /\ begun > 0
=============================================================================
