----------------------------- MODULE HttpReader -----------------------------
(***************************************************************************)
(* The HTTP reader, src/http_reader.c, over a stream that gives some of    *)
(* the bytes that have arrived, and a caller like do_exchange of           *)
(* src/http_server_main.c, which reads a body to its end and then comes    *)
(* back for the next request.  The wire is a sequence of requests:         *)
(* bytes of the head ("H"), the line feed that ends it ("E"), bytes of the *)
(* body ("B"), bytes that only frame it ("F"); last marks the one that     *)
(* completes a request.  http-parser is not in the repository: Execute     *)
(* is http_parser_execute up to the callback that pauses it, and that it   *)
(* calls on_headers_complete before on_message_complete, and once, is an   *)
(* assumption on the wire.                                                 *)
(***************************************************************************)
EXTENDS Integers, Sequences, FiniteSets, SequencesExt, FiniteSetsExt

CONSTANTS
    Wire,           \* what the peer sends
    MaxRead         \* bound on the bytes of one stream_read

Kind(n) == Wire[n].k

ASSUME WireAssumption ==
    /\ Wire \in Seq([k : {"H", "E", "B", "F"}, last : BOOLEAN])
    /\ \A n \in DOMAIN Wire : Wire[n].last =>
          \E m \in 1..n : Kind(m) = "E" /\ \A l \in m..n - 1 : ~Wire[l].last
    /\ \A m, n \in DOMAIN Wire : Kind(m) = "E" /\ Kind(n) = "E" /\ m < n =>
          \E l \in m..n - 1 : Wire[l].last
    /\ MaxRead \in Nat \ {0}

VARIABLES
    arrived,        \* bytes of the wire that have arrived
    shut,           \* the peer has closed its end
    fetched,        \* bytes that were read from the stream
    state,          \* r->state
    prebody,        \* what is in r->prebody from r->parsed on, as positions of the wire
    announced,      \* on_headers_complete was called for the request
    caller,         \* what the caller is in: a call, or between two
    want,           \* the space for the body in the caller's buffer: len
    copied,         \* the body bytes in it: up to r->body_end
    given,          \* the body bytes of the request the caller was told of
    viaPrebody      \* the positions that went through r->prebody

readerVars == <<arrived, shut, fetched, state, prebody, announced, caller, want, copied,
                given, viaPrebody>>

ReaderInit ==
    /\ arrived = 0 /\ shut = FALSE /\ fetched = 0
    /\ state = "prebody" /\ prebody = << >> /\ announced = FALSE
    /\ caller = "head" /\ want = 0 /\ copied = << >> /\ given = << >> /\ viaPrebody = {}

-----------------------------------------------------------------------------
(* The peer *)

Arrive ==
    /\ ~shut
    /\ \/ arrived < Len(Wire) /\ arrived' = arrived + 1 /\ UNCHANGED shut
       \/ shut' = TRUE /\ UNCHANGED arrived
    /\ UNCHANGED <<fetched, state, prebody, announced, caller, want, copied, given, viaPrebody>>

(* The results of stream_read with room for len bytes *)
Available(len) == 1..Min({len, MaxRead, arrived - fetched})
Blocks == arrived = fetched /\ ~shut
AtEnd == arrived = fetched /\ shut
Fetch(r) == [n \in 1..r |-> fetched + n]

(* The places in ascending order *)
Ascending(S) ==
    CHOOSE s \in [1..Cardinality(S) -> S] : \A i, j \in DOMAIN s : i < j => s[i] < s[j]

(* What is of the body among bytes *)
BodyOf(bytes) ==
    LET places == Ascending({n \in DOMAIN bytes : Kind(bytes[n]) = "B"})
    IN  [n \in DOMAIN places |-> bytes[places[n]]]

(* http_parser_execute on bytes: how many it consumes, the body among      *)
(* them, and the callback that paused it.  The line feed that ends a head  *)
(* is looked at twice, and consumed when the parser goes on.               *)
Execute(bytes, ann) ==
    LET pauses == {n \in DOMAIN bytes :
                      \/ Wire[bytes[n]].last
                      \/ Kind(bytes[n]) = "E" /\ ~(ann /\ n = 1)}
        n == IF pauses = {} THEN Len(bytes) ELSE Min(pauses)
        headers == pauses # {} /\ Kind(bytes[n]) = "E" /\ ~(ann /\ n = 1)
        consumed == IF headers THEN n - 1 ELSE n
    IN  [consumed |-> consumed,
         body |-> BodyOf(SubSeq(bytes, 1, consumed)),
         paused |-> IF pauses = {} THEN "no" ELSE IF headers THEN "headers" ELSE "complete"]

From(bytes, n) == SubSeq(bytes, n + 1, Len(bytes))

-----------------------------------------------------------------------------
(* http_reader_prebody *)

PrebodyCall ==
    /\ caller = "head"
    /\ caller' = "prebody"
    /\ state' = "prebody"
    /\ UNCHANGED <<fetched, prebody, announced, copied, given, viaPrebody>>

(* It parses only when the stream has given it something, and then all     *)
(* that is in the buffer.                                                  *)
PrebodyWaits ==
    /\ caller = "prebody" /\ Blocks
    /\ caller' = "head"
    /\ UNCHANGED <<fetched, state, prebody, announced, copied, given, viaPrebody>>

ParsePrebody(bytes) ==
    LET x == Execute(bytes, FALSE) IN
    /\ prebody' = From(bytes, x.consumed)
    /\ IF x.paused = "headers"
       THEN /\ state' = "body" /\ announced' = TRUE /\ given' = << >>
            /\ caller' = "body"
       ELSE UNCHANGED <<state, announced, given, caller>>

PrebodyReads ==
    /\ caller = "prebody"
    /\ \E r \in Available(MaxRead) :
          /\ fetched' = fetched + r
          /\ viaPrebody' = viaPrebody \cup Range(Fetch(r))
          /\ ParsePrebody(prebody \o Fetch(r))
    /\ UNCHANGED copied

(* The end of the stream is given to the parser when it has nothing else:  *)
(* the connection is closed, or the request is cut off.                    *)
PrebodyEnds ==
    /\ caller = "prebody" /\ AtEnd
    /\ IF prebody # << >> THEN ParsePrebody(prebody)
       ELSE caller' = "gone" /\ UNCHANGED <<state, prebody, announced, given>>
    /\ UNCHANGED <<fetched, copied, viaPrebody>>

-----------------------------------------------------------------------------
(* http_reader_body *)

BodyCall ==
    /\ caller = "body"
    /\ IF state = "eom"
       THEN caller' = "head" /\ UNCHANGED <<want, copied>>     \* STREAM_END
       ELSE /\ want' \in 1..MaxRead
            /\ copied' = << >>
            /\ caller' = "reading"
    /\ UNCHANGED <<fetched, state, prebody, announced, given, viaPrebody>>

Return(bytes) ==
    /\ caller' = "body"
    /\ copied' = << >>
    /\ given' = given \o bytes

(* One pass of the first loop, over what is in the prebody buffer.         *)
BodyFromPrebody ==
    /\ caller = "reading" /\ prebody # << >>
    /\ LET x == Execute(SubSeq(prebody, 1, Min({want - Len(copied), Len(prebody)})), announced)
           bytes == copied \o x.body
       IN  /\ prebody' = From(prebody, x.consumed)
           /\ announced' = FALSE
           /\ IF x.paused = "complete"
              THEN state' = "eom" /\ Return(bytes)
              ELSE /\ state' = state
                   /\ IF Len(bytes) = want THEN Return(bytes)
                      ELSE copied' = bytes /\ UNCHANGED <<caller, given>>
    /\ UNCHANGED <<fetched, viaPrebody>>

(* The stream has nothing: its answer is returned, whatever was copied.    *)
BodyWaits ==
    /\ caller = "reading" /\ prebody = << >> /\ Blocks
    /\ Return(<< >>)
    /\ UNCHANGED <<fetched, state, prebody, announced, viaPrebody>>

(* Seeded defect: what follows the request is dropped. *)
BodyFromStreamOnly ==
    /\ caller = "reading" /\ prebody = << >>
    /\ \E r \in Available(want - Len(copied)) :
          LET x == Execute(Fetch(r), announced)
          IN  /\ fetched' = fetched + r
              /\ state' = IF x.paused = "complete" THEN "eom" ELSE state
              /\ Return(copied \o x.body)
    /\ UNCHANGED <<prebody, viaPrebody, announced>>

(* All that the stream gives is parsed, up to the end of the request; what *)
(* follows it goes to the prebody buffer.                                  *)
BodyFromStream ==
    /\ caller = "reading" /\ prebody = << >>
    /\ \E r \in Available(want - Len(copied)) :
          LET x == Execute(Fetch(r), announced)
              rest == From(Fetch(r), x.consumed)
          IN  /\ fetched' = fetched + r
              /\ prebody' = rest
              /\ viaPrebody' = viaPrebody \cup Range(rest)
              /\ state' = IF x.paused = "complete" THEN "eom" ELSE state
              /\ Return(copied \o x.body)
    /\ UNCHANGED announced

(* A request cut off in its body is an error, and the exchange is over.    *)
BodyEnds ==
    /\ caller = "reading" /\ prebody = << >> /\ AtEnd
    /\ caller' = "gone"
    /\ UNCHANGED <<fetched, state, prebody, announced, copied, given, viaPrebody>>

Caller ==
    /\ \/ PrebodyCall \/ PrebodyWaits \/ PrebodyReads \/ PrebodyEnds
       \/ BodyFromPrebody \/ BodyWaits \/ BodyFromStream \/ BodyEnds
    /\ UNCHANGED want

ReaderNext ==
    \/ Arrive
    \/ (Caller \/ BodyCall) /\ UNCHANGED <<arrived, shut>>

-----------------------------------------------------------------------------
(* The positions of the body of the request that ends at n *)
BodyUpTo(n) ==
    LET head == Max({0} \cup {m \in 1..n : Kind(m) = "E"})
    IN  {m \in head + 1..n : Kind(m) = "B"}

(* The caller is given the body bytes of a request in the order in which   *)
(* they were sent, each once and none of another request; and when it is   *)
(* complete, it was given all of them, but for bytes that were in the      *)
(* prebody buffer when the stream made a call wait.                        *)
BodyIntact ==
    /\ \A m, n \in DOMAIN given : m < n => given[m] < given[n]
    /\ state = "eom" /\ caller = "body" =>
          LET body == BodyUpTo(fetched - Len(prebody))
          IN  Range(given) \subseteq body /\ body \ Range(given) \subseteq viaPrebody
=============================================================================
