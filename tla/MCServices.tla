--------------------------- MODULE MCServices ------------------------------
(* The requests of the wire: one with a chunked body, one without a body,  *)
(* and one with a body of known length, pipelined.                         *)
EXTENDS Services

Headers(last) == <<[k |-> "H", last |-> FALSE], [k |-> "E", last |-> last]>>
Cell(k, last) == [k |-> k, last |-> last]

MCWire ==
    Headers(FALSE) \o <<Cell("F", FALSE), Cell("B", FALSE), Cell("B", FALSE), Cell("B", FALSE),
                     Cell("F", TRUE)>>
    \o Headers(TRUE)
    \o Headers(FALSE) \o <<Cell("B", FALSE), Cell("B", TRUE)>>
=============================================================================
