---------------------------- MODULE MCPollTimers ----------------------------
(* Two timers, each due at once or later, and a tasklet that waits for them.*)
EXTENDS PollTimers

CONSTANTS ta, tb, ka

Span(e, l) == [earliest |-> e, latest |-> l]

Near == {Span(0, 1), Span(2, 3)}
Far == {Span(0, 6)}
=============================================================================
