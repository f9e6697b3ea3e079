---------------------------- MODULE BoundedQueue ----------------------------
(***************************************************************************)
(* What queue_push and queue_shift promise: a first-in first-out queue of  *)
(* at most MaxSize items.                                                  *)
(***************************************************************************)
EXTENDS Naturals, Sequences

CONSTANTS Item, MaxSize

VARIABLES
    contents,
    result      \* the item that the last queue_shift returned

Init ==
    /\ contents = << >>
    /\ result \in Item

Push ==
    /\ Len(contents) < MaxSize
    /\ \E x \in Item : contents' = Append(contents, x)
    /\ UNCHANGED result

Shift ==
    /\ contents # << >>
    /\ result' = Head(contents)
    /\ contents' = Tail(contents)

Next == Push \/ Shift

Spec == Init /\ [][Next]_<<contents, result>>
=============================================================================
