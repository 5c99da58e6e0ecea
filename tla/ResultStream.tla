---------------------------- MODULE ResultStream ----------------------------
(***************************************************************************)
(* What a prepared query promises its caller.  Binding a list of parameter  *)
(* rows fixes a stream: what the server answers to the first, then to the   *)
(* second, and so on.  fetch(n) hands out the next n rows, or all that are   *)
(* left.  A fetch that fails ends the stream; one that the user interrupts  *)
(* loses the rows it had already read.                                      *)
(***************************************************************************)
EXTENDS Integers, Sequences

CONSTANTS
    StreamOf,    \* the stream of every list that may be bound
    Unbound,     \* the streams there may be without a binding
    FetchSizes,  \* the values of n; negative for "all rows"
    NULL

VARIABLES
    list,   \* the list that is bound; empty without
    todo,   \* rows still to be handed out
    got,    \* rows handed out since the last binding
    asked   \* n of the fetch in progress, or NULL

svars == <<list, todo, got, asked>>

Drop(s, k) == SubSeq(s, k + 1, Len(s))

(* How many rows fetch(n) hands out. *)
Share(n) == IF n < 0 \/ n > Len(todo) THEN Len(todo) ELSE n

Bind(ps) ==
    /\ asked = NULL
    /\ list' = ps
    /\ todo' = StreamOf[ps]
    /\ got' = <<>>
    /\ UNCHANGED asked

Ask(n) ==
    /\ asked = NULL
    /\ asked' = n
    /\ UNCHANGED <<list, todo, got>>

Reply ==
    /\ asked # NULL
    /\ got' = got \o SubSeq(todo, 1, Share(asked))
    /\ todo' = Drop(todo, Share(asked))
    /\ asked' = NULL
    /\ UNCHANGED list

Fail ==
    /\ asked # NULL
    /\ todo' = <<>>
    /\ asked' = NULL
    /\ UNCHANGED <<list, got>>

Interrupt(k) ==
    /\ asked # NULL
    /\ todo' = Drop(todo, k)
    /\ asked' = NULL
    /\ UNCHANGED <<list, got>>

Init ==
    /\ list = <<>>
    /\ todo \in Unbound
    /\ got = <<>>
    /\ asked = NULL

Next ==
    \/ \E ps \in DOMAIN StreamOf : Bind(ps)
    \/ \E n \in FetchSizes : Ask(n)
    \/ Reply
    \/ Fail
    \/ \E k \in 1..Len(todo) : Interrupt(k)

Spec == Init /\ [][Next]_svars

=============================================================================
