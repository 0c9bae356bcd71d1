------------------------------ MODULE Admission -------------------------------
(***************************************************************************)
(* What the listener of provider-x promises of its connections: no more    *)
(* than a limit is served at any time, each until it is let go, and none   *)
(* is admitted once the listener has stopped.                              *)
(***************************************************************************)
EXTENDS Naturals, FiniteSets

CONSTANTS
    Connections,      \* a finite set
    MaxConnections    \* the limit, a natural number

VARIABLES
    served,   \* connections that are served, upgraded ones included
    open      \* is the listener running?

vars == <<served, open>>

Init == served = {} /\ open = TRUE

Admit(c) ==
    /\ open /\ c \notin served
    /\ Cardinality(served) < MaxConnections
    /\ served' = served \cup {c}
    /\ UNCHANGED open

LetGo == \E gone \in SUBSET served : served' = served \ gone /\ open' \in {open, FALSE}

Next == (\E c \in Connections : Admit(c)) \/ LetGo

Spec == Init /\ [][Next]_vars
=============================================================================
