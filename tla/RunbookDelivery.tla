--------------------------- MODULE RunbookDelivery ---------------------------
(***************************************************************************)
(* What a Redis list and the pods reading it promise about runbooks,       *)
(* whatever crashes: a message leaves the list once, in the order pushed,  *)
(* is held by at most one handler and settled once; its plan is complete   *)
(* before any of it is performed; and the positions of the plan are        *)
(* performed in ascending order, each at most once and only while the      *)
(* message is held.  A message may be lost on its way and a plan abandoned *)
(* halfway: delivery is at most once.                                      *)
(***************************************************************************)
EXTENDS Naturals

CONSTANT Positions     \* the plan positions a message may have

VARIABLES pushed,      \* number of messages pushed
          taken,       \* number of messages taken off the list
          held,        \* messages some handler holds
          ahead,       \* <<message, position>> pairs planned, not performed yet
          performed    \* <<message, position>> pairs performed so far

vars == <<pushed, taken, held, ahead, performed>>

Init == pushed = 0 /\ taken = 0 /\ held = {} /\ ahead = {} /\ performed = {}

Of(m, pairs) == {e \in pairs : e[1] = m}

Send == pushed' = pushed + 1 /\ UNCHANGED <<taken, held, ahead, performed>>

Take ==
    /\ taken < pushed /\ taken' = taken + 1
    /\ held' = held \cup {taken'}
    /\ UNCHANGED <<pushed, ahead, performed>>

Lose ==
    /\ taken < pushed /\ taken' = taken + 1
    /\ UNCHANGED <<pushed, held, ahead, performed>>

Plan(m, i) ==
    /\ m \in held /\ Of(m, performed) = {}
    /\ ahead' = ahead \cup {<<m, i>>}
    /\ UNCHANGED <<pushed, taken, held, performed>>

\* A position is performed; after a failure the rest may be abandoned.
Perform(m, i) ==
    /\ m \in held /\ <<m, i>> \in ahead
    /\ \A e \in Of(m, performed) : e[2] < i
    /\ performed' = performed \cup {<<m, i>>}
    /\ ahead' \in {ahead \ {<<m, i>>}, ahead \ Of(m, ahead)}
    /\ UNCHANGED <<pushed, taken, held>>

Settle(m) ==
    /\ m \in held /\ held' = held \ {m}
    /\ ahead' = ahead \ Of(m, ahead)
    /\ UNCHANGED <<pushed, taken, performed>>

Next ==
    \/ Send \/ Take \/ Lose
    \/ \E m \in held :
          Settle(m) \/ \E i \in Positions : Plan(m, i) \/ Perform(m, i)

Spec == Init /\ [][Next]_vars
=============================================================================
