------------------------------- MODULE Promotion -------------------------------
(***************************************************************************)
(* What the proof bridge promises, without the storage calls it is made    *)
(* of: authority is granted over time, and a candidate is promoted in one  *)
(* step, once, under an authority granted for it before.  A candidate      *)
(* whose promotion was disturbed keeps only the last of these promises.    *)
(***************************************************************************)
CONSTANTS Candidates, None

VARIABLES
    granted,    \* pairs of a candidate and an authority given for it
    promoted,   \* per candidate, the bundle it was promoted with, or None
    disturbed   \* candidates with overlapping writes to their promotion

Init ==
    /\ granted = {}
    /\ promoted = [c \in Candidates |-> None]
    /\ disturbed = {}

Grant ==
    /\ granted \subseteq granted'
    /\ UNCHANGED <<promoted, disturbed>>

Disturb ==
    /\ disturbed \subseteq disturbed'
    /\ UNCHANGED <<granted, promoted>>

Promote(c) ==
    /\ promoted[c] = None \/ c \in disturbed
    /\ promoted'[c] # None
    /\ promoted'[c].candidate = c
    /\ <<c, promoted'[c].authority>> \in granted
    /\ promoted' = [promoted EXCEPT ![c] = promoted'[c]]
    /\ UNCHANGED <<granted, disturbed>>

Lose(c) ==
    /\ c \in disturbed
    /\ promoted' = [promoted EXCEPT ![c] = None]
    /\ UNCHANGED <<granted, disturbed>>

Next == Grant \/ Disturb \/ \E c \in Candidates : Promote(c) \/ Lose(c)

Spec == Init /\ [][Next]_<<granted, promoted, disturbed>>
================================================================================
