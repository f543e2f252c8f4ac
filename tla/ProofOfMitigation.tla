--------------------------- MODULE ProofOfMitigation ---------------------------
(***************************************************************************)
(* What a proof of mitigation promises, without the rows and requests it   *)
(* is made of: a record is replayed, then a fix is seen to turn its        *)
(* decision into the expected one, then that is certified.                 *)
(***************************************************************************)
CONSTANTS Records, Works(_, _, _), Certifiable

VARIABLES
    replayed,   \* records replayed from their recording
    verified,   \* what a mutation test verified: record, fix, expected outcome
    certified   \* what a certificate states

Init == replayed = {} /\ verified = {} /\ certified = {}

Replay(v) ==
    /\ v \in Records
    /\ replayed' = replayed \cup {v}
    /\ UNCHANGED <<verified, certified>>

Verify(claim) ==
    /\ claim.record \in replayed
    /\ Works(claim.record, claim.fix, claim.expected)
    /\ verified' = verified \cup {claim}
    /\ UNCHANGED <<replayed, certified>>

Certify(claim) ==
    /\ claim \in verified
    /\ claim.record \in Certifiable
    /\ certified' = certified \cup {claim}
    /\ UNCHANGED <<replayed, verified>>

Next ==
    \/ \E v \in Records : Replay(v)
    \/ \E claim \in verified' : Verify(claim)
    \/ \E claim \in certified' : Certify(claim)

Spec == Init /\ [][Next]_<<replayed, verified, certified>>
================================================================================
