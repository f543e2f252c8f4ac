------------------------------ MODULE MCProofLoop ------------------------------
(***************************************************************************)
(* Instances of ProofLoop for TLC: a record the loop can prove a fix for,  *)
(* and those it must not.                                                  *)
(***************************************************************************)
EXTENDS ProofLoop, TLC

CONSTANTS v1, v2, v3, v4, f1, f2, deny, approve

\* v1 and v4 are complete, v2 has an unseeded model call, which blocks
\* certificates, v3 has nothing to replay from; no agent can replay v4.
EvidenceOfAll == [v \in {v1, v2, v3, v4} |->
    CASE v = v2 -> {"model_call", "response", "decision"}
      [] v = v3 -> {"model_call", "decision"}
      [] OTHER -> {"response", "decision"}]
EvidenceOfOne == [v \in {v1} |-> {"response", "decision"}]

\* The agent denies; f1 makes it approve, f2 changes nothing.
Agent == [v \in Records |-> [f \in {f1, f2, NoFix} |-> IF f = f1 THEN approve ELSE deny]]

Slots == Permutations(Requests) \cup Permutations(Creators)
================================================================================
