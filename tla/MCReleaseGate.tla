----------------------------- MODULE MCReleaseGate -----------------------------
(***************************************************************************)
(* A library of two records: one in the library from the start, one that   *)
(* may be promoted, to either of two fresh ids.                            *)
(***************************************************************************)
EXTENDS ReleaseGate, TLC

CONSTANTS s1, s2, s3, v1, v2, fixed, unfixed

MCSource == s1 :> v1 @@ s2 :> v2 @@ s3 :> v2

\* The second record fails without the fix.
MCOutcome == [s \in {s1, s2, s3} |->
                 [f \in {fixed, unfixed} |-> IF s # s1 /\ f = unfixed THEN "failed" ELSE "passed"]]

SomeRequired == {{}, {s1, s2}}
================================================================================
