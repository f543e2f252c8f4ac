---------------------------- MODULE MCProofBridge ----------------------------
EXTENDS ProofBridge

CONSTANTS c1, d1

\* The lineage of every candidate resolves.
MCLinks == [c \in Candidates |-> [l \in LinkNames |-> "ok"]]

\* E3 leaves a verified fix a level to raise, E4 does not.
MCInitialLevel == [c \in Candidates |-> "E3"]
MCFinalLevel == [c \in Candidates |-> "E4"]

\* d1 is a deterministic rule for the candidates of every level.
MCRule == [d \in Delegations |->
             [deterministic |-> TRUE, scope |-> Candidates, level |-> "any"]]

Approve(p) == [decision |-> "approve_incident", period |-> p]
Dismiss(p) == [decision |-> "dismiss", period |-> p]
Withdraw == [decision |-> "supersede", period |-> "open"]

ApproveOnly == {Approve("open")}
ApproveDismiss == {Approve("open"), Dismiss("open")}
TimedReviews == {Approve("open"), Dismiss("current"), Withdraw}
=============================================================================
