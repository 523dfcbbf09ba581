-------------------------- MODULE MCApprovalService --------------------------
(* Model-checking instances of ApprovalService: two concurrent calls, with   *)
(* a registered and an unregistered tool, or with two registered ones.       *)
EXTENDS ApprovalService

CONSTANTS r1, r2, p1, p2

MCRequests == {r1, r2}
MCProviderIds == {p1, p2}
MCOneProviderId == {p1}
MCTools == {"bash", "ghost"}
MCRegisteredTools == {"bash"}
MCBothRegistered == {"bash", "edit"}
=============================================================================
