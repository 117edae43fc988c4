---------------------------- MODULE MCPolicyTable ----------------------------
(* The whole input space of the policy rules, for TLC. *)
EXTENDS PolicyTable

MCAuthorities == {"ROLE_SECURITY_OFFICER", "ROLE_SAFETY_OFFICER"}

\* A CAMARA REST carrier attests every kind, the live one no numbers.
MCCarriers == {EvidenceKind, EvidenceKind \ {"NUMBER_VERIFICATION"}}

MCStartReplies == [k \in SupportedCapabilities |-> "declined"]
=============================================================================
