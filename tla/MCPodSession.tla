--------------------------- MODULE MCPodSession ---------------------------
(* The instance of PodSession that TLC checks. *)
EXTENDS PodSession
=============================================================================
