-------------------------- MODULE MCPodLifecycle --------------------------
(* The instances of PodLifecycle that TLC checks: two Pods on two ports,   *)
(* and one Pod on one port for what happens when it is gone only briefly.  *)
EXTENDS PodLifecycle
=============================================================================
