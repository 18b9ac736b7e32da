------------------------- MODULE MCRecipeProcess -------------------------
(* The instances of RecipeProcess that TLC checks: each Pod pours its own  *)
(* ingredient, so that the dispense commands can be named for their Pods.  *)
EXTENDS RecipeProcess, TLC

CONSTANTS mint, ice   \* manual commands

MCPodOf   == [p \in Pod |-> p]
MCCommand == Pod \cup {mint}
MCParallelCommand == MCCommand \cup {ice}

(* All Pods pour in parallel, then the guest adds mint.                    *)
MCProgram == <<Pod, {mint}>>

(* The guest adds mint while the Pods pour, and ice at the end.            *)
MCParallelProgram == <<Pod \cup {mint}, {ice}>>

MCSymmetry == Permutations(Pod)
=============================================================================
