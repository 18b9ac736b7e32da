------------------------- MODULE MCRecipeAttendance -------------------------
(* The instance of RecipeAttendance that TLC checks.                       *)
EXTENDS MCRecipeProcess, RecipeAttendance
=============================================================================
