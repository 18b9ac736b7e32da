-------------------------- MODULE RecipeAttendance --------------------------
(***************************************************************************)
(* RecipeProcess with a history of the guest's attention: the recipes that *)
(* lost their mix page to the success page of an earlier one, which names  *)
(* no recipe (display_ui_success()).                                       *)
(***************************************************************************)
EXTENDS RecipeProcess

VARIABLE displaced   \* the runs whose mix page such a success page has replaced

attendanceVars == <<recipeVars, displaced>>
-----------------------------------------------------------------------------
(* The mix page is that of the last recipe the guest has confirmed.        *)
OnMixPage(r) ==
  /\ page = "mix" /\ run[r] # "idle"
  /\ \A q \in Run : q > r => run[q] = "idle"

(* A success page comes while the recipe of the page is not over: it is of *)
(* an earlier recipe, which was still to be reported when r was confirmed. *)
IsDisplaced(r) ==
  /\ OnMixPage(r) /\ ~Over(r)
  /\ page' = "success"
  /\ \E q \in Run : q < r /\ result[q] = "success"

Remember == displaced' = displaced \cup {r \in Run : IsDisplaced(r)}

AttendanceInit == Init /\ displaced = {}
AttendanceNext == Next /\ Remember
AttendanceSpec == AttendanceInit /\ [][AttendanceNext]_attendanceVars
-----------------------------------------------------------------------------
(* A recipe in progress that was not aborted has the mix page, or its abort*)
(* is queued - whatever the guest, the aborts and the pages of this and    *)
(* earlier recipes do.  Only a recipe whose own mix page was replaced by   *)
(* the success page of an earlier one runs on unattended.                  *)
NoUnattendedRecipe ==
  \A r \in Run \ displaced : (run[r] = "running" /\ ~flag[r]) => page = "mix" \/ AbortQueued
=============================================================================
