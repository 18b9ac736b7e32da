---------------------------- MODULE GlassConfig ----------------------------
(***************************************************************************)
(* The glasses the station offers (cocktail-maker/glass.cpp and            *)
(* gui/src/glass_context_bridge.cppm): the store with the active volumes   *)
(* of each glass, the rows of the UI with copies of them, and the file.    *)
(* All of it belongs to the Slint thread.                                  *)
(***************************************************************************)
EXTENDS Naturals

CONSTANTS
  Glass,    \* the glasses of the catalog
  Common    \* the common volumes of each glass, which the operator may activate

ASSUME GlassAssumption == \A g \in Glass : Common[g] \subseteq Nat \ {0}

VARIABLES
  up,         \* the station runs, its glasses are loaded
  active,     \* active_volumes of each glass of the store
  rows,       \* the glasses of the list, which the guest chooses from
  copies,     \* the VolumeModel of each row, of a removed one as it was then
  stored,     \* the active volumes that a load would find in the file
  intact      \* observed: every save has worked so far

glassVars == <<up, active, rows, copies, stored, intact>>

NoVolumes == [g \in Glass |-> {}]
Within(volumes) ==
  {w \in [Glass -> SUBSET UNION {volumes[g] : g \in Glass}] : \A g \in Glass : w[g] \subseteq volumes[g]}

GlassInit ==
  /\ up = FALSE
  /\ stored \in Within(Common) /\ active = stored
  /\ rows = {} /\ copies = NoVolumes
  /\ intact = TRUE

(* A save that works, cannot open the file, or is cut short: the glasses   *)
(* behind the cut are then not found by a load and have no active volume.  *)
Save(volumes) ==
  \/ stored' = volumes /\ UNCHANGED intact
  \/ UNCHANGED stored /\ intact' = FALSE
  \/ /\ stored' \in {w \in Within(volumes) : \A g \in Glass : w[g] \in {{}, volumes[g]}}
     /\ intact' = FALSE

(* init_glasses(), and the rows of the glasses with active volumes.        *)
LoadGlasses ==
  /\ ~up /\ up' = TRUE
  /\ active' = stored
  /\ rows' = {g \in Glass : stored[g] # {}}
  /\ copies' = stored
  /\ UNCHANGED <<stored, intact>>

AddVolume(g, v) ==
  /\ up /\ v \notin active[g]
  /\ active' = [active EXCEPT ![g] = @ \cup {v}]
  /\ copies' = IF g \in rows THEN [copies EXCEPT ![g] = @ \cup {v}] ELSE copies
  /\ Save(active')
  /\ UNCHANGED <<up, rows>>

(* Mutant: only what is added is saved. *)
RemoveVolume_Unsaved(g, v) ==
  /\ up /\ v \in active[g]
  /\ active' = [active EXCEPT ![g] = @ \ {v}]
  /\ copies' = IF g \in rows THEN [copies EXCEPT ![g] = @ \ {v}] ELSE copies
  /\ UNCHANGED <<up, rows, stored, intact>>

RemoveVolume(g, v) ==
  /\ up /\ v \in active[g]
  /\ active' = [active EXCEPT ![g] = @ \ {v}]
  /\ copies' = IF g \in rows THEN [copies EXCEPT ![g] = @ \ {v}] ELSE copies
  /\ Save(active')
  /\ UNCHANGED <<up, rows>>

(* Mutant: a glass that comes back has the volumes of its old row. *)
AddGlass_OldRow(g) ==
  /\ up /\ g \notin rows
  /\ rows' = rows \cup {g}
  /\ UNCHANGED <<up, active, copies, stored, intact>>

AddGlass(g) ==
  /\ up /\ g \notin rows
  /\ rows' = rows \cup {g}
  /\ copies' = [copies EXCEPT ![g] = active[g]]
  /\ UNCHANGED <<up, active, stored, intact>>

(* Only the row goes: the volumes stay active in the store and the file.   *)
RemoveGlass(g) ==
  /\ up /\ g \in rows
  /\ rows' = rows \ {g}
  /\ UNCHANGED <<up, active, copies, stored, intact>>

(* The station is closed or loses its power, maybe in the middle of a save,*)
(* which is then cut short.                                                *)
Leave ==
  /\ up /\ up' = FALSE
  /\ rows' = {} /\ copies' = NoVolumes
  /\ UNCHANGED <<active, stored, intact>>

EditGlasses ==
  \E g \in Glass : \/ AddGlass(g) \/ RemoveGlass(g)
                   \/ \E v \in Common[g] : AddVolume(g, v) \/ RemoveVolume(g, v)

GlassNext == LoadGlasses \/ Leave \/ EditGlasses

GlassSpec == GlassInit /\ [][GlassNext]_glassVars
-----------------------------------------------------------------------------
(* The guest chooses from rows that were copied from the store, removed    *)
(* and added again: each shows the volumes that the store and the admin    *)
(* area hold for its glass.                                                *)
RowsShowTheStore == up => \A g \in rows : copies[g] = active[g]

(* The volumes the operator chose are the ones of the next start, as long  *)
(* as no save has failed.                                                  *)
VolumesSurvive == intact => stored = active
=============================================================================
