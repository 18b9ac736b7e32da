--------------------------- MODULE StationConfig ---------------------------
(***************************************************************************)
(* Which dispenser pours which ingredient: the assignments that the admin  *)
(* area posts to the io thread, the map in memory and its file, over the   *)
(* start, the shutdown and the crash of the station                        *)
(* (cocktail-maker/station_config.cpp, application.cpp).                   *)
(***************************************************************************)
EXTENDS Naturals, Sequences

CONSTANTS
  Ingredient,   \* the ingredients of the catalog
  Dispenser,    \* the dispensers of all Pods
  Unassigned,   \* no dispenser, or no ingredient
  MaxPosts      \* bound: assignments queued at once

ASSUME ConfigAssumption ==
  /\ Unassigned \notin Ingredient \cup Dispenser
  /\ MaxPosts \in Nat \ {0}

VARIABLES
  phase,      \* of the process
  mapping,    \* ingredient_dispenser_mapping_
  file,       \* the entries that a load would find in the file
  posts,      \* assignments queued for the io thread
  intended,   \* observed: the dispenser that the operator last chose for an ingredient
  filled,     \* observed: the ingredient that was last assigned to a dispenser
  faults      \* observed: what went wrong with the file so far

configVars == <<phase, mapping, file, posts, intended, filled, faults>>

Assignments == [Ingredient -> Dispenser \cup {Unassigned}]
Nothing == [i \in Ingredient |-> Unassigned]

(* A file that was cut short is read as some of the entries before the cut.*)
CutShort(entries) ==
  {e \in Assignments : \A i \in Ingredient : e[i] \in {Unassigned, entries[i]}}

(* Mutant: an older, longer file is overwritten in place. *)
Damaged_InPlace(entries) ==
  {e \in Assignments : \A i \in Ingredient : e[i] \in {file[i], entries[i]}}

Damaged(entries) == CutShort(entries)

ConfigInit ==
  /\ phase = "off"
  /\ mapping = Nothing /\ file = Nothing /\ posts = <<>>
  /\ intended = Nothing /\ filled = [d \in Dispenser |-> Unassigned] /\ faults = {}

(* Application::init(): the stores, then the callbacks of the admin area.  *)
StartUp ==
  /\ phase = "off"
  /\ phase' = "running"
  /\ mapping' = file
  /\ UNCHANGED <<file, posts, intended, filled, faults>>

(* Mutant: the callbacks are registered although nothing was loaded. *)
StartDegraded_Wired ==
  /\ phase = "off"
  /\ phase' = "running"
  /\ mapping' = Nothing
  /\ UNCHANGED <<file, posts, intended, filled, faults>>

(* A file of the catalog cannot be parsed: main() goes on with a window    *)
(* whose callbacks do nothing, and nothing is loaded.                      *)
StartDegraded ==
  /\ phase = "off"
  /\ phase' = "degraded"
  /\ mapping' = Nothing
  /\ UNCHANGED <<file, posts, intended, filled, faults>>

(* The operator selects an ingredient in the row of a dispenser.  The box  *)
(* offers the names of the store only, so every name is found.             *)
OnAssign(i, d) ==
  /\ phase = "running"
  /\ Len(posts) < MaxPosts
  /\ posts' = Append(posts, [ingredient |-> i, dispenser |-> d])
  /\ intended' = [intended EXCEPT ![i] = d]
  /\ filled' = [filled EXCEPT ![d] = i]
  /\ UNCHANGED <<phase, mapping, file, faults>>

Assigned == [mapping EXCEPT ![Head(posts).ingredient] = Head(posts).dispenser]

(* update_dispenser_ingredient_mapping() with a save that works, cannot    *)
(* open the file, or is cut short.  No failure is reported to the caller.  *)
UpdateMapping ==
  /\ phase \in {"running", "closing"} /\ posts # <<>>
  /\ posts' = Tail(posts)
  /\ mapping' = Assigned
  /\ \/ file' = Assigned /\ UNCHANGED faults
     \/ UNCHANGED file /\ faults' = faults \cup {"unopened"}
     \/ file' \in Damaged(Assigned) /\ faults' = faults \cup {"cut"}
  /\ UNCHANGED <<phase, intended, filled>>

(* The window is closed: stop_and_join is queued behind the assignments.   *)
CloseWindow ==
  /\ phase \in {"running", "degraded"}
  /\ phase' = "closing"
  /\ UNCHANGED <<mapping, file, posts, intended, filled, faults>>

(* Mutant: the io thread is stopped with handlers in its queue. *)
StopJoin_Now ==
  /\ phase = "closing"
  /\ phase' = "off" /\ posts' = <<>>
  /\ UNCHANGED <<mapping, file, intended, filled, faults>>

StopJoin ==
  /\ phase = "closing" /\ posts = <<>>
  /\ phase' = "off"
  /\ UNCHANGED <<mapping, file, posts, intended, filled, faults>>

(* The power is cut, possibly after the file was truncated.                *)
Crash ==
  /\ phase # "off"
  /\ phase' = "off" /\ posts' = <<>>
  /\ faults' = faults \cup (IF posts = <<>> THEN {} ELSE {"dropped"})
  /\ UNCHANGED <<mapping, file, intended, filled>>

CrashInSave ==
  /\ phase \in {"running", "closing"} /\ posts # <<>>
  /\ phase' = "off" /\ posts' = <<>>
  /\ file' \in Damaged(Assigned)
  /\ faults' = faults \cup {"cut"} \cup (IF Len(posts) = 1 THEN {} ELSE {"dropped"})
  /\ UNCHANGED <<mapping, intended, filled>>

ConfigNext ==
  \/ StartUp \/ StartDegraded
  \/ \E i \in Ingredient, d \in Dispenser : OnAssign(i, d)
  \/ UpdateMapping \/ CloseWindow \/ StopJoin \/ Crash \/ CrashInSave

ConfigSpec == ConfigInit /\ [][ConfigNext]_configVars

(* find_ingredient_by_dispenser() returns the first match of the scan.     *)
FoundFor(d) == {i \in Ingredient : mapping[i] = d}
-----------------------------------------------------------------------------
(* "writes every change straight back to a JSON file so the assignment     *)
(* survives a restart": with a file system that works and no crash before  *)
(* the io thread got to an assignment, the file holds the operator's last  *)
(* choices once the queue is empty, through any number of starts, of which *)
(* some fail, and of shutdowns.                                            *)
AssignmentsSurvive == faults = {} /\ posts = <<>> => file = intended

(* A damaged file may lose assignments, and the recipe then says so, but   *)
(* the station never pours by an assignment the operator has replaced.     *)
NoOlderAssignment ==
  faults \subseteq {"cut"} /\ posts = <<>> /\ phase = "running" =>
    \A i \in Ingredient : mapping[i] \in {Unassigned, intended[i]}

(* "Looks up which ingredient a dispenser is assigned to": the one that    *)
(* was assigned to it last.                                                *)
LookupFindsTheAssigned ==
  faults = {} /\ posts = <<>> /\ phase = "running" =>
    \A d \in Dispenser : FoundFor(d) \subseteq {filled[d]}
=============================================================================
