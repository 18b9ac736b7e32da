------------------------------ MODULE OrderFlow ------------------------------
(***************************************************************************)
(* From the list of recipes to the drink: the pages and the globals of the *)
(* UI (gui/ui/app-window.slint and its pages), the callbacks that order    *)
(* and boost (process_context_bridge.cpp, recipe_context_bridge.cpp), and  *)
(* the glasses that the operator may change in between.  How a recipe is   *)
(* executed, stopped and fails is RecipeProcess; here it is mixed.         *)
(***************************************************************************)
EXTENDS GlassConfig, RecipeArithmetic, FiniteSets

CONSTANTS
  Recipe,      \* the recipes of the store
  Content,     \* of each: nominal, ml, category
  BoostValue,  \* positions of the slider
  None,
  MaxQueued,   \* bound: posts queued when the guest orders or leaves, an order with no closure queued
  MaxEdits     \* bound: changes of the operator to the glasses

ASSUME OrderAssumption ==
  /\ None \notin Recipe \cup Glass
  /\ IsFiniteSet(Glass)
  /\ BoostValue \subseteq -FullBoost..FullBoost /\ 0 \in BoostValue
  /\ MaxQueued \in Nat /\ MaxEdits \in Nat

(* The schema of the recipes and the assertions of scale_recipe().         *)
ASSUME ContentAssumption ==
  \A r \in Recipe :
    /\ Content[r].nominal \in Nat \ {0} /\ Content[r].ml \in Seq(Nat)
    /\ \A i \in DOMAIN Content[r].ml : Content[r].category[i] \in {"boostable", "reducible", "fixed"}

VARIABLES
  page,      \* active-screen
  chosen,    \* active-recipe
  shown,     \* its commands, as the UI shows them
  slider,    \* boost-value of the detail page; observed while a glass is chosen
  context,   \* ProcessContext: boost, glass, volume
  held,      \* the volumes of its glass if the row was removed, else None
  ioQueue,   \* posts of the Slint thread
  making,    \* the order in progress
  mixing,    \* its commands have been computed and are being executed
  uiQueue,   \* closures of the io thread
  edits      \* for the bound: changes to the glasses so far

orderVars == <<page, chosen, shown, slider, context, held, ioQueue, making, mixing, uiQueue, edits>>

Boosted(r, b) == Boost(Pure(Content[r]), Content[r].category, b)

(* Mutant: the boosted commands of the page are processed. *)
Prepared_FromPage(o) ==
  Boost(Scale(Boosted(o.recipe, o.boost), Content[o.recipe].nominal, o.volume),
        Content[o.recipe].category, o.boost)

(* async_process_recipe(): the recipe of the store, scaled, then boosted.  *)
Prepared(o) ==
  Boost(Scale(Pure(Content[o.recipe]), Content[o.recipe].nominal, o.volume),
        Content[o.recipe].category, o.boost)

OrderInit ==
  /\ page = "list" /\ chosen = None /\ shown = None /\ slider = 0
  /\ context = [boost |-> 0, glass |-> None, volume |-> 0]
  /\ held = None
  /\ ioQueue = <<>> /\ uiQueue = <<>>
  /\ making = None /\ mixing = FALSE /\ edits = 0
-----------------------------------------------------------------------------
(* The Slint thread.                                                       *)

Start(o) == [do |-> "start", order |-> o]
Stop == [do |-> "abort", order |-> None]

(* Leaving the mix page aborts, unless it is for the success page.         *)
NavigateTo(target) ==
  /\ page = "mix" => Len(ioQueue) <= MaxQueued
  /\ page' = target
  /\ ioQueue' = IF page = "mix" THEN Append(ioQueue, Stop) ELSE ioQueue

SelectRecipe(r) ==
  /\ page = "list"
  /\ NavigateTo("detail")
  /\ chosen' = r /\ shown' = Pure(Content[r]) /\ slider' = 0
  /\ UNCHANGED <<context, held, making, mixing, uiQueue, edits>>

MoveSlider(b) ==
  /\ page = "detail" /\ IsBoostable(Content[chosen])
  /\ slider' = b /\ shown' = Boosted(chosen, b)
  /\ UNCHANGED <<page, chosen, context, held, ioQueue, making, mixing, uiQueue, edits>>

(* The boot screen covers the window while a Pod is away; the page that    *)
(* comes back is a new one.                                                *)
RecreatePage ==
  /\ page = "detail"
  /\ slider' = 0
  /\ UNCHANGED <<page, chosen, shown, context, held, ioQueue, making, mixing, uiQueue, edits>>

(* process_active_recipe, called with the context c.                       *)
ProcessActiveRecipe(c) ==
  /\ Len(ioQueue) <= MaxQueued /\ uiQueue = <<>>
  /\ page' = "mix"
  /\ ioQueue' = Append(ioQueue, Start([recipe |-> chosen, boost |-> c.boost, volume |-> c.volume,
                                       glass |-> c.glass, slider |-> slider]))

OneGlass == Cardinality(rows) = 1 /\ \A g \in rows : Cardinality(Common[g]) = 1

(* Mutant: the boost is taken over only when the slider was moved. *)
Zubereiten_IfBoosted ==
  /\ page = "detail" /\ ~OneGlass
  /\ context' = [context EXCEPT !.boost = IF slider = 0 THEN @ ELSE slider]
  /\ NavigateTo("glass")
  /\ UNCHANGED <<chosen, shown, slider, held, making, mixing, uiQueue, edits>>

(* The button of the detail page.  With one glass that has one common      *)
(* volume the order is placed at once, active or not.                      *)
Zubereiten ==
  /\ page = "detail"
  /\ \/ /\ OneGlass
        /\ \E g \in rows, v \in UNION {Common[h] : h \in rows} :
             context' = [boost |-> slider, glass |-> g, volume |-> v]
        /\ held' = None
        /\ ProcessActiveRecipe(context') /\ slider' = 0
     \/ /\ ~OneGlass
        /\ context' = [context EXCEPT !.boost = slider]
        /\ NavigateTo("glass") /\ UNCHANGED <<held, slider>>
  /\ UNCHANGED <<chosen, shown, making, mixing, uiQueue, edits>>

OnlyOf(volumes) == IF Cardinality(volumes) = 1 THEN CHOOSE v \in volumes : TRUE ELSE 0

(* Mutant: the volume of another glass stays. *)
ChooseGlass_KeepsVolume(g) ==
  /\ page = "glass" /\ g \in rows
  /\ context' = [context EXCEPT !.glass = g,
                                !.volume = IF @ > 0 THEN @ ELSE OnlyOf(copies[g])]
  /\ held' = None
  /\ UNCHANGED <<page, chosen, shown, slider, ioQueue, making, mixing, uiQueue, edits>>

ChooseGlass(g) ==
  /\ page = "glass" /\ g \in rows
  /\ context' = [context EXCEPT !.glass = g, !.volume = OnlyOf(copies[g])]
  /\ held' = None
  /\ UNCHANGED <<page, chosen, shown, slider, ioQueue, making, mixing, uiQueue, edits>>

(* The glass of the context may be of an earlier guest.                    *)
ChooseVolume(v) ==
  /\ page = "glass" /\ context.glass # None
  /\ LET chips == IF held = None THEN copies[context.glass] ELSE held
     IN Cardinality(chips) > 1 /\ v \in chips
  /\ context' = [context EXCEPT !.volume = v]
  /\ UNCHANGED <<page, chosen, shown, slider, held, ioQueue, making, mixing, uiQueue, edits>>

ConfirmGlass ==
  /\ page = "glass" /\ context.glass # None /\ context.volume > 0
  /\ ProcessActiveRecipe(context) /\ slider' = 0
  /\ UNCHANGED <<chosen, shown, context, held, making, mixing, uiQueue, edits>>

(* "Back" or "finish", or an operator who enters the admin area.           *)
GoTo(target) ==
  /\ page # target
  /\ NavigateTo(target) /\ slider' = 0
  /\ UNCHANGED <<chosen, shown, context, held, making, mixing, uiQueue, edits>>

(* The descriptor of a removed row keeps its VolumeModel.                  *)
ConfigureGlasses ==
  /\ page = "admin" /\ edits < MaxEdits
  /\ EditGlasses /\ edits' = edits + 1
  /\ held' = IF context.glass \in rows \ rows' /\ held = None THEN copies[context.glass] ELSE held
  /\ UNCHANGED <<page, chosen, shown, slider, context, ioQueue, making, mixing, uiQueue>>

(* Mutant: the page keeps the commands it had. *)
RunClosure_NoUpdate ==
  /\ uiQueue # <<>>
  /\ uiQueue' = Tail(uiQueue)
  /\ IF Head(uiQueue).do = "done" THEN page' = "success" /\ slider' = 0 ELSE UNCHANGED <<page, slider>>
  /\ UNCHANGED <<shown, chosen, context, held, ioQueue, making, mixing, edits>>

(* update_ui_recipe() changes the commands of whatever recipe is active;   *)
(* display_ui_success() replaces whatever page is open.                    *)
RunClosure ==
  /\ uiQueue # <<>>
  /\ uiQueue' = Tail(uiQueue)
  /\ LET c == Head(uiQueue) IN
     \/ c.do = "show" /\ shown' = Prepared(c.order) /\ UNCHANGED <<page, slider>>
     \/ c.do = "done" /\ page' = "success" /\ slider' = 0 /\ UNCHANGED shown
  /\ UNCHANGED <<chosen, context, held, ioQueue, making, mixing, edits>>
-----------------------------------------------------------------------------
(* The io thread.                                                          *)

(* start_recipe_processing() aborts what is in progress, as a post of the  *)
(* Slint thread does when the mix page is left.                            *)
HandlePost ==
  /\ ioQueue # <<>>
  /\ ioQueue' = Tail(ioQueue)
  /\ making' = Head(ioQueue).order /\ mixing' = FALSE
  /\ UNCHANGED <<page, chosen, shown, slider, context, held, uiQueue, edits>>

BeginMix ==
  /\ making # None /\ ~mixing
  /\ mixing' = TRUE
  /\ uiQueue' = Append(uiQueue, [do |-> "show", order |-> making])
  /\ UNCHANGED <<page, chosen, shown, slider, context, held, ioQueue, making, edits>>

FinishMix ==
  /\ mixing
  /\ making' = None /\ mixing' = FALSE
  /\ uiQueue' = Append(uiQueue, [do |-> "done", order |-> None])
  /\ UNCHANGED <<page, chosen, shown, slider, context, held, ioQueue, edits>>

GuestStep ==
  \/ \E r \in Recipe : SelectRecipe(r)
  \/ \E b \in BoostValue : MoveSlider(b)
  \/ \E g \in Glass : ChooseGlass(g) \/ \E v \in Common[g] : ChooseVolume(v)
  \/ RecreatePage \/ Zubereiten \/ ConfirmGlass
  \/ \E target \in {"list", "admin"} : GoTo(target)

OrderNext ==
  \/ (GuestStep \/ RunClosure \/ HandlePost \/ BeginMix \/ FinishMix) /\ UNCHANGED glassVars
  \/ ConfigureGlasses

(* The glasses are loaded before the first page is shown.                  *)
Ordering == (LoadGlasses /\ UNCHANGED orderVars) \/ (up /\ OrderNext)

OrderSpec == GlassInit /\ OrderInit /\ [][Ordering]_<<glassVars, orderVars>>
-----------------------------------------------------------------------------
Orders == ({ioQueue[i].order : i \in DOMAIN ioQueue} \cup {making}) \ {None}

(* The boost that is mixed is the one of the slider when the guest left the*)
(* detail page, whatever earlier orders have left behind.                  *)
MixedAsOrdered ==
  \A o \in Orders : o.boost = o.slider

(* The volume of an order is one of its own glass, although glass and      *)
(* volume outlive the order and the rows of the glasses.                   *)
VolumeFitsGlass == \A o \in Orders : o.volume \in Common[o.glass]

(* Once both threads have caught up, the mix page shows the amounts that   *)
(* are being poured.                                                       *)
MixPageShowsTheMix ==
  page = "mix" /\ ioQueue = <<>> /\ uiQueue = <<>> /\ mixing => shown = Prepared(making)

(* "The total dispensed volume is conserved": a drink fills the glass as   *)
(* far as the recipe fills its nominal serving, and nothing is negative.   *)
DrinkIsWhole ==
  mixing =>
    LET d == Prepared(making) r == Content[making.recipe]
    IN /\ TotalOf(d.ml) * r.nominal = TotalOf(r.ml) * making.volume * d.per
       /\ \A i \in DOMAIN d.ml : d.ml[i] >= 0

(* "The two commute": the drink is the one the detail page computes for    *)
(* the chosen boost, scaled to the glass.                                  *)
MixIsTheChosenDrink ==
  mixing => SameDrink(Prepared(making),
                      Scale(Boosted(making.recipe, making.boost), Content[making.recipe].nominal, making.volume))
=============================================================================
