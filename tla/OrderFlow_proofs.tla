------------------------- MODULE OrderFlow_proofs -------------------------
(***************************************************************************)
(* The rows of the glasses show the store, and an order is mixed as it was *)
(* placed, for any glasses, volumes, recipes and slider positions, and     *)
(* whatever the bounds on what is queued.                                  *)
(***************************************************************************)
EXTENDS OrderFlow, RecipeArithmetic_proofs, FiniteSetTheorems, TLAPS

GlassTypes ==
  /\ up \in BOOLEAN
  /\ rows \subseteq Glass
  /\ active \in [Glass -> SUBSET Nat] /\ copies \in [Glass -> SUBSET Nat]
  /\ stored \in [Glass -> SUBSET Nat]

(* Nothing but common volumes of a glass is ever offered for it.           *)
OffersAreCommon ==
  \A g \in Glass : active[g] \subseteq Common[g] /\ copies[g] \subseteq Common[g] /\ stored[g] \subseteq Common[g]

GlassInv == GlassTypes /\ OffersAreCommon /\ RowsShowTheStore /\ VolumesSurvive
-----------------------------------------------------------------------------
LEMMA WithinIsWithin ==
  ASSUME NEW volumes \in [Glass -> SUBSET Nat], NEW w \in Within(volumes)
  PROVE  w \in [Glass -> SUBSET Nat] /\ \A g \in Glass : w[g] \subseteq volumes[g]
BY DEF Within

LEMMA InitGlass == GlassInit => GlassInv
<1> SUFFICES ASSUME GlassInit PROVE GlassInv
  OBVIOUS
<1>1. /\ stored \in [Glass -> SUBSET Nat] /\ \A g \in Glass : stored[g] \subseteq Common[g]
  BY GlassAssumption DEF GlassInit, Within
<1>2. /\ up = FALSE /\ active = stored /\ rows = {}
      /\ copies \in [Glass -> SUBSET Nat] /\ \A g \in Glass : copies[g] = {}
  BY DEF GlassInit, NoVolumes
<1> QED
  BY <1>1, <1>2 DEF GlassInv, GlassTypes, OffersAreCommon, RowsShowTheStore, VolumesSurvive

(* A change to one glass that is saved, with its row changed alike.        *)
LEMMA ChangeKeepsGlass ==
  ASSUME GlassInv, up, UNCHANGED <<up, rows>>, NEW g \in Glass, NEW volumes \in SUBSET Common[g],
         active' = [active EXCEPT ![g] = volumes],
         g \in rows => copies' = [copies EXCEPT ![g] = volumes],
         g \notin rows => copies' = copies,
         Save(active')
  PROVE  GlassInv'
<1> USE DEF GlassInv, GlassTypes
<1>1. volumes \in SUBSET Nat
  BY GlassAssumption
<1>2. /\ active' \in [Glass -> SUBSET Nat] /\ copies' \in [Glass -> SUBSET Nat]
      /\ \A h \in Glass : active'[h] \subseteq Common[h] /\ copies'[h] \subseteq Common[h]
  BY <1>1 DEF OffersAreCommon
<1>3. RowsShowTheStore'
  BY DEF RowsShowTheStore
<1>4. /\ stored' \in [Glass -> SUBSET Nat] /\ \A h \in Glass : stored'[h] \subseteq Common[h]
      /\ VolumesSurvive'
  <2>1. CASE stored' = active' /\ UNCHANGED intact
    BY <1>2, <2>1 DEF VolumesSurvive
  <2>2. CASE UNCHANGED stored /\ intact' = FALSE
    BY <2>2 DEF OffersAreCommon, VolumesSurvive
  <2>3. CASE stored' \in Within(active') /\ intact' = FALSE
    BY <1>2, <2>3, WithinIsWithin DEF VolumesSurvive
  <2> QED
    BY <2>1, <2>2, <2>3 DEF Save
<1> QED
  BY <1>2, <1>3, <1>4 DEF OffersAreCommon

LEMMA StepGlass == GlassInv /\ [GlassNext]_glassVars => GlassInv'
<1> SUFFICES ASSUME GlassInv, [GlassNext]_glassVars PROVE GlassInv'
  OBVIOUS
<1>1. CASE LoadGlasses
  BY <1>1 DEF LoadGlasses, GlassInv, GlassTypes, OffersAreCommon, RowsShowTheStore, VolumesSurvive
<1>2. CASE Leave
  BY <1>2 DEF Leave, NoVolumes, GlassInv, GlassTypes, OffersAreCommon, RowsShowTheStore, VolumesSurvive
<1>3. ASSUME NEW g \in Glass, AddGlass(g) \/ RemoveGlass(g) PROVE GlassInv'
  BY <1>3 DEF AddGlass, RemoveGlass, GlassInv, GlassTypes, OffersAreCommon, RowsShowTheStore, VolumesSurvive
<1>4. ASSUME NEW g \in Glass, NEW v \in Common[g], AddVolume(g, v) PROVE GlassInv'
  <2>1. /\ active[g] \cup {v} \in SUBSET Common[g]
        /\ g \in rows => copies[g] = active[g]
    BY <1>4 DEF AddVolume, GlassInv, OffersAreCommon, RowsShowTheStore
  <2>2. /\ up /\ UNCHANGED <<up, rows>> /\ Save(active')
        /\ active' = [active EXCEPT ![g] = active[g] \cup {v}]
        /\ g \in rows => copies' = [copies EXCEPT ![g] = active[g] \cup {v}]
        /\ g \notin rows => copies' = copies
    BY <1>4, <2>1 DEF AddVolume, GlassInv, GlassTypes
  <2> QED
    BY <2>1, <2>2, ChangeKeepsGlass
<1>5. ASSUME NEW g \in Glass, NEW v \in Common[g], RemoveVolume(g, v) PROVE GlassInv'
  <2>1. /\ active[g] \ {v} \in SUBSET Common[g]
        /\ g \in rows => copies[g] = active[g]
    BY <1>5 DEF RemoveVolume, GlassInv, OffersAreCommon, RowsShowTheStore
  <2>2. /\ up /\ UNCHANGED <<up, rows>> /\ Save(active')
        /\ active' = [active EXCEPT ![g] = active[g] \ {v}]
        /\ g \in rows => copies' = [copies EXCEPT ![g] = active[g] \ {v}]
        /\ g \notin rows => copies' = copies
    BY <1>5, <2>1 DEF RemoveVolume, GlassInv, GlassTypes
  <2> QED
    BY <2>1, <2>2, ChangeKeepsGlass
<1>6. CASE UNCHANGED glassVars
  BY <1>6 DEF glassVars, GlassInv, GlassTypes, OffersAreCommon, RowsShowTheStore, VolumesSurvive
<1> QED
  BY <1>1, <1>2, <1>3, <1>4, <1>5, <1>6 DEF GlassNext, EditGlasses

LEMMA GlassCorrect == GlassSpec => []GlassInv
  BY InitGlass, StepGlass, PTL DEF GlassSpec

(* Rows that are removed, added and changed show the volumes of the store. *)
THEOREM RowsAreTrue == GlassSpec => []RowsShowTheStore
<1>1. GlassInv => RowsShowTheStore
  BY DEF GlassInv
<1> QED
  BY <1>1, GlassCorrect, PTL

(* The chosen volumes survive every start and crash unless a save has      *)
(* failed.                                                                 *)
THEOREM VolumesAreKept == GlassSpec => []VolumesSurvive
<1>1. GlassInv => VolumesSurvive
  BY DEF GlassInv
<1> QED
  BY <1>1, GlassCorrect, PTL
-----------------------------------------------------------------------------
Order  == [recipe : Recipe, boost : BoostValue, volume : Nat,
           glass : Glass \cup {None}, slider : BoostValue]
Posted == [do : {"start", "abort"}, order : Order \cup {None}]
Shown  == [do : {"show", "done"}, order : Order \cup {None}]

OrderTypes ==
  /\ page \in {"list", "detail", "glass", "mix", "success", "admin"}
  /\ chosen \in Recipe \cup {None} /\ slider \in BoostValue
  /\ context \in [boost : BoostValue, glass : Glass \cup {None}, volume : Nat]
  /\ ioQueue \in Seq(Posted) /\ uiQueue \in Seq(Shown)
  /\ making \in Order \cup {None} /\ mixing \in BOOLEAN
  /\ mixing => making # None

(* While the guest chooses a glass, the boost of the context is the one of *)
(* the slider, which is not touched any more.                              *)
BoostIsTaken == page = "glass" => context.boost = slider

(* These pages are reached through the recipe that was selected last.      *)
RecipeIsChosen == page \in {"detail", "glass"} => chosen \in Recipe

(* A volume that is left from an earlier guest is one of the glass that is *)
(* left, and so are the chips of a glass whose row was removed.            *)
VolumeIsOfGlass ==
  /\ context.volume > 0 => context.glass \in Glass /\ context.volume \in Common[context.glass]
  /\ held # None => context.glass \in Glass /\ held \subseteq Common[context.glass]

OrdersAreRight ==
  \A o \in Orders : o.boost = o.slider /\ o.glass \in Glass /\ o.volume \in Common[o.glass]

(* The commands that are executed are the last to be shown, unless the     *)
(* page was left, whose post then ends the mix.                            *)
MixIsShown ==
  mixing => \/ uiQueue # <<>> /\ uiQueue[Len(uiQueue)] = [do |-> "show", order |-> making]
            \/ uiQueue = <<>> /\ (page = "mix" /\ ioQueue = <<>> => shown = Prepared(making))

OrderInv ==
  /\ OrderTypes /\ BoostIsTaken /\ RecipeIsChosen /\ VolumeIsOfGlass /\ OrdersAreRight /\ MixIsShown
-----------------------------------------------------------------------------
LEMMA InitOrder == OrderInit => OrderInv
<1> SUFFICES ASSUME OrderInit PROVE OrderInv
  OBVIOUS
<1> USE OrderAssumption DEF OrderInit
<1>1. OrderTypes
  <2>1. page = "list" /\ 0 \in BoostValue /\ 0 \in Nat
    OBVIOUS
  <2>2. context \in [boost : BoostValue, glass : Glass \cup {None}, volume : Nat]
    BY <2>1
  <2>3. ioQueue \in Seq(Posted) /\ uiQueue \in Seq(Shown)
    OBVIOUS
  <2> QED
    BY <2>1, <2>2, <2>3 DEF OrderTypes
<1>2. Orders = {}
  BY DEF Orders
<1> QED
  BY <1>1, <1>2 DEF OrderInv, BoostIsTaken, RecipeIsChosen, VolumeIsOfGlass, OrdersAreRight, MixIsShown

(* Leaving a page may post an abort, which is no order.                    *)
LEMMA NavigateKeepsOrders ==
  ASSUME OrderTypes, NEW target, NavigateTo(target), making' = making
  PROVE  /\ ioQueue' \in Seq(Posted) /\ Orders' \subseteq Orders
         /\ page' = target /\ (ioQueue' = <<>> => ioQueue = <<>>)
<1>1. Stop \in Posted /\ Stop.order = None
  BY DEF Stop, Posted
<1>2. ioQueue \in Seq(Posted) /\ page' = target /\ ioQueue' \in {ioQueue, Append(ioQueue, Stop)}
  BY DEF NavigateTo, OrderTypes
<1> HIDE DEF Stop
<1>3. CASE ioQueue' = ioQueue
  BY <1>2, <1>3 DEF Orders
<1>4. CASE ioQueue' = Append(ioQueue, Stop)
  <2>1. /\ ioQueue' \in Seq(Posted) /\ ioQueue' # <<>>
        /\ \A i \in DOMAIN ioQueue' : (i \in DOMAIN ioQueue /\ ioQueue'[i] = ioQueue[i]) \/ ioQueue'[i] = Stop
    BY <1>1, <1>2, <1>4
  <2> QED
    BY <1>1, <1>2, <2>1 DEF Orders
<1> QED
  BY <1>2, <1>3, <1>4

LEMMA PlaceKeepsOrders ==
  ASSUME OrderTypes, NEW o \in Order, ioQueue' = Append(ioQueue, Start(o)), making' = making
  PROVE  ioQueue' \in Seq(Posted) /\ ioQueue' # <<>> /\ Orders' \subseteq Orders \cup {o}
<1>1. Start(o) \in Posted /\ Start(o).order = o
  BY DEF Start, Posted
<1>2. ioQueue \in Seq(Posted)
  BY DEF OrderTypes
<1> DEFINE p == Start(o)
<1> HIDE DEF p
<1>3. /\ ioQueue' \in Seq(Posted) /\ ioQueue' # <<>>
      /\ \A i \in DOMAIN ioQueue' : (i \in DOMAIN ioQueue /\ ioQueue'[i] = ioQueue[i]) \/ ioQueue'[i] = p
  <2>1. p \in Posted /\ ioQueue' = Append(ioQueue, p)
    BY <1>1 DEF p
  <2> QED
    BY <1>2, <2>1
<1> QED
  BY <1>1, <1>2, <1>3 DEF Orders, p

(* A step of a page: no mix is begun, finished or shown.                   *)
LEMMA PageKeepsMix ==
  ASSUME MixIsShown, UNCHANGED <<making, mixing, uiQueue>>,
         page' = "mix" /\ ioQueue' = <<>> => page = "mix" /\ ioQueue = <<>> /\ shown' = shown
  PROVE  MixIsShown'
BY DEF MixIsShown

LEMMA PlaceKeepsOrderInv ==
  ASSUME GlassInv, OrderInv, page \in {"detail", "glass"}, NEW c \in [boost : BoostValue, glass : Glass, volume : Nat],
         c.boost = slider, c.volume \in Common[c.glass], ProcessActiveRecipe(c), context' = c,
         held' = None \/ (held' = held /\ c = context),
         slider' = 0, UNCHANGED <<chosen, shown, making, mixing, uiQueue>>
  PROVE  OrderInv'
<1> DEFINE o == [recipe |-> chosen, boost |-> c.boost, volume |-> c.volume, glass |-> c.glass, slider |-> slider]
<1>1. OrderTypes /\ page' = "mix" /\ ioQueue' = Append(ioQueue, Start(o))
  BY DEF OrderInv, ProcessActiveRecipe
<1>2. /\ o \in Order /\ o.boost = c.boost /\ o.slider = slider
      /\ o.glass = c.glass /\ o.volume = c.volume
  BY <1>1 DEF OrderTypes, Order, OrderInv, RecipeIsChosen
<1> HIDE DEF o
<1>3. ioQueue' \in Seq(Posted) /\ ioQueue' # <<>> /\ Orders' \subseteq Orders \cup {o}
  BY <1>1, <1>2, PlaceKeepsOrders
<1>4. OrderTypes'
  BY <1>1, <1>3, OrderAssumption DEF OrderTypes
<1>5. OrdersAreRight'
  BY <1>2, <1>3 DEF OrderInv, OrdersAreRight
<1>6. BoostIsTaken' /\ RecipeIsChosen' /\ VolumeIsOfGlass'
  BY <1>1 DEF BoostIsTaken, RecipeIsChosen, VolumeIsOfGlass, OrderInv
<1>7. MixIsShown'
  BY <1>3, PageKeepsMix DEF OrderInv
<1> QED
  BY <1>4, <1>5, <1>6, <1>7 DEF OrderInv

(* A step to another page, or on the page, that places no order.           *)
LEMMA TurnKeepsOrderInv ==
  ASSUME OrderInv, ioQueue' \in Seq(Posted), Orders' \subseteq Orders,
         page' \in {"list", "detail", "glass", "mix", "success", "admin"},
         page' = "mix" /\ ioQueue' = <<>> => page = "mix" /\ ioQueue = <<>> /\ shown' = shown,
         chosen' \in Recipe \cup {None}, slider' \in BoostValue,
         context' \in [boost : BoostValue, glass : Glass \cup {None}, volume : Nat],
         BoostIsTaken', RecipeIsChosen', VolumeIsOfGlass', UNCHANGED <<making, mixing, uiQueue>>
  PROVE  OrderInv'
<1>1. OrderTypes'
  BY DEF OrderInv, OrderTypes
<1>2. OrdersAreRight'
  BY DEF OrderInv, OrdersAreRight
<1>3. MixIsShown'
  BY PageKeepsMix DEF OrderInv
<1> QED
  BY <1>1, <1>2, <1>3 DEF OrderInv
-----------------------------------------------------------------------------
LEMMA GuestKeepsOrderInv ==
  ASSUME GlassInv, OrderInv, GuestStep, UNCHANGED glassVars
  PROVE  OrderInv'
<1>1. OrderTypes /\ VolumeIsOfGlass /\ BoostIsTaken /\ RecipeIsChosen
  BY DEF OrderInv
<1>2. ASSUME UNCHANGED <<context, held>> PROVE VolumeIsOfGlass'
  BY <1>1, <1>2 DEF VolumeIsOfGlass
<1>3. 0 \in BoostValue
  BY OrderAssumption
<1>4. ASSUME NEW r \in Recipe, SelectRecipe(r) PROVE OrderInv'
  <2>1. /\ NavigateTo("detail") /\ chosen' = r /\ slider' = 0
        /\ UNCHANGED <<context, held, making, mixing, uiQueue>>
    BY <1>4 DEF SelectRecipe
  <2>2. ioQueue' \in Seq(Posted) /\ Orders' \subseteq Orders /\ page' = "detail"
    BY <1>1, <2>1, NavigateKeepsOrders
  <2>3. BoostIsTaken' /\ RecipeIsChosen'
    BY <2>1, <2>2 DEF BoostIsTaken, RecipeIsChosen
  <2>4. context' \in [boost : BoostValue, glass : Glass \cup {None}, volume : Nat]
    BY <1>1, <2>1 DEF OrderTypes
  <2> QED
    BY <1>2, <1>3, <2>1, <2>2, <2>3, <2>4, TurnKeepsOrderInv
<1>5. ASSUME UNCHANGED <<page, chosen, ioQueue, making, mixing, uiQueue>>, page = "detail" \/ shown' = shown,
             slider' \in BoostValue, BoostIsTaken', VolumeIsOfGlass',
             context' \in [boost : BoostValue, glass : Glass \cup {None}, volume : Nat]
      PROVE  OrderInv'
  <2>1. ioQueue' \in Seq(Posted) /\ Orders' \subseteq Orders
    BY <1>1, <1>5 DEF OrderTypes, Orders
  <2>2. /\ page' = "mix" /\ ioQueue' = <<>> => page = "mix" /\ ioQueue = <<>> /\ shown' = shown
        /\ RecipeIsChosen'
    BY <1>1, <1>5 DEF RecipeIsChosen
  <2> QED
    BY <1>1, <1>5, <2>1, <2>2, TurnKeepsOrderInv DEF OrderTypes
<1>6. ASSUME NEW b \in BoostValue, MoveSlider(b) \/ RecreatePage PROVE OrderInv'
  <2>1. /\ page = "detail" /\ slider' \in BoostValue
        /\ UNCHANGED <<page, chosen, context, held, ioQueue, making, mixing, uiQueue>>
    BY <1>3, <1>6 DEF MoveSlider, RecreatePage
  <2>2. BoostIsTaken' /\ context' \in [boost : BoostValue, glass : Glass \cup {None}, volume : Nat]
    BY <1>1, <2>1 DEF BoostIsTaken, OrderTypes
  <2> QED
    BY <1>2, <1>5, <2>1, <2>2
<1>7. ASSUME NEW g \in Glass, ChooseGlass(g) PROVE OrderInv'
  <2>1. /\ page = "glass" /\ g \in rows /\ held' = None
        /\ context' = [context EXCEPT !.glass = g, !.volume = OnlyOf(copies[g])]
        /\ UNCHANGED <<page, chosen, shown, slider, ioQueue, making, mixing, uiQueue>>
    BY <1>7 DEF ChooseGlass
  <2>2. OnlyOf(copies[g]) \in copies[g] \cup {0}
    <3>1. Cardinality(copies[g]) = 1 => copies[g] # {}
      BY FS_EmptySet
    <3> QED
      BY <3>1 DEF OnlyOf
  <2>3. copies[g] \subseteq Common[g] /\ Common[g] \subseteq Nat
    BY GlassAssumption DEF GlassInv, OffersAreCommon
  <2>4. /\ context'.boost = context.boost /\ context'.glass = g /\ context'.volume \in copies[g] \cup {0}
        /\ context' \in [boost : BoostValue, glass : Glass \cup {None}, volume : Nat]
    <3>1. PICK v \in copies[g] \cup {0} : context' = [context EXCEPT !.glass = g, !.volume = v]
      BY <2>1, <2>2
    <3>2. v \in Nat
      BY <2>3
    <3> QED
      BY <1>1, <3>1, <3>2 DEF OrderTypes
  <2>5. VolumeIsOfGlass' /\ BoostIsTaken' /\ slider' \in BoostValue
    BY <1>1, <2>1, <2>3, <2>4 DEF VolumeIsOfGlass, BoostIsTaken, OrderTypes
  <2> QED
    BY <1>5, <2>1, <2>4, <2>5
<1>8. ASSUME NEW h \in Glass, NEW v \in Common[h], ChooseVolume(v) PROVE OrderInv'
  <2>1. /\ context.glass # None
        /\ v \in (IF held = None THEN copies[context.glass] ELSE held)
        /\ context' = [context EXCEPT !.volume = v]
        /\ UNCHANGED <<page, chosen, shown, slider, held, ioQueue, making, mixing, uiQueue>>
    BY <1>8 DEF ChooseVolume
  <2>2. context.glass \in Glass /\ v \in Common[context.glass] /\ v \in Nat
    <3>1. context.glass \in Glass
      BY <1>1, <2>1 DEF OrderTypes
    <3> QED
      BY <1>1, <2>1, <3>1, GlassAssumption DEF VolumeIsOfGlass, GlassInv, OffersAreCommon
  <2>3. /\ context'.boost = context.boost /\ context'.glass = context.glass /\ context'.volume = v
        /\ context' \in [boost : BoostValue, glass : Glass \cup {None}, volume : Nat]
    BY <1>1, <2>1, <2>2 DEF OrderTypes
  <2>4. VolumeIsOfGlass' /\ BoostIsTaken' /\ slider' \in BoostValue
    BY <1>1, <2>1, <2>2, <2>3 DEF VolumeIsOfGlass, BoostIsTaken, OrderTypes
  <2> QED
    BY <1>5, <2>1, <2>3, <2>4
<1>9. CASE Zubereiten
  <2>1. CASE OneGlass /\ \E g \in rows, v \in UNION {Common[h] : h \in rows} :
                            context' = [boost |-> slider, glass |-> g, volume |-> v]
    <3>1. PICK g \in rows, v \in UNION {Common[h] : h \in rows} :
            context' = [boost |-> slider, glass |-> g, volume |-> v]
      BY <2>1
    <3>2. g \in Glass /\ v \in Common[g] /\ v \in Nat
      <4>1. rows \subseteq Glass /\ IsFiniteSet(rows)
        BY OrderAssumption, FS_Subset DEF GlassInv, GlassTypes
      <4>2. \E x : rows = {x}
        BY <2>1, <4>1, FS_Singleton DEF OneGlass
      <4> QED
        BY <4>1, <4>2, GlassAssumption
    <3>3. /\ context' \in [boost : BoostValue, glass : Glass, volume : Nat]
          /\ context'.boost = slider /\ context'.volume \in Common[context'.glass]
      BY <1>1, <3>1, <3>2 DEF OrderTypes
    <3>4. CASE ~ProcessActiveRecipe(context')
      BY <1>9, <2>1, <3>4 DEF Zubereiten
    <3>5. CASE ProcessActiveRecipe(context')
      <4>1. page = "detail" /\ held' = None /\ slider' = 0 /\ UNCHANGED <<chosen, shown, making, mixing, uiQueue>>
        BY <1>9, <2>1 DEF Zubereiten
      <4> QED
        BY <3>3, <3>5, <4>1, PlaceKeepsOrderInv
    <3> QED
      BY <3>4, <3>5
  <2>2. CASE ~OneGlass
    <3>1. /\ page = "detail" /\ context' = [context EXCEPT !.boost = slider] /\ NavigateTo("glass")
          /\ UNCHANGED <<chosen, shown, slider, held, making, mixing, uiQueue>>
      BY <1>9, <2>2 DEF Zubereiten
    <3>2. ioQueue' \in Seq(Posted) /\ Orders' \subseteq Orders /\ page' = "glass"
      BY <1>1, <3>1, NavigateKeepsOrders
    <3>3. /\ context'.boost = slider /\ context'.glass = context.glass /\ context'.volume = context.volume
          /\ context' \in [boost : BoostValue, glass : Glass \cup {None}, volume : Nat]
      BY <1>1, <3>1 DEF OrderTypes
    <3>4. /\ BoostIsTaken' /\ RecipeIsChosen' /\ VolumeIsOfGlass'
          /\ chosen' \in Recipe \cup {None} /\ slider' \in BoostValue
      BY <1>1, <3>1, <3>3 DEF BoostIsTaken, RecipeIsChosen, VolumeIsOfGlass, OrderTypes
    <3> QED
      BY <3>1, <3>2, <3>3, <3>4, TurnKeepsOrderInv
  <2> QED
    BY <1>9, <2>1, <2>2 DEF Zubereiten
<1>10. CASE ConfirmGlass
  <2>1. /\ page = "glass" /\ context.glass # None /\ context.volume > 0 /\ ProcessActiveRecipe(context)
        /\ slider' = 0 /\ UNCHANGED <<chosen, shown, context, held, making, mixing, uiQueue>>
    BY <1>10 DEF ConfirmGlass
  <2>2. /\ context \in [boost : BoostValue, glass : Glass, volume : Nat]
        /\ context.boost = slider /\ context.volume \in Common[context.glass]
    BY <1>1, <2>1 DEF OrderTypes, VolumeIsOfGlass, BoostIsTaken
  <2> QED
    BY <2>1, <2>2, PlaceKeepsOrderInv
<1>11. ASSUME NEW target \in {"list", "admin"}, GoTo(target) PROVE OrderInv'
  <2>1. NavigateTo(target) /\ slider' = 0 /\ UNCHANGED <<chosen, shown, context, held, making, mixing, uiQueue>>
    BY <1>11 DEF GoTo
  <2>2. ioQueue' \in Seq(Posted) /\ Orders' \subseteq Orders /\ page' = target
    BY <1>1, <2>1, NavigateKeepsOrders
  <2>3. /\ BoostIsTaken' /\ RecipeIsChosen' /\ chosen' \in Recipe \cup {None}
        /\ context' \in [boost : BoostValue, glass : Glass \cup {None}, volume : Nat]
    BY <1>1, <2>1, <2>2 DEF BoostIsTaken, RecipeIsChosen, OrderTypes
  <2> QED
    BY <1>2, <1>3, <2>1, <2>2, <2>3, TurnKeepsOrderInv
<1> QED
  BY <1>3, <1>4, <1>6, <1>7, <1>8, <1>9, <1>10, <1>11 DEF GuestStep

(* The io thread takes an order, shows what it makes of it, and finishes;  *)
(* the Slint thread shows it.                                              *)
LEMMA ThreadsKeepOrderInv ==
  ASSUME OrderInv, RunClosure \/ HandlePost \/ BeginMix \/ FinishMix
  PROVE  OrderInv'
<1>1. OrderTypes /\ VolumeIsOfGlass /\ BoostIsTaken /\ RecipeIsChosen /\ OrdersAreRight /\ MixIsShown
  BY DEF OrderInv
<1>2. VolumeIsOfGlass' /\ RecipeIsChosen'
  BY <1>1 DEF RunClosure, HandlePost, BeginMix, FinishMix, VolumeIsOfGlass, RecipeIsChosen
<1>3. CASE RunClosure
  <2> DEFINE c == Head(uiQueue)
  <2>1. /\ uiQueue # <<>> /\ uiQueue' = Tail(uiQueue)
        /\ UNCHANGED <<chosen, context, held, ioQueue, making, mixing>>
        /\ \/ c.do = "show" /\ shown' = Prepared(c.order) /\ UNCHANGED <<page, slider>>
           \/ c.do = "done" /\ page' = "success" /\ slider' = 0
    BY <1>3 DEF RunClosure
  <2>2. OrderTypes'
    BY <1>1, <2>1, OrderAssumption DEF OrderTypes
  <2>3. BoostIsTaken' /\ OrdersAreRight'
    BY <1>1, <2>1 DEF BoostIsTaken, OrdersAreRight, Orders
  <2>4. MixIsShown'
    <3> SUFFICES ASSUME mixing
                 PROVE  \/ uiQueue' # <<>> /\ uiQueue'[Len(uiQueue')] = [do |-> "show", order |-> making]
                        \/ uiQueue' = <<>> /\ shown' = Prepared(making)
      BY <2>1 DEF MixIsShown
    <3>1. uiQueue[Len(uiQueue)] = [do |-> "show", order |-> making] /\ uiQueue \in Seq(Shown)
      BY <1>1, <2>1 DEF MixIsShown, OrderTypes
    <3>2. CASE Len(uiQueue) = 1
      <4>1. c = [do |-> "show", order |-> making] /\ uiQueue' = <<>>
        BY <2>1, <3>1, <3>2
      <4>2. c.do = "show" /\ c.order = making
        BY <4>1
      <4> HIDE DEF c
      <4> QED
        BY <2>1, <4>1, <4>2
    <3>3. CASE Len(uiQueue) # 1
      <4>1. /\ Len(uiQueue) \in Nat /\ Len(uiQueue) > 1 /\ Len(uiQueue') = Len(uiQueue) - 1
            /\ \A i \in 1..Len(uiQueue') : uiQueue'[i] = uiQueue[i + 1]
        <5> HIDE DEF c
        <5>1. uiQueue \in Seq(Shown) /\ uiQueue # <<>> /\ uiQueue' = Tail(uiQueue) /\ Len(uiQueue) # 1
          BY <2>1, <3>1, <3>3
        <5>2. Len(uiQueue) \in Nat /\ Len(uiQueue) # 0
          BY <5>1
        <5>3. Len(uiQueue) \in Nat /\ Len(uiQueue) > 1
          <6>1. \A k \in Nat : k # 0 /\ k # 1 => k > 1
            OBVIOUS
          <6> QED
            BY <5>2, <3>3, <6>1, Zenon
        <5>4. Len(uiQueue') = Len(uiQueue) - 1
          BY <5>1
        <5>5. \A i \in 1..Len(uiQueue') : uiQueue'[i] = uiQueue[i + 1]
          BY <5>1
        <5> QED
          BY <5>3, <5>4, <5>5
      <4>2. Len(uiQueue') \in 1..Len(uiQueue') /\ Len(uiQueue') + 1 = Len(uiQueue)
        BY <4>1
      <4>3. uiQueue' # <<>> /\ uiQueue'[Len(uiQueue')] = uiQueue[Len(uiQueue)]
        BY <4>1, <4>2
      <4> QED
        BY <3>1, <4>3
    <3> QED
      BY <3>2, <3>3
  <2> QED
    BY <1>2, <2>2, <2>3, <2>4 DEF OrderInv
<1>4. CASE HandlePost
  <2>1. /\ ioQueue # <<>> /\ ioQueue' = Tail(ioQueue)
        /\ making' = Head(ioQueue).order /\ mixing' = FALSE
        /\ UNCHANGED <<page, chosen, shown, slider, context, held, uiQueue>>
    BY <1>4 DEF HandlePost
  <2>2. /\ ioQueue' \in Seq(Posted) /\ making' = ioQueue[1].order /\ making' \in Order \cup {None}
        /\ 1 \in DOMAIN ioQueue
        /\ \A i \in DOMAIN ioQueue' : i + 1 \in DOMAIN ioQueue /\ ioQueue'[i] = ioQueue[i + 1]
    <3>1. ioQueue \in Seq(Posted) /\ Head(ioQueue) = ioQueue[1] /\ Head(ioQueue) \in Posted
      BY <1>1, <2>1 DEF OrderTypes
    <3>2. Head(ioQueue).order \in Order \cup {None}
      BY <3>1 DEF Posted
    <3>3. /\ ioQueue' \in Seq(Posted) /\ 1 \in DOMAIN ioQueue
          /\ \A i \in DOMAIN ioQueue' : i + 1 \in DOMAIN ioQueue /\ ioQueue'[i] = ioQueue[i + 1]
      BY <2>1, <3>1
    <3> QED
      BY <2>1, <3>1, <3>2, <3>3
  <2>3. Orders' \subseteq Orders
    BY <2>2 DEF Orders
  <2>4. OrderTypes'
    BY <1>1, <2>1, <2>2 DEF OrderTypes
  <2>5. BoostIsTaken' /\ OrdersAreRight' /\ MixIsShown'
    BY <1>1, <2>1, <2>3 DEF BoostIsTaken, OrdersAreRight, MixIsShown
  <2> QED
    BY <1>2, <2>4, <2>5 DEF OrderInv
<1>5. CASE BeginMix
  <2> DEFINE p == [do |-> "show", order |-> making]
  <2>1. /\ making # None /\ mixing' = TRUE /\ uiQueue' = Append(uiQueue, p)
        /\ UNCHANGED <<page, chosen, shown, slider, context, held, ioQueue, making>>
    BY <1>5 DEF BeginMix
  <2>2. p \in Shown
    BY <1>1 DEF OrderTypes, Shown
  <2>3. uiQueue' \in Seq(Shown) /\ uiQueue' # <<>> /\ uiQueue'[Len(uiQueue')] = p
    <3> HIDE DEF p
    <3>1. uiQueue \in Seq(Shown)
      BY <1>1 DEF OrderTypes
    <3> QED
      BY <2>1, <2>2, <3>1
  <2>4. OrderTypes'
    BY <1>1, <2>1, <2>3 DEF OrderTypes
  <2>5. BoostIsTaken' /\ OrdersAreRight' /\ MixIsShown'
    BY <1>1, <2>1, <2>3 DEF BoostIsTaken, OrdersAreRight, Orders, MixIsShown
  <2> QED
    BY <1>2, <2>4, <2>5 DEF OrderInv
<1>6. CASE FinishMix
  <2> DEFINE p == [do |-> "done", order |-> None]
  <2>1. /\ making' = None /\ mixing' = FALSE /\ uiQueue' = Append(uiQueue, p)
        /\ UNCHANGED <<page, chosen, shown, slider, context, held, ioQueue>>
    BY <1>6 DEF FinishMix
  <2>2. p \in Shown
    BY DEF Shown
  <2>3. uiQueue' \in Seq(Shown)
    <3> HIDE DEF p
    <3> QED
      BY <1>1, <2>1, <2>2 DEF OrderTypes
  <2>4. OrderTypes'
    BY <1>1, <2>1, <2>3 DEF OrderTypes
  <2>5. BoostIsTaken' /\ OrdersAreRight' /\ MixIsShown'
    BY <1>1, <2>1 DEF BoostIsTaken, OrdersAreRight, Orders, MixIsShown
  <2> QED
    BY <1>2, <2>4, <2>5 DEF OrderInv
<1> QED
  BY <1>3, <1>4, <1>5, <1>6

LEMMA StepOrder ==
  ASSUME GlassInv, OrderInv, [Ordering]_<<glassVars, orderVars>>
  PROVE  OrderInv'
<1>1. CASE GuestStep /\ UNCHANGED glassVars
  BY <1>1, GuestKeepsOrderInv
<1>2. CASE RunClosure \/ HandlePost \/ BeginMix \/ FinishMix
  BY <1>2, ThreadsKeepOrderInv
<1>3. ASSUME UNCHANGED <<page, chosen, shown, slider, context, ioQueue, making, mixing, uiQueue>>,
             VolumeIsOfGlass'
      PROVE  OrderInv'
  BY <1>3 DEF OrderInv, OrderTypes, BoostIsTaken, RecipeIsChosen, OrdersAreRight, Orders, MixIsShown
<1>4. CASE ConfigureGlasses
  <2>1. /\ UNCHANGED <<page, chosen, shown, slider, context, ioQueue, making, mixing, uiQueue>>
        /\ held' = IF context.glass \in rows \ rows' /\ held = None THEN copies[context.glass] ELSE held
    BY <1>4 DEF ConfigureGlasses
  <2>2. context.glass \in rows => context.glass \in Glass /\ copies[context.glass] \subseteq Common[context.glass]
    BY DEF GlassInv, GlassTypes, OffersAreCommon
  <2>3. VolumeIsOfGlass'
    BY <2>1, <2>2 DEF OrderInv, VolumeIsOfGlass
  <2> QED
    BY <1>3, <2>1, <2>3
<1>5. CASE UNCHANGED orderVars
  BY <1>3, <1>5 DEF orderVars, OrderInv, VolumeIsOfGlass
<1> QED
  BY <1>1, <1>2, <1>4, <1>5 DEF Ordering, OrderNext

LEMMA OrderCorrect == OrderSpec => [](GlassInv /\ OrderInv)
<1>1. Ordering => [GlassNext]_glassVars
  BY DEF Ordering, OrderNext, ConfigureGlasses, GlassNext
<1>2. UNCHANGED <<glassVars, orderVars>> => [GlassNext]_glassVars
  OBVIOUS
<1>3. GlassInv /\ OrderInv /\ [Ordering]_<<glassVars, orderVars>> => GlassInv' /\ OrderInv'
  BY <1>1, <1>2, StepGlass, StepOrder
<1> QED
  BY <1>3, InitGlass, InitOrder, PTL DEF OrderSpec

(* Every order has the boost that the slider showed when it was placed,    *)
(* though the context keeps the boost of the order before.                 *)
THEOREM OrderIsTheChosen == OrderSpec => []MixedAsOrdered
<1>1. OrderInv => MixedAsOrdered
  BY DEF OrderInv, OrdersAreRight, MixedAsOrdered
<1> QED
  BY <1>1, OrderCorrect, PTL

(* Every order has a common volume of its own glass, though glass, volume  *)
(* and the chips of a removed row outlive the guest who chose them.        *)
THEOREM OrderFitsItsGlass == OrderSpec => []VolumeFitsGlass
<1>1. OrderInv => VolumeFitsGlass
  BY DEF OrderInv, OrdersAreRight, VolumeFitsGlass
<1> QED
  BY <1>1, OrderCorrect, PTL

(* A mix page on which both threads have caught up shows the amounts that  *)
(* are being poured, whatever was aborted and ordered before.              *)
THEOREM PageShowsTheMix == OrderSpec => []MixPageShowsTheMix
<1>1. OrderInv => MixPageShowsTheMix
  BY DEF OrderInv, MixIsShown, MixPageShowsTheMix
<1> QED
  BY <1>1, OrderCorrect, PTL
-----------------------------------------------------------------------------
LEMMA ContentIsDrink ==
  ASSUME NEW r \in Recipe
  PROVE  /\ Content[r].nominal \in Nat \ {0} /\ Content[r].ml \in Seq(Nat)
         /\ IsDrink(Pure(Content[r])) /\ Pure(Content[r]).ml = Content[r].ml /\ Pure(Content[r]).per = 1
         /\ IsCategorised(Content[r].ml, Content[r].category)
<1>1. /\ Content[r].nominal \in Nat \ {0} /\ Content[r].ml \in Seq(Nat)
      /\ IsCategorised(Content[r].ml, Content[r].category)
  BY ContentAssumption DEF IsCategorised, Category
<1>2. Pure(Content[r]).ml = Content[r].ml /\ Pure(Content[r]).per = 1
  BY DEF Pure, Drink
<1>3. Pure(Content[r]) = Drink(Pure(Content[r]).ml, Pure(Content[r]).per)
  BY <1>2 DEF Pure
<1> QED
  BY <1>1, <1>2, <1>3 DEF IsDrink

(* What is poured for an order, in the terms of RecipeArithmetic.          *)
LEMMA PreparedDrink ==
  ASSUME NEW o \in Order
  PROVE  LET d == Prepared(o)
             r == Content[o.recipe]
         IN  /\ IsDrink(d)
             /\ TotalOf(d.ml) * r.nominal = (TotalOf(r.ml) * o.volume) * d.per
             /\ SameDrink(d, Scale(Boosted(o.recipe, o.boost), r.nominal, o.volume))
<1> DEFINE r == Content[o.recipe]
           p == Pure(r)
           s == Scale(p, r.nominal, o.volume)
           d == Boost(s, r.category, o.boost)
<1>1. o.recipe \in Recipe /\ o.volume \in Nat /\ o.boost \in -FullBoost..FullBoost
  BY OrderAssumption DEF Order
<1>2. /\ r.nominal \in Nat \ {0} /\ r.ml \in Seq(Nat) /\ IsDrink(p) /\ p.ml = r.ml /\ p.per = 1
      /\ IsCategorised(r.ml, r.category)
  BY <1>1, ContentIsDrink
<1>3. SameDrink(d, Scale(Boost(p, r.category, o.boost), r.nominal, o.volume))
  <2> HIDE DEF p, r
  <2> QED
    BY <1>1, <1>2, ScaleAndBoostCommute
<1>4. /\ IsDrink(s) /\ DOMAIN s.ml = DOMAIN r.ml /\ s.per = r.nominal
      /\ TotalOf(s.ml) = TotalOf(r.ml) * o.volume
  <2>1. /\ IsDrink(s) /\ s.ml = Scaled(p.ml, o.volume) /\ s.per = p.per * r.nominal
        /\ DOMAIN s.ml = DOMAIN p.ml
    <3> HIDE DEF p, r
    <3> QED
      BY <1>1, <1>2, ScaledDrink
  <2>2. TotalOf(Scaled(r.ml, o.volume)) = TotalOf(r.ml) * o.volume
    BY <1>1, <1>2, ScaledTotal
  <2> HIDE DEF s, p
  <2> QED
    BY <1>2, <2>1, <2>2
<1>5. IsCategorised(s.ml, r.category)
  BY <1>2, <1>4 DEF IsCategorised
<1>6. IsDrink(d) /\ TotalOf(d.ml) * s.per = TotalOf(s.ml) * d.per
  <2> HIDE DEF s, r
  <2> QED
    BY <1>1, <1>4, <1>5, BoostKeepsTheVolume
<1>7. d = Prepared(o)
  BY DEF Prepared
<1> HIDE DEF d, s
<1>8. TotalOf(d.ml) * r.nominal = (TotalOf(r.ml) * o.volume) * d.per
  BY <1>4, <1>6
<1> QED
  BY <1>3, <1>6, <1>7, <1>8 DEF Boosted

LEMMA MixedOrder == OrderInv /\ mixing => making \in Order
BY DEF OrderInv, OrderTypes

(* Every drink that is mixed fills its glass as far as the recipe fills    *)
(* its nominal serving, whatever the recipe, the glass and the boost, and  *)
(* no command asks for a negative volume.                                  *)
THEOREM EveryDrinkIsWhole == OrderSpec => []DrinkIsWhole
<1>1. OrderInv => DrinkIsWhole
  <2> SUFFICES ASSUME OrderInv, mixing
               PROVE  LET d == Prepared(making) r == Content[making.recipe]
                      IN  /\ TotalOf(d.ml) * r.nominal = TotalOf(r.ml) * making.volume * d.per
                          /\ \A i \in DOMAIN d.ml : d.ml[i] >= 0
    BY DEF DrinkIsWhole
  <2> DEFINE d == Prepared(making)
             r == Content[making.recipe]
  <2>1. IsDrink(d) /\ TotalOf(d.ml) * r.nominal = (TotalOf(r.ml) * making.volume) * d.per
    BY MixedOrder, PreparedDrink
  <2> HIDE DEF d, r
  <2>2. \A i \in DOMAIN d.ml : d.ml[i] >= 0
    BY <2>1, SeqOfVolumes DEF IsDrink
  <2> QED
    BY <2>1, <2>2 DEF d, r
<1> QED
  BY <1>1, OrderCorrect, PTL

(* What is poured is the drink of the detail page, scaled to the glass:    *)
(* boosting before and after the scaling come to the same, for every order.*)
THEOREM EveryMixIsTheChosenDrink == OrderSpec => []MixIsTheChosenDrink
<1>1. OrderInv => MixIsTheChosenDrink
  BY MixedOrder, PreparedDrink DEF MixIsTheChosenDrink
<1> QED
  BY <1>1, OrderCorrect, PTL
=============================================================================
