-------------------------- MODULE RecipeArithmetic --------------------------
(***************************************************************************)
(* Scaling and boosting of a recipe (cocktail-maker/recipe_scale.cppm,     *)
(* recipe_boost.cppm).  A recipe is the sequence of its dispense commands: *)
(* both functions walk the tree of parallel groups leaf by leaf and copy   *)
(* manual commands.  The factors are doubles in the code and exact         *)
(* fractions here, with one denominator for the whole drink.               *)
(***************************************************************************)
EXTENDS Integers, Sequences

CONSTANT FullBoost   \* 100 %, in the steps of the slider that are modelled

ASSUME BoostAssumption == FullBoost \in Nat \ {0}

(* A drink pours ml[i] / per of the i-th command of its recipe.            *)
Drink(ml, per) == [ml |-> ml, per |-> per]
Pure(recipe) == Drink(recipe.ml, 1)

(* fold_commands(): from the first command to the last.                    *)
TotalOf(ml) ==
  LET sum[i \in 0..Len(ml)] == IF i = 0 THEN 0 ELSE sum[i - 1] + ml[i]
  IN  sum[Len(ml)]

VolumeOf(recipe, category) ==
  TotalOf([i \in DOMAIN recipe.ml |-> IF recipe.category[i] = category THEN recipe.ml[i] ELSE 0])

(* scale_recipe(): every volume times target / nominal.                    *)
Scale(drink, nominal, target) ==
  Drink([i \in DOMAIN drink.ml |-> drink.ml[i] * target], drink.per * nominal)

(* Mutant: a negative boost takes more than it gives. *)
ScaleFactors_Lopsided(b, vb, vr) ==
  CASE b >= 0 /\ vb > 0 -> [boostable |-> FullBoost * vb + b * vr, reducible |-> (FullBoost - b) * vb, per |-> FullBoost * vb]
    [] b < 0 /\ vr > 0  -> [boostable |-> (FullBoost + b) * vr, reducible |-> FullBoost * vr - b * vr, per |-> FullBoost * vr]
    [] OTHER            -> [boostable |-> 1, reducible |-> 1, per |-> 1]

(* compute_scale_factors(): p times the one category moves to the other,   *)
(* unless that one is empty.                                               *)
ScaleFactors(b, vb, vr) ==
  CASE b >= 0 /\ vb > 0 -> [boostable |-> FullBoost * vb + b * vr, reducible |-> (FullBoost - b) * vb, per |-> FullBoost * vb]
    [] b < 0 /\ vr > 0  -> [boostable |-> (FullBoost + b) * vr, reducible |-> FullBoost * vr - b * vb, per |-> FullBoost * vr]
    [] OTHER            -> [boostable |-> 1, reducible |-> 1, per |-> 1]

(* boost_recipe().  The category of a command is that of its ingredient.   *)
Boost(drink, category, b) ==
  LET of(c) == VolumeOf([ml |-> drink.ml, category |-> category], c)
      f == ScaleFactors(b, of("boostable"), of("reducible"))
  IN Drink([i \in DOMAIN drink.ml |->
              drink.ml[i] * (IF category[i] = "fixed" THEN f.per ELSE f[category[i]])],
           drink.per * f.per)

IsBoostable(recipe) == {"boostable", "reducible"} \subseteq {recipe.category[i] : i \in DOMAIN recipe.ml}
-----------------------------------------------------------------------------
(* The same volumes, whatever the denominators.                            *)
SameDrink(d, e) ==
  DOMAIN d.ml = DOMAIN e.ml /\ \A i \in DOMAIN d.ml : d.ml[i] * e.per = e.ml[i] * d.per
=============================================================================
