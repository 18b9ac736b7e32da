---------------------- MODULE RecipeArithmetic_proofs ----------------------
(***************************************************************************)
(* What a boost moves is neither lost nor owed, for every recipe, glass    *)
(* and position of the slider, and it does not matter whether the recipe   *)
(* is scaled or boosted first.                                             *)
(***************************************************************************)
EXTENDS RecipeArithmetic, WellFoundedInduction, TLAPS

Below == {pair \in Nat \X Nat : pair[1] < pair[2]}

LEMMA BelowIsWellFounded == IsWellFoundedOn(Below, Nat)
BY NatLessThanWellFounded, Zenon DEF OpToRel, Below

(* Induction over the commands of a recipe: a set of numbers that has 0    *)
(* and the successor of each of its numbers has them all.                  *)
LEMMA NatSetInduction ==
  ASSUME NEW S, 0 \in S, \A n \in Nat : n \in S => n + 1 \in S
  PROVE  \A n \in Nat : n \in S
<1> DEFINE T == {n \in Nat : n \notin S}
<1> SUFFICES ASSUME T # {} PROVE FALSE
  OBVIOUS
<1>1. PICK least \in T : \A n \in T : <<n, least>> \notin Below
  <2> HIDE DEF T
  <2>1. T \subseteq Nat
    BY DEF T
  <2> QED
    BY BelowIsWellFounded, <2>1, WFMin
<1>2. least \in Nat /\ least - 1 \in Nat /\ least - 1 < least /\ (least - 1) + 1 = least
  OBVIOUS
<1>3. <<least - 1, least>> \in Below
  BY <1>2 DEF Below
<1>4. least - 1 \in S
  BY <1>1, <1>2, <1>3
<1>5. least \in S
  BY <1>2, <1>4
<1> QED
  BY <1>5
-----------------------------------------------------------------------------
(* The running total of ml up to its n-th command.                         *)
RunsTo(sum, ml, n) == sum = [i \in 0..n |-> IF i = 0 THEN 0 ELSE sum[i - 1] + ml[i]]
Running(ml) == CHOOSE sum : RunsTo(sum, ml, Len(ml))

LEMMA RunningExists ==
  ASSUME NEW ml, NEW n \in Nat
  PROVE  \E sum : RunsTo(sum, ml, n)
<1> DEFINE S == {m \in Nat : \E sum : RunsTo(sum, ml, m)}
<1>1. 0 \in S
  <2> DEFINE sum == [i \in 0..0 |-> 0]
  <2>1. RunsTo(sum, ml, 0)
    BY DEF RunsTo
  <2> HIDE DEF sum
  <2> QED
    BY <2>1
<1>2. ASSUME NEW m \in Nat, m \in S PROVE m + 1 \in S
  <2>1. PICK f : RunsTo(f, ml, m)
    BY <1>2
  <2> DEFINE g == [i \in 0..(m + 1) |-> IF i = m + 1 THEN f[m] + ml[m + 1] ELSE f[i]]
  <2>2. \A i \in 0..(m + 1) : g[i] = IF i = 0 THEN 0 ELSE g[i - 1] + ml[i]
    BY <2>1 DEF RunsTo
  <2>3. g = [i \in 0..(m + 1) |-> IF i = 0 THEN 0 ELSE g[i - 1] + ml[i]]
    BY <2>2, Zenon
  <2> HIDE DEF g
  <2>4. RunsTo(g, ml, m + 1)
    BY <2>3 DEF RunsTo
  <2> QED
    BY <2>4
<1> HIDE DEF S
<1>3. n \in S
  BY <1>1, <1>2, NatSetInduction
<1> QED
  BY <1>3 DEF S

LEMMA RunningTotal ==
  ASSUME NEW ml, Len(ml) \in Nat
  PROVE  /\ TotalOf(ml) = Running(ml)[Len(ml)] /\ Running(ml)[0] = 0
         /\ \A i \in 1..Len(ml) : Running(ml)[i] = Running(ml)[i - 1] + ml[i]
<1>1. RunsTo(Running(ml), ml, Len(ml))
  BY RunningExists, Zenon DEF Running
<1>2. TotalOf(ml) = Running(ml)[Len(ml)]
  BY Zenon DEF TotalOf, Running, RunsTo
<1> HIDE DEF Running
<1>3. /\ Running(ml)[0] = 0
      /\ \A i \in 1..Len(ml) : Running(ml)[i] = Running(ml)[i - 1] + ml[i]
  BY <1>1 DEF RunsTo
<1> QED
  BY <1>2, <1>3
-----------------------------------------------------------------------------

LEMMA TotalIsNat ==
  ASSUME NEW ml \in Seq(Nat)
  PROVE  TotalOf(ml) \in Nat /\ \A i \in 0..Len(ml) : Running(ml)[i] \in Nat
<1> DEFINE S == {i \in Nat : i <= Len(ml) => Running(ml)[i] \in Nat}
<1>1. Len(ml) \in Nat /\ \A i \in 1..Len(ml) : ml[i] \in Nat
  OBVIOUS
<1>2. 0 \in S
  BY <1>1, RunningTotal
<1>3. ASSUME NEW i \in Nat, i \in S PROVE i + 1 \in S
  <2> SUFFICES ASSUME i + 1 <= Len(ml) PROVE Running(ml)[i + 1] \in Nat
    OBVIOUS
  <2>1. i + 1 \in 1..Len(ml) /\ (i + 1) - 1 = i /\ Running(ml)[i] \in Nat
    BY <1>1, <1>3
  <2>2. Running(ml)[i + 1] = Running(ml)[i] + ml[i + 1]
    BY <1>1, <2>1, RunningTotal
  <2> QED
    BY <1>1, <2>1, <2>2
<1> HIDE DEF S
<1>4. \A i \in Nat : i \in S
  BY <1>2, <1>3, NatSetInduction
<1> QED
  BY <1>1, <1>4, RunningTotal DEF S

(* Each command of d takes x times that of a, y that of b and z that of c. *)
IsMixOf(d, x, a, y, b, z, c) ==
  /\ x \in Nat /\ y \in Nat /\ z \in Nat
  /\ a \in Seq(Nat) /\ b \in Seq(Nat) /\ c \in Seq(Nat) /\ d \in Seq(Nat)
  /\ Len(a) = Len(d) /\ Len(b) = Len(d) /\ Len(c) = Len(d)
  /\ \A i \in 1..Len(d) : d[i] = x * a[i] + y * b[i] + z * c[i]

(* Then so does the total.                                                 *)
LEMMA TotalIsLinear ==
  ASSUME NEW a, NEW b, NEW c, NEW d, NEW x, NEW y, NEW z, IsMixOf(d, x, a, y, b, z, c)
  PROVE  TotalOf(d) = x * TotalOf(a) + y * TotalOf(b) + z * TotalOf(c)
<1> SUFFICES ASSUME x \in Nat, y \in Nat, z \in Nat,
                    a \in Seq(Nat), b \in Seq(Nat), c \in Seq(Nat), d \in Seq(Nat),
                    Len(a) = Len(d), Len(b) = Len(d), Len(c) = Len(d),
                    \A i \in 1..Len(d) : d[i] = x * a[i] + y * b[i] + z * c[i]
             PROVE  TotalOf(d) = x * TotalOf(a) + y * TotalOf(b) + z * TotalOf(c)
  BY DEF IsMixOf
<1> DEFINE mixed(i) == x * Running(a)[i] + y * Running(b)[i] + z * Running(c)[i]
           S == {i \in Nat : i <= Len(d) => Running(d)[i] = mixed(i)}
<1>0. \A ml \in Seq(Nat) : Len(ml) \in Nat /\ \A i \in 1..Len(ml) : ml[i] \in Nat
  OBVIOUS
<1>1. /\ Len(a) \in Nat /\ Len(b) \in Nat /\ Len(c) \in Nat /\ Len(d) \in Nat
      /\ \A i \in 1..Len(d) : a[i] \in Nat /\ b[i] \in Nat /\ c[i] \in Nat
  BY <1>0, Zenon
<1>2. 0 \in S
  <2>1. Running(a)[0] = 0 /\ Running(b)[0] = 0 /\ Running(c)[0] = 0 /\ Running(d)[0] = 0
    BY <1>1, RunningTotal
  <2> QED
    BY <2>1
<1>3. ASSUME NEW i \in Nat, i \in S PROVE i + 1 \in S
  <2> SUFFICES ASSUME i + 1 <= Len(d) PROVE Running(d)[i + 1] = mixed(i + 1)
    OBVIOUS
  <2>1. i + 1 \in 1..Len(d) /\ (i + 1) - 1 = i /\ i \in 0..Len(d) /\ Running(d)[i] = mixed(i)
    BY <1>1, <1>3
  <2>2. /\ Running(a)[i + 1] = Running(a)[i] + a[i + 1] /\ Running(b)[i + 1] = Running(b)[i] + b[i + 1]
        /\ Running(c)[i + 1] = Running(c)[i] + c[i + 1] /\ Running(d)[i + 1] = Running(d)[i] + d[i + 1]
    BY <1>1, <2>1, RunningTotal
  <2>3. Running(a)[i] \in Nat /\ Running(b)[i] \in Nat /\ Running(c)[i] \in Nat
    BY <2>1, TotalIsNat
  <2>4. a[i + 1] \in Nat /\ b[i + 1] \in Nat /\ c[i + 1] \in Nat
    BY <1>1, <2>1
  <2>5. d[i + 1] = x * a[i + 1] + y * b[i + 1] + z * c[i + 1]
    BY <2>1
  <2>6. PICK A \in Nat, B \in Nat, C \in Nat, p \in Nat, q \in Nat, r \in Nat :
          /\ A = Running(a)[i] /\ B = Running(b)[i] /\ C = Running(c)[i]
          /\ p = a[i + 1] /\ q = b[i + 1] /\ r = c[i + 1]
    BY <2>3, <2>4, Zenon
  <2>7. Running(d)[i + 1] = (x * A + y * B + z * C) + (x * p + y * q + z * r)
    BY <2>1, <2>2, <2>5, <2>6, Zenon
  <2>8. (x * A + y * B + z * C) + (x * p + y * q + z * r) = x * (A + p) + y * (B + q) + z * (C + r)
    OBVIOUS
  <2> QED
    BY <2>2, <2>6, <2>7, <2>8, Zenon
<1> HIDE DEF S
<1>4. Len(d) \in S
  BY <1>1, <1>2, <1>3, NatSetInduction
<1>5. Running(d)[Len(d)] = mixed(Len(d))
  BY <1>1, <1>4 DEF S
<1> QED
  BY <1>1, <1>5, RunningTotal
-----------------------------------------------------------------------------
(* The drink of the two categories that are scaled is as large as before.  *)
Conserves(f, vb, vr) == f.boostable * vb + f.reducible * vr = f.per * (vb + vr)

(* No category gets a negative volume.                                     *)
IsPossible(f) == f.per \in Nat \ {0} /\ f.boostable \in Nat /\ f.reducible \in Nat

LEMMA StrongerFactors ==
  ASSUME NEW b \in Nat, b <= FullBoost, NEW vb \in Nat \ {0}, NEW vr \in Nat
  PROVE  Conserves(ScaleFactors(b, vb, vr), vb, vr) /\ IsPossible(ScaleFactors(b, vb, vr))
<1> DEFINE f == ScaleFactors(b, vb, vr)
<1>1. f = [boostable |-> FullBoost * vb + b * vr, reducible |-> (FullBoost - b) * vb, per |-> FullBoost * vb]
  BY DEF ScaleFactors
<1>2. /\ FullBoost \in Nat \ {0} /\ FullBoost * vb \in Nat \ {0}
      /\ b * vr \in Nat /\ (FullBoost - b) * vb \in Nat
  BY BoostAssumption
<1>3. (FullBoost * vb + b * vr) * vb + ((FullBoost - b) * vb) * vr = (FullBoost * vb) * (vb + vr)
  BY <1>2
<1> QED
  BY <1>1, <1>2, <1>3 DEF Conserves, IsPossible

LEMMA MilderFactors ==
  ASSUME NEW b \in Int, b < 0, -b <= FullBoost, NEW vb \in Nat, NEW vr \in Nat \ {0}
  PROVE  Conserves(ScaleFactors(b, vb, vr), vb, vr) /\ IsPossible(ScaleFactors(b, vb, vr))
<1> DEFINE f == ScaleFactors(b, vb, vr)
<1>1. f = [boostable |-> (FullBoost + b) * vr, reducible |-> FullBoost * vr - b * vb, per |-> FullBoost * vr]
  BY DEF ScaleFactors
<1>2. /\ FullBoost \in Nat \ {0} /\ FullBoost * vr \in Nat \ {0}
      /\ -b * vb \in Nat /\ (FullBoost + b) * vr \in Nat
  BY BoostAssumption
<1>3. ((FullBoost + b) * vr) * vb + (FullBoost * vr - b * vb) * vr = (FullBoost * vr) * (vb + vr)
  BY <1>2
<1> QED
  BY <1>1, <1>2, <1>3 DEF Conserves, IsPossible

(* "Total volume is conserved by construction": compute_scale_factors()    *)
(* moves volume between the two categories, in either direction, up to the *)
(* ends of the slider, and leaves a drink alone that has nowhere to move   *)
(* it to.                                                                  *)
THEOREM FactorsAreSound ==
  \A b \in -FullBoost..FullBoost, vb, vr \in Nat :
    Conserves(ScaleFactors(b, vb, vr), vb, vr) /\ IsPossible(ScaleFactors(b, vb, vr))
<1> SUFFICES ASSUME NEW b \in -FullBoost..FullBoost, NEW vb \in Nat, NEW vr \in Nat
             PROVE  Conserves(ScaleFactors(b, vb, vr), vb, vr) /\ IsPossible(ScaleFactors(b, vb, vr))
  OBVIOUS
<1>1. b \in Int /\ b <= FullBoost /\ -b <= FullBoost
  BY BoostAssumption
<1>2. CASE b >= 0 /\ vb > 0
  BY <1>1, <1>2, StrongerFactors
<1>3. CASE b < 0 /\ vr > 0
  BY <1>1, <1>3, MilderFactors
<1>4. CASE (b >= 0 /\ vb = 0) \/ (b < 0 /\ vr = 0)
  <2>1. ScaleFactors(b, vb, vr) = [boostable |-> 1, reducible |-> 1, per |-> 1]
    BY <1>1, <1>4 DEF ScaleFactors
  <2> QED
    BY <2>1 DEF Conserves, IsPossible
<1> QED
  BY <1>1, <1>2, <1>3, <1>4
-----------------------------------------------------------------------------
Category == {"boostable", "reducible", "fixed"}

(* What the code can read: volumes that are not negative, one category for *)
(* each command.                                                           *)
IsDrink(d) == d = Drink(d.ml, d.per) /\ d.ml \in Seq(Nat) /\ d.per \in Nat \ {0}
IsCategorised(ml, category) == \A i \in DOMAIN ml : category[i] \in Category

Part(ml, category, c) == [i \in DOMAIN ml |-> IF category[i] = c THEN ml[i] ELSE 0]
Scaled(ml, target) == [i \in DOMAIN ml |-> ml[i] * target]
Of(ml, category, c) == TotalOf(Part(ml, category, c))

LEMMA SeqOfVolumes ==
  ASSUME NEW ml \in Seq(Nat)
  PROVE  Len(ml) \in Nat /\ DOMAIN ml = 1..Len(ml) /\ \A i \in 1..Len(ml) : ml[i] \in Nat
OBVIOUS

LEMMA SeqOfAsMany ==
  ASSUME NEW n \in Nat, NEW s, DOMAIN s = 1..n, s = [i \in 1..n |-> s[i]], \A i \in 1..n : s[i] \in Nat
  PROVE  s \in Seq(Nat) /\ Len(s) = n
OBVIOUS

LEMMA PartIsSeq ==
  ASSUME NEW ml \in Seq(Nat), NEW category, NEW c
  PROVE  /\ Part(ml, category, c) \in Seq(Nat) /\ Len(Part(ml, category, c)) = Len(ml)
         /\ Of(ml, category, c) \in Nat
<1> DEFINE part == Part(ml, category, c)
<1>1. /\ DOMAIN part = 1..Len(ml) /\ part = [i \in 1..Len(ml) |-> part[i]]
      /\ \A i \in 1..Len(ml) : part[i] \in Nat
  BY SeqOfVolumes DEF Part
<1> HIDE DEF part
<1>2. part \in Seq(Nat) /\ Len(part) = Len(ml)
  BY <1>1, SeqOfVolumes, SeqOfAsMany
<1> QED
  BY <1>2, TotalIsNat DEF Of, part

LEMMA ScaledIsSeq ==
  ASSUME NEW ml \in Seq(Nat), NEW target \in Nat
  PROVE  Scaled(ml, target) \in Seq(Nat) /\ Len(Scaled(ml, target)) = Len(ml)
<1> DEFINE s == Scaled(ml, target)
<1>1. /\ DOMAIN s = 1..Len(ml) /\ s = [i \in 1..Len(ml) |-> s[i]]
      /\ \A i \in 1..Len(ml) : s[i] \in Nat
  BY SeqOfVolumes DEF Scaled
<1> HIDE DEF s
<1>2. s \in Seq(Nat) /\ Len(s) = Len(ml)
  BY <1>1, SeqOfVolumes, SeqOfAsMany
<1> QED
  BY <1>2 DEF s

(* Scaling the commands scales what they add up to.                        *)
LEMMA ScaledTotal ==
  ASSUME NEW ml \in Seq(Nat), NEW target \in Nat
  PROVE  TotalOf(Scaled(ml, target)) = TotalOf(ml) * target
<1> DEFINE s == Scaled(ml, target)
<1>1. \A i \in 1..Len(ml) : s[i] = ml[i] * target /\ ml[i] \in Nat
  BY SeqOfVolumes DEF Scaled
<1> HIDE DEF s
<1>2. s \in Seq(Nat) /\ Len(s) = Len(ml)
  BY ScaledIsSeq DEF s
<1>3. \A i \in 1..Len(s) : s[i] = target * ml[i] + 0 * ml[i] + 0 * ml[i]
  <2> SUFFICES ASSUME NEW i \in 1..Len(ml) PROVE s[i] = target * ml[i] + 0 * ml[i] + 0 * ml[i]
    BY <1>2
  <2> QED
    BY <1>1
<1>4. TotalOf(s) = target * TotalOf(ml) + 0 * TotalOf(ml) + 0 * TotalOf(ml)
  <2>1. IsMixOf(s, target, ml, 0, ml, 0, ml)
    BY <1>2, <1>3 DEF IsMixOf
  <2> QED
    BY <2>1, TotalIsLinear
<1>5. TotalOf(ml) \in Nat
  BY TotalIsNat
<1> QED
  BY <1>4, <1>5 DEF s

LEMMA ScaledOf ==
  ASSUME NEW ml \in Seq(Nat), NEW target \in Nat, NEW category, NEW c
  PROVE  Of(Scaled(ml, target), category, c) = Of(ml, category, c) * target
<1>1. Part(Scaled(ml, target), category, c) = Scaled(Part(ml, category, c), target)
  BY SeqOfVolumes DEF Part, Scaled
<1> QED
  BY <1>1, PartIsSeq, ScaledTotal DEF Of

(* The categories make up the drink.                                       *)
LEMMA PartsMakeTheWhole ==
  ASSUME NEW ml \in Seq(Nat), NEW category, IsCategorised(ml, category)
  PROVE  TotalOf(ml) = Of(ml, category, "boostable") + Of(ml, category, "reducible") + Of(ml, category, "fixed")
<1> DEFINE p(c) == Part(ml, category, c)
<1>1. \A i \in 1..Len(ml) : ml[i] = 1 * p("boostable")[i] + 1 * p("reducible")[i] + 1 * p("fixed")[i]
  BY SeqOfVolumes DEF Part, IsCategorised, Category
<1>2. /\ p("boostable") \in Seq(Nat) /\ p("reducible") \in Seq(Nat) /\ p("fixed") \in Seq(Nat)
      /\ Len(p("boostable")) = Len(ml) /\ Len(p("reducible")) = Len(ml) /\ Len(p("fixed")) = Len(ml)
  BY PartIsSeq
<1>3. TotalOf(ml) = 1 * TotalOf(p("boostable")) + 1 * TotalOf(p("reducible")) + 1 * TotalOf(p("fixed"))
  <2> HIDE DEF p
  <2> QED
    <3>1. IsMixOf(ml, 1, p("boostable"), 1, p("reducible"), 1, p("fixed"))
      BY <1>1, <1>2 DEF IsMixOf
    <3> QED
      BY <3>1, TotalIsLinear
<1>4. /\ Of(ml, category, "boostable") \in Nat /\ Of(ml, category, "reducible") \in Nat
      /\ Of(ml, category, "fixed") \in Nat
  BY PartIsSeq
<1> QED
  BY <1>3, <1>4 DEF Of
-----------------------------------------------------------------------------
FactorsOf(ml, category, b) == ScaleFactors(b, Of(ml, category, "boostable"), Of(ml, category, "reducible"))
BoostedMl(ml, category, f) ==
  [i \in DOMAIN ml |-> ml[i] * (IF category[i] = "fixed" THEN f.per ELSE f[category[i]])]

LEMMA BoostIs ==
  ASSUME NEW d, NEW category, NEW b
  PROVE  LET f == FactorsOf(d.ml, category, b) IN Boost(d, category, b) = Drink(BoostedMl(d.ml, category, f), d.per * f.per)
<1> DEFINE r == [ml |-> d.ml, category |-> category]
<1>1. r.ml = d.ml /\ r.category = category
  OBVIOUS
<1> HIDE DEF r
<1>2. \A c : VolumeOf(r, c) = Of(d.ml, category, c)
  BY <1>1 DEF VolumeOf, Of, Part
<1>3. FactorsOf(d.ml, category, b) = ScaleFactors(b, VolumeOf(r, "boostable"), VolumeOf(r, "reducible"))
  BY <1>2 DEF FactorsOf
<1> QED
  BY <1>3, Zenon DEF Boost, BoostedMl, r

LEMMA BoostedIsSeq ==
  ASSUME NEW ml \in Seq(Nat), NEW category, IsCategorised(ml, category), NEW f, IsPossible(f)
  PROVE  /\ BoostedMl(ml, category, f) \in Seq(Nat) /\ Len(BoostedMl(ml, category, f)) = Len(ml)
         /\ \A i \in 1..Len(ml) :
              BoostedMl(ml, category, f)[i] =
                f.boostable * Part(ml, category, "boostable")[i]
                  + f.reducible * Part(ml, category, "reducible")[i]
                  + f.per * Part(ml, category, "fixed")[i]
<1> DEFINE s == BoostedMl(ml, category, f)
<1>1. /\ DOMAIN s = 1..Len(ml) /\ s = [i \in 1..Len(ml) |-> s[i]]
  BY SeqOfVolumes DEF BoostedMl
<1>2. ASSUME NEW i \in 1..Len(ml)
      PROVE  /\ s[i] \in Nat
             /\ s[i] = f.boostable * Part(ml, category, "boostable")[i]
                         + f.reducible * Part(ml, category, "reducible")[i]
                         + f.per * Part(ml, category, "fixed")[i]
  <2> DEFINE p(c) == Part(ml, category, c)[i]
  <2>1. ml[i] \in Nat /\ i \in DOMAIN ml /\ category[i] \in Category
    BY SeqOfVolumes DEF IsCategorised
  <2>2. \A c : p(c) = IF category[i] = c THEN ml[i] ELSE 0
    BY <2>1 DEF Part
  <2>3. CASE category[i] = "fixed"
    <3>1. s[i] = ml[i] * f.per /\ p("boostable") = 0 /\ p("reducible") = 0 /\ p("fixed") = ml[i]
      BY <2>1, <2>2, <2>3 DEF BoostedMl
    <3> QED
      BY <2>1, <3>1 DEF IsPossible
  <2>4. CASE category[i] = "boostable"
    <3>1. s[i] = ml[i] * f.boostable /\ p("boostable") = ml[i] /\ p("reducible") = 0 /\ p("fixed") = 0
      BY <2>1, <2>2, <2>4 DEF BoostedMl
    <3> QED
      BY <2>1, <3>1 DEF IsPossible
  <2>5. CASE category[i] = "reducible"
    <3>1. s[i] = ml[i] * f.reducible /\ p("boostable") = 0 /\ p("reducible") = ml[i] /\ p("fixed") = 0
      BY <2>1, <2>2, <2>5 DEF BoostedMl
    <3> QED
      BY <2>1, <3>1 DEF IsPossible
  <2> QED
    BY <2>1, <2>3, <2>4, <2>5 DEF Category
<1> HIDE DEF s
<1>3. s \in Seq(Nat) /\ Len(s) = Len(ml)
  BY <1>1, <1>2, SeqOfVolumes, SeqOfAsMany
<1> QED
  BY <1>2, <1>3 DEF s

(* The factors of the boost leave the whole as large as it was.            *)
LEMMA BoostedTotal ==
  ASSUME NEW ml \in Seq(Nat), NEW category, IsCategorised(ml, category), NEW b \in -FullBoost..FullBoost
  PROVE  LET f == FactorsOf(ml, category, b) IN
         IsPossible(f) /\ TotalOf(BoostedMl(ml, category, f)) = f.per * TotalOf(ml)
<1> DEFINE f == FactorsOf(ml, category, b)
           vb == Of(ml, category, "boostable")
           vr == Of(ml, category, "reducible")
           vf == Of(ml, category, "fixed")
<1>1. vb \in Nat /\ vr \in Nat /\ vf \in Nat
  BY PartIsSeq
<1>2. Conserves(f, vb, vr) /\ IsPossible(f)
  BY <1>1, FactorsAreSound DEF FactorsOf
<1> HIDE DEF f
<1>3. IsMixOf(BoostedMl(ml, category, f), f.boostable, Part(ml, category, "boostable"),
              f.reducible, Part(ml, category, "reducible"), f.per, Part(ml, category, "fixed"))
  <2> DEFINE s == BoostedMl(ml, category, f)
             p(c) == Part(ml, category, c)
  <2>1. /\ s \in Seq(Nat) /\ Len(s) = Len(ml)
        /\ \A i \in 1..Len(ml) : s[i] = f.boostable * p("boostable")[i] + f.reducible * p("reducible")[i]
                                          + f.per * p("fixed")[i]
    BY <1>2, BoostedIsSeq
  <2>2. \A c : p(c) \in Seq(Nat) /\ Len(p(c)) = Len(ml)
    BY PartIsSeq
  <2>3. f.boostable \in Nat /\ f.reducible \in Nat /\ f.per \in Nat
    BY <1>2 DEF IsPossible
  <2> HIDE DEF s, p
  <2>4. IsMixOf(s, f.boostable, p("boostable"), f.reducible, p("reducible"), f.per, p("fixed"))
    BY <2>1, <2>2, <2>3 DEF IsMixOf
  <2> QED
    BY <2>4 DEF s, p
<1>4. TotalOf(BoostedMl(ml, category, f)) = f.boostable * vb + f.reducible * vr + f.per * vf
  BY <1>3, TotalIsLinear DEF Of
<1>5. TotalOf(ml) = vb + vr + vf
  BY PartsMakeTheWhole
<1> HIDE DEF vb, vr, vf
<1>6. f.boostable * vb + f.reducible * vr = f.per * (vb + vr)
  BY <1>2 DEF Conserves
<1>7. f.per \in Nat
  BY <1>2 DEF IsPossible
<1>8. f.per * (vb + vr) + f.per * vf = f.per * (vb + vr + vf)
  BY <1>1, <1>7
<1> QED
  BY <1>2, <1>4, <1>5, <1>6, <1>8 DEF f

LEMMA ScaledDrink ==
  ASSUME NEW d, IsDrink(d), NEW nominal \in Nat \ {0}, NEW target \in Nat
  PROVE  LET e == Scale(d, nominal, target) IN
         /\ IsDrink(e) /\ e.ml = Scaled(d.ml, target) /\ e.per = d.per * nominal
         /\ DOMAIN e.ml = DOMAIN d.ml
<1> DEFINE ml == Scaled(d.ml, target)
           e == Scale(d, nominal, target)
<1>1. e = Drink(ml, d.per * nominal)
  BY DEF Scale, Scaled
<1>2. ml \in Seq(Nat) /\ DOMAIN ml = DOMAIN d.ml
  BY ScaledIsSeq DEF IsDrink, Scaled
<1>3. d.per * nominal \in Nat \ {0}
  BY DEF IsDrink
<1> HIDE DEF ml, e
<1>4. e.ml = ml /\ e.per = d.per * nominal
  BY <1>1 DEF Drink
<1> QED
  BY <1>1, <1>2, <1>3, <1>4 DEF IsDrink, e, ml

LEMMA BoostedDrink ==
  ASSUME NEW d, IsDrink(d), NEW category, IsCategorised(d.ml, category), NEW b \in -FullBoost..FullBoost
  PROVE  LET e == Boost(d, category, b)
             f == FactorsOf(d.ml, category, b)
         IN  /\ IsDrink(e) /\ e.ml = BoostedMl(d.ml, category, f) /\ e.per = d.per * f.per
             /\ DOMAIN e.ml = DOMAIN d.ml /\ IsPossible(f) /\ TotalOf(e.ml) = f.per * TotalOf(d.ml)
<1> DEFINE f == FactorsOf(d.ml, category, b)
           ml == BoostedMl(d.ml, category, f)
           e == Boost(d, category, b)
<1>1. d.ml \in Seq(Nat) /\ d.per \in Nat \ {0}
  BY DEF IsDrink
<1>2. IsPossible(f) /\ TotalOf(ml) = f.per * TotalOf(d.ml)
  BY <1>1, BoostedTotal
<1>3. e = Drink(ml, d.per * f.per)
  BY BoostIs
<1>4. DOMAIN ml = DOMAIN d.ml
  BY DEF BoostedMl
<1> HIDE DEF f
<1>5. ml \in Seq(Nat)
  BY <1>1, <1>2, BoostedIsSeq
<1>6. d.per * f.per \in Nat \ {0}
  BY <1>1, <1>2 DEF IsPossible
<1> HIDE DEF ml, e
<1>7. e.ml = ml /\ e.per = d.per * f.per
  BY <1>3 DEF Drink
<1> QED
  BY <1>2, <1>3, <1>4, <1>5, <1>6, <1>7 DEF IsDrink, e, ml, f

(* "The total dispensed volume is conserved": boost_recipe() keeps the     *)
(* total of any drink, whatever its ingredients and the position of the    *)
(* slider, and never asks for a negative volume.                           *)
THEOREM BoostKeepsTheVolume ==
  ASSUME NEW d, IsDrink(d), NEW category, IsCategorised(d.ml, category), NEW b \in -FullBoost..FullBoost
  PROVE  LET e == Boost(d, category, b)
         IN  IsDrink(e) /\ TotalOf(e.ml) * d.per = TotalOf(d.ml) * e.per
<1> DEFINE e == Boost(d, category, b)
           f == FactorsOf(d.ml, category, b)
<1>1. IsDrink(e) /\ e.per = d.per * f.per /\ IsPossible(f) /\ TotalOf(e.ml) = f.per * TotalOf(d.ml)
  BY BoostedDrink
<1>2. TotalOf(d.ml) \in Nat /\ f.per \in Nat /\ d.per \in Nat
  BY <1>1, TotalIsNat DEF IsDrink, IsPossible
<1> HIDE DEF e, f
<1>3. (f.per * TotalOf(d.ml)) * d.per = TotalOf(d.ml) * (d.per * f.per)
  BY <1>2
<1> QED
  BY <1>1, <1>3 DEF e

(* scale_recipe() turns the nominal serving into the target volume: any    *)
(* drink grows as a whole by target / nominal.                             *)
THEOREM ScaleFillsTheGlass ==
  ASSUME NEW d, IsDrink(d), NEW nominal \in Nat \ {0}, NEW target \in Nat
  PROVE  LET e == Scale(d, nominal, target)
         IN  IsDrink(e) /\ TotalOf(e.ml) * (d.per * nominal) = (TotalOf(d.ml) * target) * e.per
<1> DEFINE e == Scale(d, nominal, target)
<1>1. IsDrink(e) /\ e.ml = Scaled(d.ml, target) /\ e.per = d.per * nominal
  BY ScaledDrink
<1> HIDE DEF e
<1>2. TotalOf(e.ml) = TotalOf(d.ml) * target
  BY <1>1, ScaledTotal DEF IsDrink
<1> QED
  BY <1>1, <1>2 DEF e
-----------------------------------------------------------------------------
(* The factors depend on the proportion of the categories only.            *)
LEMMA FactorsOfTheProportion ==
  ASSUME NEW b \in -FullBoost..FullBoost, NEW vb \in Nat, NEW vr \in Nat, NEW target \in Nat \ {0}
  PROVE  \E k \in Nat \ {0} : LET f == ScaleFactors(b, vb, vr)
                                  g == ScaleFactors(b, vb * target, vr * target)
                              IN  \A c \in {"boostable", "reducible", "per"} : g[c] = k * f[c]
<1> DEFINE f == ScaleFactors(b, vb, vr)
           g == ScaleFactors(b, vb * target, vr * target)
<1>1. b \in Int /\ FullBoost \in Nat \ {0}
  BY BoostAssumption
<1>2. (vb * target > 0) = (vb > 0) /\ (vr * target > 0) = (vr > 0)
  OBVIOUS
<1>3. CASE b >= 0 /\ vb > 0
  <2>1. f = [boostable |-> FullBoost * vb + b * vr, reducible |-> (FullBoost - b) * vb, per |-> FullBoost * vb]
    BY <1>3 DEF ScaleFactors
  <2>2. g = [boostable |-> FullBoost * (vb * target) + b * (vr * target),
             reducible |-> (FullBoost - b) * (vb * target), per |-> FullBoost * (vb * target)]
    BY <1>2, <1>3 DEF ScaleFactors
  <2>3. /\ FullBoost * (vb * target) + b * (vr * target) = target * (FullBoost * vb + b * vr)
        /\ (FullBoost - b) * (vb * target) = target * ((FullBoost - b) * vb)
        /\ FullBoost * (vb * target) = target * (FullBoost * vb)
    BY <1>1
  <2> HIDE DEF f, g
  <2>4. \A c \in {"boostable", "reducible", "per"} : g[c] = target * f[c]
    BY <2>1, <2>2, <2>3
  <2> QED
    BY <2>4 DEF f, g
<1>4. CASE b < 0 /\ vr > 0
  <2>1. f = [boostable |-> (FullBoost + b) * vr, reducible |-> FullBoost * vr - b * vb, per |-> FullBoost * vr]
    BY <1>4 DEF ScaleFactors
  <2>2. g = [boostable |-> (FullBoost + b) * (vr * target),
             reducible |-> FullBoost * (vr * target) - b * (vb * target), per |-> FullBoost * (vr * target)]
    BY <1>2, <1>4 DEF ScaleFactors
  <2>3. /\ (FullBoost + b) * (vr * target) = target * ((FullBoost + b) * vr)
        /\ FullBoost * (vr * target) - b * (vb * target) = target * (FullBoost * vr - b * vb)
        /\ FullBoost * (vr * target) = target * (FullBoost * vr)
    BY <1>1
  <2> HIDE DEF f, g
  <2>4. \A c \in {"boostable", "reducible", "per"} : g[c] = target * f[c]
    BY <2>1, <2>2, <2>3
  <2> QED
    BY <2>4 DEF f, g
<1>5. CASE ~(b >= 0 /\ vb > 0) /\ ~(b < 0 /\ vr > 0)
  <2>1. f = [boostable |-> 1, reducible |-> 1, per |-> 1] /\ g = f
    BY <1>2, <1>5 DEF ScaleFactors
  <2> HIDE DEF f, g
  <2>2. \A c \in {"boostable", "reducible", "per"} : g[c] = 1 * f[c]
    BY <2>1
  <2> QED
    BY <2>2 DEF f, g
<1> QED
  BY <1>3, <1>4, <1>5

(* "The two commute": a drink that is scaled and then boosted is the one   *)
(* that is boosted and then scaled, command by command, for any recipe,    *)
(* glass and boost.                                                        *)
THEOREM ScaleAndBoostCommute ==
  ASSUME NEW d, IsDrink(d), NEW category, IsCategorised(d.ml, category), NEW b \in -FullBoost..FullBoost,
         NEW nominal \in Nat \ {0}, NEW target \in Nat
  PROVE  SameDrink(Boost(Scale(d, nominal, target), category, b), Scale(Boost(d, category, b), nominal, target))
<1> DEFINE s == Scale(d, nominal, target)
           t == Boost(d, category, b)
           sb == Boost(s, category, b)
           bs == Scale(t, nominal, target)
           f == FactorsOf(d.ml, category, b)
           g == FactorsOf(s.ml, category, b)
           of(h, i) == IF category[i] = "fixed" THEN h.per ELSE h[category[i]]
<1>1. /\ d.ml \in Seq(Nat) /\ d.per \in Nat \ {0} /\ \A i \in DOMAIN d.ml : d.ml[i] \in Nat
  BY SeqOfVolumes DEF IsDrink
<1>2. IsDrink(s) /\ s.ml = Scaled(d.ml, target) /\ s.per = d.per * nominal /\ DOMAIN s.ml = DOMAIN d.ml
  BY ScaledDrink
<1>3. IsCategorised(s.ml, category)
  BY <1>2 DEF IsCategorised
<1>4. /\ IsDrink(t) /\ t.ml = BoostedMl(d.ml, category, f) /\ t.per = d.per * f.per /\ IsPossible(f)
      /\ DOMAIN t.ml = DOMAIN d.ml
  BY BoostedDrink
<1>5. /\ sb.ml = BoostedMl(s.ml, category, g) /\ sb.per = s.per * g.per /\ IsPossible(g)
      /\ DOMAIN sb.ml = DOMAIN s.ml
  <2> HIDE DEF s
  <2> QED
    BY <1>2, <1>3, BoostedDrink
<1>6. bs.ml = Scaled(t.ml, target) /\ bs.per = t.per * nominal /\ DOMAIN bs.ml = DOMAIN t.ml
  <2> HIDE DEF t
  <2> QED
    BY <1>4, ScaledDrink
<1> SUFFICES ASSUME NEW i \in DOMAIN d.ml
             PROVE  sb.ml[i] * bs.per = bs.ml[i] * sb.per
  BY <1>2, <1>4, <1>5, <1>6 DEF SameDrink
<1> HIDE DEF s, t, sb, bs
<1>7. sb.ml[i] = (d.ml[i] * target) * of(g, i) /\ bs.ml[i] = (d.ml[i] * of(f, i)) * target
  BY <1>2, <1>4, <1>5, <1>6 DEF BoostedMl, Scaled
<1>8. category[i] \in Category
  BY DEF IsCategorised
<1>9. /\ of(f, i) \in Nat /\ f.per \in Nat /\ of(g, i) \in Nat /\ g.per \in Nat
  BY <1>4, <1>5, <1>8 DEF IsPossible, Category
<1>10. CASE target = 0
  <2> HIDE DEF of, f, g
  <2>1. sb.ml[i] = 0 /\ bs.ml[i] = 0
    BY <1>1, <1>7, <1>9, <1>10
  <2>2. sb.per \in Nat /\ bs.per \in Nat
    <3>1. s.per \in Nat /\ t.per \in Nat
      BY <1>2, <1>4 DEF IsDrink
    <3> QED
      BY <1>5, <1>6, <1>9, <3>1
  <2> QED
    BY <2>1, <2>2
<1>11. CASE target # 0
  <2>1. PICK k \in Nat \ {0} : of(g, i) = k * of(f, i) /\ g.per = k * f.per
    <3> DEFINE vb == Of(d.ml, category, "boostable")
               vr == Of(d.ml, category, "reducible")
    <3>1. vb \in Nat /\ vr \in Nat
      BY <1>1, PartIsSeq
    <3>2. g = ScaleFactors(b, vb * target, vr * target)
      BY <1>1, <1>2, ScaledOf DEF FactorsOf
    <3>3. f = ScaleFactors(b, vb, vr)
      BY DEF FactorsOf
    <3> HIDE DEF vb, vr, f, g
    <3>4. \E k \in Nat \ {0} : \A c \in {"boostable", "reducible", "per"} : g[c] = k * f[c]
      BY <1>11, <3>1, <3>2, <3>3, FactorsOfTheProportion
    <3> QED
      BY <1>8, <3>4 DEF Category
  <2> HIDE DEF of, f, g
  <2>2. PICK v \in Nat, x \in Nat, y \in Nat, z \in Nat :
          v = d.ml[i] /\ x = of(f, i) /\ y = f.per /\ z = d.per
    BY <1>1, <1>9
  <2>3. /\ sb.ml[i] = (v * target) * (k * x) /\ bs.ml[i] = (v * x) * target
        /\ bs.per = (z * y) * nominal /\ sb.per = (z * nominal) * (k * y)
    BY <1>2, <1>4, <1>5, <1>6, <1>7, <2>1, <2>2
  <2>4. ((v * target) * (k * x)) * ((z * y) * nominal) = ((v * x) * target) * ((z * nominal) * (k * y))
    OBVIOUS
  <2> QED
    BY <2>3, <2>4
<1> QED
  BY <1>10, <1>11
=============================================================================
