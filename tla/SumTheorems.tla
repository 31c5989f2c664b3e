----------------------------- MODULE SumTheorems -----------------------------
(***************************************************************************)
(* Facts about the sums of module Sums: how they change when the function  *)
(* changes at one point, and that they are linear.  They carry every proof *)
(* about totals over deeds, receipts, pools and escrows.  The rounding     *)
(* divisions of the contracts come first.                                  *)
(***************************************************************************)
EXTENDS Sums, FiniteSetTheorems, TLAPS

-----------------------------------------------------------------------------
(* Arithmetic of shares and rates. *)

(* Division rounds down (the floor the code takes in mul_bps, pending_payout and
   advance_index). *)
LEMMA DivFloor ==
  ASSUME NEW a \in Nat, NEW b \in Nat \ {0}
  PROVE  /\ a \div b \in Nat
         /\ (a \div b) * b <= a
         /\ a < (a \div b + 1) * b
OBVIOUS

(* A product of natural numbers is one. *)
LEMMA MulType ==
  ASSUME NEW a \in Nat, NEW b \in Nat
  PROVE  a * b \in Nat
OBVIOUS

(* Multiplication preserves order. *)
LEMMA MulMono ==
  ASSUME NEW a \in Nat, NEW b \in Nat, NEW k \in Nat, a <= b
  PROVE  a * k <= b * k /\ k * a <= k * b
OBVIOUS

(* ... and, by a positive factor, reflects it. *)
LEMMA MulReflect ==
  ASSUME NEW a \in Nat, NEW b \in Nat, NEW k \in Nat \ {0}, a * k <= b * k
  PROVE  a <= b
OBVIOUS

-----------------------------------------------------------------------------
(* Sums. *)
(* Induction over a finite set, in a first-order form: a collection of
   subsets that holds the empty set and is closed under adding one element
   holds the whole set.  The sums of the contracts' objects are computed one
   object at a time. *)
THEOREM SetInduction ==
  ASSUME NEW S, IsFiniteSet(S), NEW G,
         {} \in G,
         \A T \in SUBSET S : \A x \in S \ T : T \in G => T \cup {x} \in G
  PROVE  S \in G
<1> DEFINE Bad == {T \in SUBSET S : T \notin G}
           R == StrictSubsetOrdering(S)
<1>1. SUFFICES ASSUME Bad # {} PROVE FALSE
  OBVIOUS
<1>2. IsWellFoundedOn(R, SUBSET S)
  BY FS_StrictSubsetOrderingWellFounded, FS_FiniteSubsetsOfFinite
<1>3. PICK T \in Bad : \A U \in Bad : ~(<<U, T>> \in R)
  <2>1. Bad \subseteq SUBSET S
    OBVIOUS
  <2>2. Bad # {}
    BY <1>1
  <2> HIDE DEF Bad, R
  <2> QED
    BY <1>2, <2>1, <2>2, WFMin
<1>4. PICK x \in T : TRUE
  BY <1>3
<1>5. T \ {x} \in SUBSET S /\ x \in S \ (T \ {x}) /\ (T \ {x}) \cup {x} = T
  BY <1>3, <1>4
<1>6. T \ {x} \in Bad
  BY <1>3, <1>5
<1>7. <<T \ {x}, T>> \in R
  BY <1>3, <1>4, <1>5 DEF StrictSubsetOrdering
<1> QED
  BY <1>3, <1>6, <1>7

(* The units of one more element are disjoint from those already counted. *)
LEMMA UnitsAdd ==
  ASSUME NEW S, NEW x, NEW f
  PROVE  Units(f, S \cup {x}) = Units(f, S) \cup ({x} \X (1..f[x]))
BY DEF Units

(* The units of an element number f[x]. *)
LEMMA UnitsOne ==
  ASSUME NEW x, NEW n \in Nat
  PROVE  IsFiniteSet({x} \X (1..n)) /\ Cardinality({x} \X (1..n)) = n
<1>1. IsFiniteSet({x}) /\ Cardinality({x}) = 1
  BY FS_Singleton
<1>2. IsFiniteSet(1..n) /\ Cardinality(1..n) = n
  BY FS_Interval
<1>3. /\ IsFiniteSet({x} \X (1..n))
      /\ Cardinality({x} \X (1..n)) = Cardinality({x}) * Cardinality(1..n)
  BY <1>1, <1>2, FS_Product
<1> QED
  BY <1>1, <1>2, <1>3

(* A finite set of objects has finitely many units: totals are numbers. *)
LEMMA UnitsFinite ==
  ASSUME NEW S, IsFiniteSet(S), NEW f, \A x \in S : f[x] \in Nat
  PROVE  IsFiniteSet(Units(f, S))
<1> DEFINE G == {T \in SUBSET S : IsFiniteSet(Units(f, T))}
<1>1. Units(f, {}) = {}
  BY DEF Units
<1>2. {} \in G
  BY <1>1, FS_EmptySet
<1>3. ASSUME NEW T \in SUBSET S, NEW x \in S \ T, T \in G PROVE T \cup {x} \in G
  <2>1. IsFiniteSet({x} \X (1..f[x]))
    BY UnitsOne
  <2>2. IsFiniteSet(Units(f, T))
    BY <1>3
  <2>3. IsFiniteSet(Units(f, T) \cup ({x} \X (1..f[x])))
    BY <2>1, <2>2, FS_Union
  <2>4. Units(f, T \cup {x}) = Units(f, T) \cup ({x} \X (1..f[x]))
    BY UnitsAdd
  <2> QED
    BY <2>3, <2>4
<1>4. S \in G
  <2> HIDE DEF G
  <2> QED
    BY <1>2, <1>3, SetInduction
<1> QED
  BY <1>4

(* A total is a natural number: no balance that mirrors one can underflow. *)
THEOREM SumType ==
  ASSUME NEW S, IsFiniteSet(S), NEW f, \A x \in S : f[x] \in Nat
  PROVE  SumOver(f, S) \in Nat
BY UnitsFinite, FS_CardinalityType DEF SumOver

(* The total over no object is zero. *)
THEOREM SumEmpty ==
  ASSUME NEW f
  PROVE  SumOver(f, {}) = 0
<1>1. Units(f, {}) = {}
  BY DEF Units
<1> QED
  BY <1>1, FS_EmptySet DEF SumOver

(* One more object adds its value. *)
THEOREM SumAdd ==
  ASSUME NEW S, IsFiniteSet(S), NEW x, x \notin S, NEW f,
         \A y \in S \cup {x} : f[y] \in Nat
  PROVE  SumOver(f, S \cup {x}) = SumOver(f, S) + f[x]
<1> DEFINE A == Units(f, S)
           B == {x} \X (1..f[x])
<1>1. IsFiniteSet(A)
  BY UnitsFinite
<1>2. IsFiniteSet(B) /\ Cardinality(B) = f[x]
  BY UnitsOne
<1>3. A \cap B = {}
  BY DEF Units
<1>4. Cardinality(A \cup B) = Cardinality(A) + Cardinality(B) - Cardinality(A \cap B)
  BY <1>1, <1>2, FS_Union
<1>5. Cardinality(A) \in Nat /\ f[x] \in Nat
  BY <1>1, FS_CardinalityType
<1>6. Cardinality(A \cup B) = Cardinality(A) + f[x]
  <2>1. Cardinality(A \cap B) = 0
    BY <1>3, FS_EmptySet
  <2> HIDE DEF A, B
  <2> QED
    BY <1>2, <1>4, <1>5, <2>1
<1>7. Units(f, S \cup {x}) = A \cup B
  BY DEF Units
<1> QED
  BY <1>6, <1>7 DEF SumOver

(* A total depends only on the values it adds up. *)
THEOREM SumEqual ==
  ASSUME NEW S, NEW f, NEW g, \A x \in S : f[x] = g[x]
  PROVE  SumOver(f, S) = SumOver(g, S)
<1>1. {{x} \X (1..f[x]) : x \in S} = {{x} \X (1..g[x]) : x \in S}
  OBVIOUS
<1> QED
  BY <1>1 DEF SumOver, Units

(* Taking one object out of a total. *)
THEOREM SumRemove ==
  ASSUME NEW S, IsFiniteSet(S), NEW x \in S, NEW f, \A y \in S : f[y] \in Nat
  PROVE  SumOver(f, S) = SumOver(f, S \ {x}) + f[x]
<1>1. IsFiniteSet(S \ {x})
  BY FS_RemoveElement
<1>2. (S \ {x}) \cup {x} = S
  OBVIOUS
<1>3. x \notin S \ {x}
  OBVIOUS
<1>4. SumOver(f, (S \ {x}) \cup {x}) = SumOver(f, S \ {x}) + f[x]
  BY <1>1, <1>2, <1>3, SumAdd
<1> QED
  BY <1>2, <1>4

(* Changing one object changes the total by the same amount. *)
THEOREM SumUpdate ==
  ASSUME NEW S, IsFiniteSet(S), NEW x \in S, NEW f, NEW g,
         \A y \in S : f[y] \in Nat /\ g[y] \in Nat,
         \A y \in S \ {x} : g[y] = f[y]
  PROVE  SumOver(g, S) = SumOver(f, S) - f[x] + g[x]
<1>1. SumOver(f, S) = SumOver(f, S \ {x}) + f[x]
  BY SumRemove
<1>2. SumOver(g, S) = SumOver(g, S \ {x}) + g[x]
  BY SumRemove
<1>3. SumOver(g, S \ {x}) = SumOver(f, S \ {x})
  BY SumEqual
<1>4. SumOver(f, S \ {x}) \in Nat
  <2>1. IsFiniteSet(S \ {x})
    BY FS_RemoveElement
  <2> QED
    BY <2>1, SumType
<1> QED
  BY <1>1, <1>2, <1>3, <1>4

(* Moving value between two objects leaves the total alone. *)
THEOREM SumMove ==
  ASSUME NEW S, IsFiniteSet(S), NEW x \in S, NEW y \in S, x # y, NEW f, NEW g,
         \A z \in S : f[z] \in Nat /\ g[z] \in Nat,
         \A z \in S \ {x, y} : g[z] = f[z],
         g[x] + g[y] = f[x] + f[y]
  PROVE  SumOver(g, S) = SumOver(f, S)
<1> DEFINE T == S \ {x}
<1>1. IsFiniteSet(T) /\ y \in T /\ T \subseteq S
  BY FS_RemoveElement
<1>2. SumOver(f, S) = SumOver(f, T) + f[x] /\ SumOver(g, S) = SumOver(g, T) + g[x]
  BY SumRemove
<1>3. \A z \in T \ {y} : g[z] = f[z]
  OBVIOUS
<1>4. \A z \in T : f[z] \in Nat /\ g[z] \in Nat
  OBVIOUS
<1> HIDE DEF T
<1>5. SumOver(g, T) = SumOver(f, T) - f[y] + g[y]
  BY <1>1, <1>3, <1>4, SumUpdate
<1>6. SumOver(f, T) \in Nat
  BY <1>1, <1>4, SumType
<1> QED
  BY <1>2, <1>5, <1>6

(* A part never exceeds the total. *)
THEOREM SumBound ==
  ASSUME NEW S, IsFiniteSet(S), NEW x \in S, NEW f, \A y \in S : f[y] \in Nat
  PROVE  f[x] <= SumOver(f, S)
<1>1. IsFiniteSet(S \ {x})
  BY FS_RemoveElement
<1>2. SumOver(f, S \ {x}) \in Nat
  BY <1>1, SumType
<1> QED
  BY <1>2, SumRemove

(* A total of zeros is zero. *)
THEOREM SumZero ==
  ASSUME NEW S, NEW f, \A x \in S : f[x] = 0
  PROVE  SumOver(f, S) = 0
<1>1. \A x \in S : {x} \X (1..f[x]) = {}
  OBVIOUS
<1>2. Units(f, S) = {}
  BY <1>1 DEF Units
<1> QED
  BY <1>2, FS_EmptySet DEF SumOver

(* A total over some of the objects is the total over all of them with the others
   at zero. *)
THEOREM SumFilter ==
  ASSUME NEW S, NEW T \in SUBSET S, NEW f, NEW g,
         \A x \in T : f[x] = g[x],
         \A x \in S \ T : g[x] = 0
  PROVE  SumOver(f, T) = SumOver(g, S)
<1>1. \A x \in S \ T : {x} \X (1..g[x]) = {}
  OBVIOUS
<1>2. Units(g, S) = Units(g, T)
  BY <1>1 DEF Units
<1>3. SumOver(g, S) = SumOver(g, T)
  BY <1>2 DEF SumOver
<1>4. SumOver(f, T) = SumOver(g, T)
  BY SumEqual
<1> QED
  BY <1>3, <1>4

(* Totals are linear: this is what lets one index step pay every holder. *)
THEOREM SumLinear ==
  ASSUME NEW S, IsFiniteSet(S), NEW k \in Nat, NEW f, NEW g, NEW h,
         \A x \in S : /\ f[x] \in Nat /\ g[x] \in Nat /\ h[x] \in Nat
                      /\ h[x] = f[x] + k * g[x]
  PROVE  SumOver(h, S) = SumOver(f, S) + k * SumOver(g, S)
<1> DEFINE G == {T \in SUBSET S : SumOver(h, T) = SumOver(f, T) + k * SumOver(g, T)}
<1>1. {} \in G
  BY SumEmpty
<1>2. ASSUME NEW T \in SUBSET S, NEW x \in S \ T, T \in G PROVE T \cup {x} \in G
  <2>1. IsFiniteSet(T)
    BY FS_Subset
  <2>2. x \notin T /\ \A y \in T \cup {x} : f[y] \in Nat /\ g[y] \in Nat /\ h[y] \in Nat
    OBVIOUS
  <2>3. SumOver(f, T) \in Nat /\ SumOver(g, T) \in Nat
    BY <2>1, <2>2, SumType
  <2>4. /\ SumOver(f, T \cup {x}) = SumOver(f, T) + f[x]
        /\ SumOver(g, T \cup {x}) = SumOver(g, T) + g[x]
        /\ SumOver(h, T \cup {x}) = SumOver(h, T) + h[x]
    BY <2>1, <2>2, SumAdd
  <2>5. SumOver(h, T) = SumOver(f, T) + k * SumOver(g, T)
    BY <1>2
  <2>6. h[x] = f[x] + k * g[x] /\ f[x] \in Nat /\ g[x] \in Nat
    OBVIOUS
  <2>7. k * (SumOver(g, T) + g[x]) = k * SumOver(g, T) + k * g[x]
    BY <2>3, <2>6
  <2>8. k * SumOver(g, T) \in Nat /\ k * g[x] \in Nat
    BY <2>3, <2>6
  <2>9. SumOver(h, T \cup {x}) = SumOver(f, T \cup {x}) + k * SumOver(g, T \cup {x})
    BY <2>3, <2>4, <2>5, <2>6, <2>7, <2>8
  <2> QED
    BY <2>9
<1>3. S \in G
  <2> HIDE DEF G
  <2> QED
    BY <1>1, <1>2, SetInduction
<1> QED
  BY <1>3
=============================================================================
