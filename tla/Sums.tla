-------------------------------- MODULE Sums --------------------------------
(***************************************************************************)
(* Sums of a natural-valued function over a finite set, written as the     *)
(* cardinality of a disjoint union so that the prover can reason about     *)
(* them without recursion.  Only the properties use these operators: the   *)
(* contracts never iterate over holders.                                   *)
(***************************************************************************)
EXTENDS Integers, FiniteSets

(* One element per unit of f over S. *)
Units(f, S) == UNION {{x} \X (1..f[x]) : x \in S}

(* The sum of f[x] for x in S. *)
SumOver(f, S) == Cardinality(Units(f, S))

(* The sum of all the values of f. *)
SumOf(f) == SumOver(f, DOMAIN f)
=============================================================================
