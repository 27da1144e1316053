--------------------------- MODULE ReadModelsProofs ---------------------------
(***************************************************************************)
(* What is read for the staff is true, for every value of the constants:   *)
(* the weekly report is delivered when it says so and its totals are       *)
(* whole, retention's numbers are of their body alone and withheld exactly *)
(* where there is evidence against them, a health summary that says ok is  *)
(* measured, and the economy's reports are founded, agree and count        *)
(* payments.  Each topic has its invariant; the lemmas on sums come first. *)
(***************************************************************************)
EXTENDS ReadModels, Integers, FiniteSetsExt, FiniteSetTheorems, SequenceTheorems,
        WellFoundedInduction, TLAPS

-----------------------------------------------------------------------------
(***************************************************************************)
(* Sums over finite sets, as FiniteSetsExt and Functions define them: by a *)
(* recursive function on the subsets, which takes whatever element CHOOSE  *)
(* gives.  A sum exists, is a number, and does not depend on the order; it *)
(* is additive, and may be taken class by class.                           *)
(*                                                                         *)
(* The library's induction theorems take an operator, which the provers    *)
(* cannot instantiate.  Induction is stated here of sets: a nonempty set   *)
(* of naturals has a least element, so what fails fails first somewhere.   *)
(***************************************************************************)

LEMMA NatIsWellFounded ==
  \E Less : /\ IsWellFoundedOn(Less, Nat)
            /\ \A x \in Nat : \A y \in Nat : x < y => <<x, y>> \in Less
<1>1. \A x, y \in Nat : x < y => <<x, y>> \in OpToRel(<, Nat) BY DEF OpToRel
<1>q. QED BY <1>1, NatLessThanWellFounded

\* A nonempty set of naturals has a least element.
LEMMA Least ==
  ASSUME NEW S \in SUBSET Nat, S # {}
  PROVE  \E n \in S : \A m \in S : n <= m
<1>1. PICK Less : /\ IsWellFoundedOn(Less, Nat)
                  /\ \A x \in Nat : \A y \in Nat : x < y => <<x, y>> \in Less
  BY NatIsWellFounded
<1>2. IsWellFoundedOn(Less, Nat) BY <1>1
<1>3. PICK x \in S : \A y \in S : ~(<<y, x>> \in Less)
  <2>1. S \subseteq Nat OBVIOUS
  <2>q. QED BY <1>2, <2>1, WFMin
<1>4. ASSUME NEW m \in S PROVE x <= m
  <2>1. ~(m < x) BY <1>1, <1>3
  <2>q. QED BY <2>1
<1>q. QED BY <1>4

\* Induction: a set of naturals with zero and every successor is all of them.
LEMMA NaturalsByInduction ==
  ASSUME NEW S, 0 \in S, \A n \in Nat : n \in S => n + 1 \in S
  PROVE  Nat \subseteq S
<1> DEFINE missing == Nat \ S
<1>1. ASSUME missing # {} PROVE FALSE
  <2>1. PICK n \in missing : \A m \in missing : n <= m BY <1>1, Least
  <2>2. n \in Nat /\ n \notin S /\ n # 0 OBVIOUS
  <2>3. n - 1 \in Nat /\ (n - 1) + 1 = n BY <2>2
  <2>4. n - 1 \notin missing BY <2>1, <2>2, <2>3
  <2>q. QED BY <2>2, <2>3, <2>4
<1>q. QED BY <1>1

LEMMA OneLess ==
  ASSUME NEW s, IsFiniteSet(s), NEW n \in Nat, Cardinality(s) = n + 1, NEW x \in s
  PROVE  Cardinality(s \ {x}) = n
<1>1. Cardinality(s \ {x}) = Cardinality(s) - 1 BY FS_RemoveElement
<1>q. QED BY <1>1

\* Induction over the subsets of a finite set, by their size: what holds of all
\* that miss an element of a subset holds of the subset.
LEMMA SubsetsByInduction ==
  ASSUME NEW S, IsFiniteSet(S), NEW P, {} \in P,
         \A s \in SUBSET S : s # {} /\ (\A x \in s : s \ {x} \in P) => s \in P
  PROVE  SUBSET S \subseteq P
<1> DEFINE OfSize(n) == {s \in SUBSET S : Cardinality(s) = n}
           Done == {n \in Nat : OfSize(n) \subseteq P}
<1>1. ASSUME NEW s \in SUBSET S
      PROVE  IsFiniteSet(s) /\ Cardinality(s) \in Nat /\ (Cardinality(s) = 0 <=> s = {})
  BY FS_Subset, FS_CardinalityType, FS_EmptySet
<1>2. 0 \in Done BY <1>1
<1>3. ASSUME NEW n \in Nat, n \in Done PROVE n + 1 \in Done
  <2>1. ASSUME NEW s \in SUBSET S, Cardinality(s) = n + 1 PROVE s \in P
    <3>1. IsFiniteSet(s) /\ s # {} BY <1>1, <2>1
    <3>2. ASSUME NEW x \in s PROVE s \ {x} \in P
      <4>1. Cardinality(s \ {x}) = n BY <2>1, <3>1, OneLess
      <4>q. QED BY <1>3, <4>1
    <3>q. QED BY <3>1, <3>2
  <2>q. QED BY <2>1
<1>4. Nat \subseteq Done
  <2> HIDE DEF Done
  <2>q. QED BY <1>2, <1>3, NaturalsByInduction
<1>5. ASSUME NEW s \in SUBSET S PROVE s \in P
  <2>1. Cardinality(s) \in Done BY <1>1, <1>4
  <2>q. QED BY <2>1
<1>q. QED BY <1>5

-----------------------------------------------------------------------------
(* Sizes.                                                                  *)

Image(f, S) == {f[x] : x \in S}

LEMMA ImageIsFinite ==
  ASSUME NEW S, IsFiniteSet(S), NEW f
  PROVE  IsFiniteSet(Image(f, S)) /\ Cardinality(Image(f, S)) <= Cardinality(S)
<1> DEFINE g == [x \in S |-> f[x]]
<1>1. g \in Surjection(S, Image(f, S)) BY DEF Surjection, Image
<1>q. QED BY <1>1, FS_Surjection

LEMMA AtMostOne ==
  ASSUME NEW S, IsFiniteSet(S), Cardinality(S) <= 1, NEW x \in S, NEW y \in S
  PROVE  x = y
<1>1. IsFiniteSet(S \ {x}) /\ Cardinality(S \ {x}) = Cardinality(S) - 1 BY FS_RemoveElement
<1>2. Cardinality(S) \in Nat /\ Cardinality(S \ {x}) \in Nat BY <1>1, FS_CardinalityType
<1>3. Cardinality(S \ {x}) = 0 BY <1>1, <1>2
<1>4. S \ {x} = {} BY <1>1, <1>3, FS_EmptySet
<1>q. QED BY <1>4

-----------------------------------------------------------------------------
(* The fold exists.                                                        *)

Picked(s) == CHOOSE x \in s : TRUE

Remaining(s) == s \ {Picked(s)}

\* The recursive function of a sum of v, on the subsets of S.
IsFold(f, v, S) ==
  f = [s \in SUBSET S |-> IF s = {} THEN 0 ELSE v[Picked(s)] + f[Remaining(s)]]

\* The same as far as the subsets in D.
IsFoldOn(f, v, D) ==
  f = [s \in D |-> IF s = {} THEN 0 ELSE v[Picked(s)] + f[Remaining(s)]]

LEMMA PickIsElement ==
  ASSUME NEW s, s # {} PROVE Picked(s) \in s
BY DEF Picked

LEMMA FoldExists ==
  ASSUME NEW v, NEW S, IsFiniteSet(S)
  PROVE  \E f : IsFold(f, v, S)
<1> DEFINE Small(n) == {s \in SUBSET S : Cardinality(s) <= n}
           Done == {n \in Nat : \E f : IsFoldOn(f, v, Small(n))}
<1>1. ASSUME NEW s \in SUBSET S
      PROVE  IsFiniteSet(s) /\ Cardinality(s) \in Nat /\ (Cardinality(s) = 0 <=> s = {})
  BY FS_Subset, FS_CardinalityType, FS_EmptySet
<1>2. ASSUME NEW s \in SUBSET S, s # {}
      PROVE  Remaining(s) \in SUBSET S /\ Cardinality(Remaining(s)) = Cardinality(s) - 1
  BY <1>1, <1>2, PickIsElement, FS_RemoveElement DEF Remaining
<1>3. 0 \in Done
  <2> DEFINE f == [s \in Small(0) |-> 0]
  <2>1. \A s \in Small(0) : s = {} BY <1>1
  <2>2. IsFoldOn(f, v, Small(0)) BY <2>1 DEF IsFoldOn
  <2>q. QED BY <2>2
<1>4. ASSUME NEW n \in Nat, n \in Done PROVE n + 1 \in Done
  <2>1. PICK f : IsFoldOn(f, v, Small(n)) BY <1>4
  <2> DEFINE g == [s \in Small(n + 1) |-> IF s = {} THEN 0 ELSE v[Picked(s)] + f[Remaining(s)]]
  <2>2. \A s \in Small(n) : s \in Small(n + 1) BY <1>1
  <2>3. \A s \in Small(n) : g[s] = f[s] BY <2>1, <2>2 DEF IsFoldOn
  <2>4. ASSUME NEW s \in Small(n + 1), s # {} PROVE Remaining(s) \in Small(n)
    BY <1>1, <1>2, <2>4
  <2>5. \A s \in Small(n + 1) : s # {} => g[Remaining(s)] = f[Remaining(s)] BY <2>3, <2>4
  <2>6. IsFoldOn(g, v, Small(n + 1)) BY <2>5 DEF IsFoldOn
  <2>7. n + 1 \in Nat OBVIOUS
  <2> HIDE DEF g, Small
  <2>q. QED BY <2>6, <2>7
<1>5. Nat \subseteq Done
  <2> HIDE DEF Done
  <2>q. QED BY <1>3, <1>4, NaturalsByInduction
<1>6. Cardinality(S) \in Nat BY FS_CardinalityType
<1>7. PICK f : IsFoldOn(f, v, Small(Cardinality(S))) BY <1>5, <1>6
<1>8. Small(Cardinality(S)) = SUBSET S BY FS_Subset
<1>q. QED BY <1>7, <1>8 DEF IsFold, IsFoldOn

\* What a fold gives a set depends on the values of its elements only.
LEMMA FoldsAgree ==
  ASSUME NEW S, NEW T, NEW v, NEW w, NEW f, NEW g,
         IsFold(f, v, S), IsFold(g, w, T),
         NEW U, IsFiniteSet(U), U \subseteq S, U \subseteq T,
         \A x \in U : v[x] = w[x]
  PROVE  f[U] = g[U]
<1> DEFINE OfSize(n) == {s \in SUBSET U : Cardinality(s) = n}
           Done == {n \in Nat : \A s \in OfSize(n) : f[s] = g[s]}
<1>1. ASSUME NEW s \in SUBSET U
      PROVE  IsFiniteSet(s) /\ Cardinality(s) \in Nat /\ (Cardinality(s) = 0 <=> s = {})
  BY FS_Subset, FS_CardinalityType, FS_EmptySet
<1>2. ASSUME NEW s \in SUBSET U
      PROVE  /\ s = {} => f[s] = 0 /\ g[s] = 0
             /\ s # {} => f[s] = v[Picked(s)] + f[Remaining(s)] /\ g[s] = w[Picked(s)] + g[Remaining(s)]
  <2>1. s \in SUBSET S /\ s \in SUBSET T OBVIOUS
  <2>q. QED BY <2>1 DEF IsFold
<1>3. 0 \in Done BY <1>1, <1>2
<1>4. ASSUME NEW n \in Nat, n \in Done PROVE n + 1 \in Done
  <2>1. ASSUME NEW s \in SUBSET U, Cardinality(s) = n + 1 PROVE f[s] = g[s]
    <3>1. s # {} /\ Picked(s) \in s BY <1>1, <2>1, PickIsElement
    <3>2. Cardinality(Remaining(s)) = n BY <1>1, <2>1, <3>1, OneLess DEF Remaining
    <3>3. Remaining(s) \in SUBSET U BY DEF Remaining
    <3>4. f[Remaining(s)] = g[Remaining(s)] BY <1>4, <3>2, <3>3
    <3>5. v[Picked(s)] = w[Picked(s)] BY <3>1
    <3>q. QED BY <1>2, <3>1, <3>4, <3>5
  <2>q. QED BY <2>1
<1>5. Nat \subseteq Done
  <2> HIDE DEF Done
  <2>q. QED BY <1>3, <1>4, NaturalsByInduction
<1>6. Cardinality(U) \in Done BY <1>1, <1>5
<1>q. QED BY <1>6

-----------------------------------------------------------------------------
(* The sum of a function over a finite set.                                *)

TotalOf(v, S) == MapThenSumSet(LAMBDA x : v[x], S)

LEMMA TotalIsChosen ==
  ASSUME NEW v, NEW S
  PROVE  TotalOf(v, S) = (CHOOSE f : IsFold(f, v, S))[S]
BY DEF TotalOf, MapThenSumSet, MapThenFoldSet, IsFold, Picked, Remaining

\* Every fold of v over S gives its total.
LEMMA FoldIsTotal ==
  ASSUME NEW v, NEW S, IsFiniteSet(S), NEW f, IsFold(f, v, S)
  PROVE  f[S] = TotalOf(v, S)
<1>1. IsFold(CHOOSE g : IsFold(g, v, S), v, S) OBVIOUS
<1>2. PICK g : g = CHOOSE h : IsFold(h, v, S) OBVIOUS
<1>3. IsFold(g, v, S) BY <1>1, <1>2
<1>4. f[S] = g[S] BY <1>3, FoldsAgree
<1>q. QED BY <1>2, <1>4, TotalIsChosen

\* Inside a fold over S, the total of a subset.
LEMMA FoldWithin ==
  ASSUME NEW v, NEW S, IsFiniteSet(S), NEW f, IsFold(f, v, S), NEW s \in SUBSET S
  PROVE  f[s] = TotalOf(v, s)
<1>1. IsFiniteSet(s) BY FS_Subset
<1>2. PICK g : IsFold(g, v, s) BY <1>1, FoldExists
<1>3. g[s] = TotalOf(v, s) BY <1>1, <1>2, FoldIsTotal
<1>4. f[s] = g[s] BY <1>1, <1>2, FoldsAgree
<1>q. QED BY <1>3, <1>4

LEMMA TotalOfNone ==
  ASSUME NEW v PROVE TotalOf(v, {}) = 0
<1>1. IsFiniteSet({}) BY FS_EmptySet
<1>2. PICK f : IsFold(f, v, {}) BY <1>1, FoldExists
<1>3. f[{}] = 0 BY <1>2 DEF IsFold
<1>q. QED BY <1>1, <1>2, <1>3, FoldIsTotal

LEMMA TotalOfPicked ==
  ASSUME NEW v, NEW S, IsFiniteSet(S), S # {}
  PROVE  TotalOf(v, S) = v[Picked(S)] + TotalOf(v, Remaining(S))
<1>1. PICK f : IsFold(f, v, S) BY FoldExists
<1>2. Remaining(S) \in SUBSET S /\ S \in SUBSET S BY DEF Remaining
<1>3. f[S] = v[Picked(S)] + f[Remaining(S)] BY <1>1, <1>2 DEF IsFold
<1>4. f[S] = TotalOf(v, S) /\ f[Remaining(S)] = TotalOf(v, Remaining(S)) BY <1>1, <1>2, FoldWithin
<1>q. QED BY <1>3, <1>4

\* What the total is depends on the values only.
LEMMA TotalSame ==
  ASSUME NEW v, NEW w, NEW S, IsFiniteSet(S), \A x \in S : v[x] = w[x]
  PROVE  TotalOf(v, S) = TotalOf(w, S)
<1>1. PICK f : IsFold(f, v, S) BY FoldExists
<1>2. PICK g : IsFold(g, w, S) BY FoldExists
<1>3. f[S] = g[S] BY <1>1, <1>2, FoldsAgree
<1>q. QED BY <1>1, <1>2, <1>3, FoldIsTotal

LEMMA TotalInt ==
  ASSUME NEW S, IsFiniteSet(S), NEW v, \A x \in S : v[x] \in Int
  PROVE  TotalOf(v, S) \in Int
<1> DEFINE P == {s \in SUBSET S : TotalOf(v, s) \in Int}
<1>1. {} \in P BY TotalOfNone
<1>2. ASSUME NEW s \in SUBSET S, s # {}, \A x \in s : s \ {x} \in P
      PROVE  s \in P
  <2>1. IsFiniteSet(s) BY FS_Subset
  <2>2. Picked(s) \in s /\ Remaining(s) = s \ {Picked(s)} BY <1>2, PickIsElement DEF Remaining
  <2>3. TotalOf(v, s) = v[Picked(s)] + TotalOf(v, Remaining(s)) BY <1>2, <2>1, TotalOfPicked
  <2>4. v[Picked(s)] \in Int /\ TotalOf(v, Remaining(s)) \in Int BY <1>2, <2>2
  <2>q. QED BY <2>3, <2>4
<1>3. SUBSET S \subseteq P
  <2> HIDE DEF P
  <2>q. QED BY <1>1, <1>2, SubsetsByInduction
<1>4. S \in P BY <1>3
<1>q. QED BY <1>4

\* The elements may be taken in any order.
LEMMA TotalWithout ==
  ASSUME NEW S, IsFiniteSet(S), NEW v, \A x \in S : v[x] \in Int
  PROVE  /\ TotalOf(v, S) \in Int
         /\ \A x \in S : TotalOf(v, S) = v[x] + TotalOf(v, S \ {x})
<1> DEFINE Holds(s) == /\ TotalOf(v, s) \in Int
                       /\ \A x \in s : TotalOf(v, s) = v[x] + TotalOf(v, s \ {x})
           P == {s \in SUBSET S : Holds(s)}
<1>1. {} \in P BY TotalOfNone
<1>2. ASSUME NEW s \in SUBSET S, s # {}, \A x \in s : s \ {x} \in P
      PROVE  s \in P
  <2>1. IsFiniteSet(s) BY FS_Subset
  <2>2. PICK p : p = Picked(s) OBVIOUS
  <2>3. p \in s /\ Remaining(s) = s \ {p} BY <1>2, <2>2, PickIsElement DEF Remaining
  <2>4. TotalOf(v, s) = v[p] + TotalOf(v, s \ {p})
    <3>1. TotalOf(v, s) = v[Picked(s)] + TotalOf(v, Remaining(s))
      BY <1>2, <2>1, TotalOfPicked
    <3>q. QED BY <2>2, <2>3, <3>1
  <2>5. Holds(s \ {p}) /\ v[p] \in Int BY <1>2, <2>3
  <2>6. ASSUME NEW x \in s PROVE TotalOf(v, s) = v[x] + TotalOf(v, s \ {x})
    <3>1. CASE x = p BY <2>4, <3>1
    <3>2. CASE x # p
      <4>1. PICK both : both = s \ {p, x} OBVIOUS
      <4>2. (s \ {p}) \ {x} = both /\ (s \ {x}) \ {p} = both BY <4>1
      <4>3. x \in s \ {p} /\ p \in s \ {x} BY <2>3, <3>2
      <4>4. Holds(s \ {x}) BY <1>2
      <4>5. TotalOf(v, s \ {p}) = v[x] + TotalOf(v, both) BY <2>5, <4>2, <4>3
      <4>6. TotalOf(v, s \ {x}) = v[p] + TotalOf(v, both) BY <4>2, <4>3, <4>4
      <4>7. TotalOf(v, both) \in Int
        <5>1. IsFiniteSet(both) /\ both \subseteq S BY <2>1, <4>1, FS_Subset
        <5>q. QED BY <5>1, TotalInt
      <4>8. v[x] \in Int OBVIOUS
      <4>q. QED BY <2>4, <2>5, <4>5, <4>6, <4>7, <4>8
    <3>q. QED BY <3>1, <3>2
  <2>7. TotalOf(v, s) \in Int BY <2>4, <2>5
  <2>q. QED BY <2>6, <2>7
<1>3. SUBSET S \subseteq P
  <2> HIDE DEF P
  <2>q. QED BY <1>1, <1>2, SubsetsByInduction
<1>4. S \in P BY <1>3
<1>q. QED BY <1>4

LEMMA TotalNat ==
  ASSUME NEW S, IsFiniteSet(S), NEW v, \A x \in S : v[x] \in Nat
  PROVE  TotalOf(v, S) \in Nat
<1> DEFINE P == {s \in SUBSET S : TotalOf(v, s) \in Nat}
<1>1. {} \in P BY TotalOfNone
<1>2. ASSUME NEW s \in SUBSET S, s # {}, \A x \in s : s \ {x} \in P
      PROVE  s \in P
  <2>1. IsFiniteSet(s) BY FS_Subset
  <2>2. Picked(s) \in s /\ Remaining(s) = s \ {Picked(s)} BY <1>2, PickIsElement DEF Remaining
  <2>3. TotalOf(v, s) = v[Picked(s)] + TotalOf(v, Remaining(s)) BY <1>2, <2>1, TotalOfPicked
  <2>4. v[Picked(s)] \in Nat /\ TotalOf(v, Remaining(s)) \in Nat BY <1>2, <2>2
  <2>q. QED BY <2>3, <2>4
<1>3. SUBSET S \subseteq P
  <2> HIDE DEF P
  <2>q. QED BY <1>1, <1>2, SubsetsByInduction
<1>4. S \in P BY <1>3
<1>q. QED BY <1>4

LEMMA TotalOfOne ==
  ASSUME NEW x, NEW v, v[x] \in Int
  PROVE  TotalOf(v, {x}) = v[x]
<1>1. IsFiniteSet({x}) BY FS_Singleton
<1>2. TotalOf(v, {x}) = v[x] + TotalOf(v, {x} \ {x}) BY <1>1, TotalWithout
<1>3. {x} \ {x} = {} OBVIOUS
<1>q. QED BY <1>2, <1>3, TotalOfNone

\* Two sets that share nothing.
LEMMA TotalOfUnion ==
  ASSUME NEW S, IsFiniteSet(S), NEW T, IsFiniteSet(T), S \cap T = {},
         NEW v, \A x \in S \cup T : v[x] \in Int
  PROVE  TotalOf(v, S \cup T) = TotalOf(v, S) + TotalOf(v, T)
<1> DEFINE P == {s \in SUBSET S : TotalOf(v, s \cup T) = TotalOf(v, s) + TotalOf(v, T)}
<1>1. {} \in P
  <2>1. {} \cup T = T OBVIOUS
  <2>2. TotalOf(v, T) \in Int BY TotalInt
  <2>q. QED BY <2>1, <2>2, TotalOfNone
<1>2. ASSUME NEW s \in SUBSET S, s # {}, \A x \in s : s \ {x} \in P
      PROVE  s \in P
  <2>1. PICK x : x \in s BY <1>2
  <2>2. IsFiniteSet(s) /\ IsFiniteSet(s \cup T) BY FS_Subset, FS_Union
  <2>3. TotalOf(v, s) = v[x] + TotalOf(v, s \ {x}) BY <2>1, <2>2, TotalWithout
  <2>4. PICK u : u = s \cup T OBVIOUS
  <2>5. u \ {x} = (s \ {x}) \cup T BY <2>1, <2>4
  <2>6. \A y \in u : v[y] \in Int BY <2>4
  <2>7. x \in u /\ IsFiniteSet(u) BY <2>1, <2>2, <2>4
  <2>8. TotalOf(v, u) = v[x] + TotalOf(v, u \ {x}) BY <2>6, <2>7, TotalWithout
  <2>9. TotalOf(v, (s \ {x}) \cup T) = TotalOf(v, s \ {x}) + TotalOf(v, T) BY <1>2, <2>1
  <2>10. TotalOf(v, s \ {x}) \in Int /\ TotalOf(v, T) \in Int /\ v[x] \in Int
    <3>1. IsFiniteSet(s \ {x}) BY <2>2, FS_Subset
    <3>q. QED BY <2>1, <3>1, TotalInt
  <2>11. TotalOf(v, u \ {x}) = TotalOf(v, s \ {x}) + TotalOf(v, T) BY <2>5, <2>9
  <2>12. TotalOf(v, u) = TotalOf(v, s) + TotalOf(v, T)
    BY <2>3, <2>8, <2>10, <2>11
  <2>q. QED BY <2>4, <2>12
<1>3. SUBSET S \subseteq P
  <2> HIDE DEF P
  <2>q. QED BY <1>1, <1>2, SubsetsByInduction
<1>4. S \in P BY <1>3
<1>q. QED BY <1>4

\* A part of what is counted is no more than the whole.
LEMMA TotalOfPart ==
  ASSUME NEW S, IsFiniteSet(S), NEW T \in SUBSET S, NEW v, \A x \in S : v[x] \in Nat
  PROVE  TotalOf(v, T) <= TotalOf(v, S)
<1>1. IsFiniteSet(T) /\ IsFiniteSet(S \ T) BY FS_Subset, FS_Difference
<1>2. S = T \cup (S \ T) /\ T \cap (S \ T) = {} OBVIOUS
<1>3. \A x \in T \cup (S \ T) : v[x] \in Int OBVIOUS
<1>4. TotalOf(v, T \cup (S \ T)) = TotalOf(v, T) + TotalOf(v, S \ T) BY <1>1, <1>2, <1>3, TotalOfUnion
<1>5. TotalOf(v, T) \in Nat /\ TotalOf(v, S \ T) \in Nat BY <1>1, TotalNat
<1>6. TotalOf(v, S) = TotalOf(v, T) + TotalOf(v, S \ T) BY <1>2, <1>4
<1>q. QED BY <1>5, <1>6

\* A set has as many elements as there are ones in its sum.
LEMMA CardinalityIsTotal ==
  ASSUME NEW S, IsFiniteSet(S), NEW v, \A x \in S : v[x] = 1
  PROVE  TotalOf(v, S) = Cardinality(S)
<1> DEFINE P == {s \in SUBSET S : TotalOf(v, s) = Cardinality(s)}
<1>1. {} \in P BY TotalOfNone, FS_EmptySet
<1>2. ASSUME NEW s \in SUBSET S, s # {}, \A x \in s : s \ {x} \in P
      PROVE  s \in P
  <2>1. PICK x : x \in s BY <1>2
  <2>2. IsFiniteSet(s) BY FS_Subset
  <2>3. v[x] = 1 /\ \A y \in s : v[y] \in Int BY <2>1
  <2>4. TotalOf(v, s) = v[x] + TotalOf(v, s \ {x}) BY <2>1, <2>2, <2>3, TotalWithout
  <2>5. Cardinality(s \ {x}) = Cardinality(s) - 1 BY <2>1, <2>2, FS_RemoveElement
  <2>6. Cardinality(s) \in Nat BY <2>2, FS_CardinalityType
  <2>7. TotalOf(v, s \ {x}) = Cardinality(s \ {x}) BY <1>2, <2>1
  <2>q. QED BY <2>3, <2>4, <2>5, <2>6, <2>7
<1>3. SUBSET S \subseteq P
  <2> HIDE DEF P
  <2>q. QED BY <1>1, <1>2, SubsetsByInduction
<1>4. S \in P BY <1>3
<1>q. QED BY <1>4

ClassOf(S, c, g) == {x \in S : c[x] = g}

\* Counted class by class: c says which class, u what each class comes to.
LEMMA TotalByClass ==
  ASSUME NEW G, IsFiniteSet(G), NEW S, IsFiniteSet(S), NEW c, \A x \in S : c[x] \in G,
         NEW v, \A x \in S : v[x] \in Int,
         NEW u, \A g \in G : u[g] = TotalOf(v, ClassOf(S, c, g))
  PROVE  TotalOf(v, S) = TotalOf(u, G)
<1> DEFINE In(K) == {x \in S : c[x] \in K}
           P == {K \in SUBSET G : TotalOf(v, In(K)) = TotalOf(u, K)}
<1>1. {} \in P
  <2>1. In({}) = {} OBVIOUS
  <2>q. QED BY <2>1, TotalOfNone
<1>2. ASSUME NEW K \in SUBSET G, K # {}, \A g \in K : K \ {g} \in P
      PROVE  K \in P
  <2>1. PICK g : g \in K BY <1>2
  <2>2. PICK one : one = ClassOf(S, c, g) OBVIOUS
  <2>3. PICK rest : rest = In(K \ {g}) OBVIOUS
  <2>4. In(K) = one \cup rest /\ one \cap rest = {} 
    BY <2>1, <2>2, <2>3 DEF ClassOf
  <2>5. one \subseteq S /\ rest \subseteq S BY <2>2, <2>3 DEF ClassOf
  <2>6. IsFiniteSet(one) /\ IsFiniteSet(rest) /\ IsFiniteSet(K) BY <2>5, FS_Subset
  <2>7. \A x \in one \cup rest : v[x] \in Int BY <2>5
  <2>8. TotalOf(v, one \cup rest) = TotalOf(v, one) + TotalOf(v, rest)
    BY <2>4, <2>6, <2>7, TotalOfUnion
  <2>9. \A h \in K : u[h] \in Int
    <3>1. ASSUME NEW h \in K PROVE u[h] \in Int
      <4>1. PICK of : of = ClassOf(S, c, h) OBVIOUS
      <4>2. IsFiniteSet(of) /\ \A x \in of : v[x] \in Int BY <4>1, FS_Subset DEF ClassOf
      <4>3. TotalOf(v, of) \in Int BY <4>2, TotalInt
      <4>4. u[h] = TotalOf(v, ClassOf(S, c, h)) OBVIOUS
      <4>q. QED BY <4>1, <4>3, <4>4
    <3>q. QED BY <3>1
  <2>10. TotalOf(u, K) = u[g] + TotalOf(u, K \ {g}) BY <2>1, <2>6, <2>9, TotalWithout
  <2>11. u[g] = TotalOf(v, one) BY <2>1, <2>2
  <2>12. TotalOf(v, rest) = TotalOf(u, K \ {g}) BY <1>2, <2>1, <2>3
  <2>13. TotalOf(v, In(K)) = TotalOf(u, K) BY <2>4, <2>8, <2>10, <2>11, <2>12
  <2>q. QED BY <2>13
<1>3. SUBSET G \subseteq P
  <2> HIDE DEF P
  <2>q. QED BY <1>1, <1>2, SubsetsByInduction
<1>4. G \in P BY <1>3
<1>5. In(G) = S OBVIOUS
<1>q. QED BY <1>4, <1>5

\* Counted under other names: f gives every x of S one of T, and each its own.
LEMMA TotalRenamed ==
  ASSUME NEW S, IsFiniteSet(S), NEW T, IsFiniteSet(T), NEW f,
         \A x \in S : f[x] \in T,
         \A x, y \in S : f[x] = f[y] => x = y,
         \A t \in T : \E x \in S : f[x] = t,
         NEW v, NEW u, \A x \in S : v[x] \in Int /\ u[f[x]] = v[x]
  PROVE  TotalOf(v, S) = TotalOf(u, T)
<1>1. ASSUME NEW t \in T PROVE u[t] = TotalOf(v, ClassOf(S, f, t))
  <2>1. PICK x \in S : f[x] = t OBVIOUS
  <2>2. ClassOf(S, f, t) = {x} BY <2>1 DEF ClassOf
  <2>3. v[x] \in Int /\ u[t] = v[x] BY <2>1
  <2>q. QED BY <2>2, <2>3, TotalOfOne
<1>2. \A x \in S : v[x] \in Int OBVIOUS
<1>q. QED BY <1>1, <1>2, TotalByClass

-----------------------------------------------------------------------------
(* The least and the greatest.                                             *)

LEMMA MinIsLeast ==
  ASSUME NEW S, IsFiniteSet(S), S # {}, S \subseteq Int
  PROVE  /\ Min(S) \in S
         /\ \A y \in S : Min(S) <= y
<1> DEFINE P == {s \in SUBSET S : s # {} => \E x \in s : \A y \in s : x <= y}
<1>1. {} \in P OBVIOUS
<1>2. ASSUME NEW s \in SUBSET S, s # {}, \A x \in s : s \ {x} \in P
      PROVE  s \in P
  <2>1. PICK z : z \in s BY <1>2
  <2>2. CASE s \ {z} = {}
    <3>1. s = {z} /\ z \in Int BY <2>1, <2>2
    <3>q. QED BY <3>1
  <2>3. CASE s \ {z} # {}
    <3>1. PICK x \in s \ {z} : \A y \in s \ {z} : x <= y BY <1>2, <2>1, <2>3
    <3>2. x \in Int /\ z \in Int /\ s \subseteq Int BY <2>1
    <3>3. CASE x <= z BY <3>1, <3>3
    <3>4. CASE ~(x <= z)
      <4>1. \A y \in s : z <= y BY <3>1, <3>2, <3>4
      <4>q. QED BY <2>1, <4>1
    <3>q. QED BY <3>3, <3>4
  <2>q. QED BY <2>2, <2>3
<1>3. SUBSET S \subseteq P
  <2> HIDE DEF P
  <2>q. QED BY <1>1, <1>2, SubsetsByInduction
<1>4. \E x \in S : \A y \in S : x <= y BY <1>3
<1>q. QED BY <1>4 DEF Min

LEMMA MaxIsGreatest ==
  ASSUME NEW S, IsFiniteSet(S), S # {}, S \subseteq Int
  PROVE  /\ Max(S) \in S
         /\ \A y \in S : y <= Max(S)
<1> DEFINE P == {s \in SUBSET S : s # {} => \E x \in s : \A y \in s : x >= y}
<1>1. {} \in P OBVIOUS
<1>2. ASSUME NEW s \in SUBSET S, s # {}, \A x \in s : s \ {x} \in P
      PROVE  s \in P
  <2>1. PICK z : z \in s BY <1>2
  <2>2. CASE s \ {z} = {}
    <3>1. s = {z} /\ z \in Int BY <2>1, <2>2
    <3>q. QED BY <3>1
  <2>3. CASE s \ {z} # {}
    <3>1. PICK x \in s \ {z} : \A y \in s \ {z} : x >= y BY <1>2, <2>1, <2>3
    <3>2. x \in Int /\ z \in Int /\ s \subseteq Int BY <2>1
    <3>3. CASE x >= z BY <3>1, <3>3
    <3>4. CASE ~(x >= z)
      <4>1. \A y \in s : z >= y BY <3>1, <3>2, <3>4
      <4>q. QED BY <2>1, <4>1
    <3>q. QED BY <3>3, <3>4
  <2>q. QED BY <2>2, <2>3
<1>3. SUBSET S \subseteq P
  <2> HIDE DEF P
  <2>q. QED BY <1>1, <1>2, SubsetsByInduction
<1>4. \E x \in S : \A y \in S : x >= y BY <1>3
<1>5. Max(S) \in S /\ \A y \in S : Max(S) >= y BY <1>4 DEF Max
<1>6. \A y \in S : y <= Max(S) BY <1>5
<1>q. QED BY <1>5, <1>6

-----------------------------------------------------------------------------
(* One behaviour, five topics.                                             *)

readVars == <<topic, vars, retentionVars, healthVars, weeklyVars, reportVars>>

\* A behaviour is of one topic; what it is not of stands.
LEMMA OneTopic ==
  ASSUME [ReadNext]_readVars
  PROVE  /\ topic' = topic
         /\ [Next]_vars /\ [R!Next]_(R!vars)
         /\ topic = "health" => [H!Next]_healthVars
         /\ topic = "weekly" => [W!Next]_weeklyVars
         /\ topic = "economy" => [E!Next]_(E!vars)
BY DEF ReadNext, OfCopies, OfRetention, OfHealth, OfWeekly, OfEconomy, Rest,
       readVars, retentionVars, healthVars, weeklyVars, reportVars, vars,
       R!vars, E!vars, E!tables

-----------------------------------------------------------------------------
(* Counting.                                                               *)

LEMMA DivGrows ==
  ASSUME NEW n \in Nat, n > 0, NEW a \in Nat, NEW b \in Nat, a <= b
  PROVE  a \div n <= b \div n
<1>1. PICK q \in Int, r \in Int : q = a \div n /\ r = a % n OBVIOUS
<1>2. PICK s \in Int, t \in Int : s = b \div n /\ t = b % n OBVIOUS
<1>3. a = n * q + r /\ 0 <= r /\ r < n BY <1>1
<1>4. b = n * s + t /\ 0 <= t /\ t < n BY <1>2
<1>5. ASSUME s < q PROVE FALSE
  <2>1. s + 1 <= q BY <1>5
  <2>2. n * (s + 1) <= n * q BY <2>1
  <2>3. n * (s + 1) = n * s + n OBVIOUS
  <2>q. QED BY <1>3, <1>4, <2>2, <2>3
<1>q. QED BY <1>1, <1>2, <1>5

LEMMA SameCardinality ==
  ASSUME NEW S, IsFiniteSet(S), NEW f, NEW T, T = Image(f, S), NEW g, S = Image(g, T)
  PROVE  Cardinality(S) = Cardinality(T) /\ IsFiniteSet(T)
<1>1. IsFiniteSet(T) /\ Cardinality(T) <= Cardinality(S) BY ImageIsFinite
<1>2. Cardinality(S) <= Cardinality(T) BY <1>1, ImageIsFinite
<1>3. Cardinality(S) \in Nat /\ Cardinality(T) \in Nat BY <1>1, FS_CardinalityType
<1>q. QED BY <1>1, <1>2, <1>3

\* The totals of the classes add up, when each is kept with a record of its key.
LEMMA SplitTotals ==
  ASSUME NEW S, IsFiniteSet(S), NEW c, NEW G, IsFiniteSet(G), \A x \in S : c[x] \in G,
         NEW v, \A x \in S : v[x] \in Int,
         NEW rec, \A g, k \in G : rec[g] = rec[k] => g = k,
         NEW u, \A g \in G : u[rec[g]] = TotalOf(v, ClassOf(S, c, g))
  PROVE  TotalOf(u, Image(rec, G)) = TotalOf(v, S)
<1> DEFINE w == [g \in G |-> TotalOf(v, ClassOf(S, c, g))]
<1>1. TotalOf(v, S) = TotalOf(w, G) BY TotalByClass
<1>2. ASSUME NEW g \in G PROVE w[g] \in Int
  <2>1. ClassOf(S, c, g) \subseteq S BY DEF ClassOf
  <2>2. IsFiniteSet(ClassOf(S, c, g)) BY <2>1, FS_Subset
  <2>3. TotalOf(v, ClassOf(S, c, g)) \in Int BY <2>1, <2>2, TotalInt
  <2>q. QED BY <2>3
<1>3. IsFiniteSet(Image(rec, G)) BY ImageIsFinite
<1>4. /\ \A g \in G : rec[g] \in Image(rec, G)
      /\ \A t \in Image(rec, G) : \E g \in G : rec[g] = t
  BY DEF Image
<1>5. \A g \in G : u[rec[g]] = w[g] OBVIOUS
<1> HIDE DEF w
<1>6. TotalOf(w, G) = TotalOf(u, Image(rec, G)) BY <1>2, <1>3, <1>4, <1>5, TotalRenamed
<1>q. QED BY <1>1, <1>6

\* The totals that count: one for each.
LEMMA SplitCounts ==
  ASSUME NEW S, IsFiniteSet(S), NEW c, NEW G, IsFiniteSet(G), \A x \in S : c[x] \in G,
         NEW rec, \A g, k \in G : rec[g] = rec[k] => g = k,
         NEW u, \A g \in G : u[rec[g]] = Cardinality(ClassOf(S, c, g))
  PROVE  TotalOf(u, Image(rec, G)) = Cardinality(S)
<1> DEFINE v == [x \in S |-> 1]
<1>1. TotalOf(v, S) = Cardinality(S) BY CardinalityIsTotal
<1>2. ASSUME NEW g \in G PROVE u[rec[g]] = TotalOf(v, ClassOf(S, c, g))
  <2>1. ClassOf(S, c, g) \subseteq S BY DEF ClassOf
  <2>2. IsFiniteSet(ClassOf(S, c, g)) BY <2>1, FS_Subset
  <2>3. TotalOf(v, ClassOf(S, c, g)) = Cardinality(ClassOf(S, c, g))
    BY <2>1, <2>2, CardinalityIsTotal
  <2>q. QED BY <2>3
<1>3. \A x \in S : v[x] \in Int OBVIOUS
<1> HIDE DEF v
<1>4. TotalOf(u, Image(rec, G)) = TotalOf(v, S) BY <1>2, <1>3, SplitTotals
<1>q. QED BY <1>1, <1>4

-----------------------------------------------------------------------------
(* The weekly report.                                                      *)

IsSeq(s) == \E S : s \in Seq(S)

RowFields == {"window", "status", "payload", "rendered", "delivered"}

\* The row of a run holds the words and the status v.
RowHolds(r, words, status) ==
  makings[r].row # W!NoRow =>
    /\ makings[r].row \in DOMAIN reports
    /\ reports[makings[r].row].rendered = words
    /\ reports[makings[r].row].status = status

\* Run r has posted, and its row, if it has one, holds what it posted.
HasPosted(r) == \E m \in channel : m.by = r /\ RowHolds(r, m.body, m.status)

RunOK(r) ==
  /\ W!At(r, "building") => "pc" \in DOMAIN makings[r]
  /\ makings[r].pc \in {"built", "persisted"} => W!Clamp(makings[r].rendered) = makings[r].rendered
  /\ W!At(r, "persisted") => RowHolds(r, makings[r].rendered, makings[r].status)
  /\ makings[r].pc \in {"posted", "ended"} =>
       makings[r].delivered \in BOOLEAN /\ (makings[r].delivered = TRUE => HasPosted(r))

\* A delivered row was marked by a run which ended, and which posted it.
RowOK(i) ==
  /\ DOMAIN reports[i] = RowFields
  /\ reports[i].delivered \in BOOLEAN
  /\ reports[i].delivered = TRUE =>
       \E r \in W!Runs :
         /\ W!At(r, "ended") /\ makings[r].row = i
         /\ \E m \in channel :
              m.by = r /\ m.body = reports[i].rendered /\ m.status = reports[i].status

WeeklyIInv ==
  /\ plan \in Plans /\ IsSeq(reports) /\ IsFiniteSet(channel)
  /\ makings = [r \in W!Runs |-> makings[r]]
  /\ \A r \in W!Runs : RunOK(r)
  /\ \A i \in DOMAIN reports : RowOK(i)

-----------------------------------------------------------------------------
(* Lines.                                                                  *)

\* A function on the first numbers is a sequence.
LEMMA FunctionIsSeq ==
  ASSUME NEW n \in Nat, NEW f, f = [i \in 1..n |-> f[i]]
  PROVE  IsSeq(f)
<1> DEFINE S == {f[i] : i \in 1..n}
<1>1. f \in [1..n -> S] OBVIOUS
<1>2. f \in Seq(S) BY <1>1, SeqDef
<1>q. QED BY <1>2 DEF IsSeq

LEMMA SeqWidens ==
  ASSUME NEW S, NEW T, NEW s \in Seq(S), S \subseteq T
  PROVE  s \in Seq(T)
<1>1. PICK n \in Nat : s \in [1..n -> S] BY SeqDef
<1>2. s \in [1..n -> T] BY <1>1
<1>q. QED BY <1>2, SeqDef

LEMMA ConcatIsSeq ==
  ASSUME NEW s, NEW t, IsSeq(s), IsSeq(t)
  PROVE  IsSeq(s \o t)
<1>1. PICK S : s \in Seq(S) BY DEF IsSeq
<1>2. PICK T : t \in Seq(T) BY DEF IsSeq
<1>3. s \in Seq(S \cup T) BY <1>1, SeqWidens
<1>4. t \in Seq(S \cup T) BY <1>2, SeqWidens
<1>5. s \o t \in Seq(S \cup T) BY <1>3, <1>4, ConcatProperties
<1>q. QED BY <1>5 DEF IsSeq

LEMMA AppendIsSeq ==
  ASSUME NEW s, NEW e, IsSeq(s)
  PROVE  /\ Len(s) \in Nat /\ DOMAIN s = 1..Len(s)
         /\ IsSeq(Append(s, e))
         /\ Len(Append(s, e)) = Len(s) + 1
         /\ DOMAIN Append(s, e) = 1..(Len(s) + 1)
         /\ \A i \in 1..Len(s) : Append(s, e)[i] = s[i]
         /\ Append(s, e)[Len(s) + 1] = e
<1>1. PICK S : s \in Seq(S) BY DEF IsSeq
<1>2. s \in Seq(S \cup {e}) BY <1>1, SeqWidens
<1>3. e \in S \cup {e} OBVIOUS
<1>4. Append(s, e) \in Seq(S \cup {e}) BY <1>2, <1>3, AppendProperties
<1>5. IsSeq(Append(s, e)) BY <1>4 DEF IsSeq
<1>6. Len(s) \in Nat /\ DOMAIN s = 1..Len(s) BY <1>1, LenProperties
<1>7. /\ Len(Append(s, e)) = Len(s) + 1
      /\ \A i \in 1..Len(s) : Append(s, e)[i] = s[i]
      /\ Append(s, e)[Len(s) + 1] = e
  BY <1>2, <1>3, AppendProperties
<1>8. DOMAIN Append(s, e) = 1..(Len(s) + 1) BY <1>4, <1>7, LenProperties
<1>q. QED BY <1>5, <1>6, <1>7, <1>8

LEMMA OneLineIsSeq ==
  ASSUME NEW e PROVE IsSeq(<<e>>)
<1>1. <<e>> \in Seq({e}) OBVIOUS
<1>q. QED BY <1>1 DEF IsSeq

LEMMA NoLineIsSeq == IsSeq(<<>>)
<1>1. <<>> \in Seq({}) OBVIOUS
<1>q. QED BY <1>1 DEF IsSeq

\* What was cut to fit is not cut again.
LEMMA ClampTwice ==
  ASSUME W!Settings, NEW l, IsSeq(l)
  PROVE  W!Clamp(W!Clamp(l)) = W!Clamp(l)
<1>1. CASE Len(l) <= MaxLines BY <1>1 DEF W!Clamp
<1>2. CASE ~(Len(l) <= MaxLines)
  <2> DEFINE kept == SubSeq(l, 1, MaxLines - 1)
  <2>1. PICK S : l \in Seq(S) BY DEF IsSeq
  <2>2. Len(l) \in Nat /\ MaxLines \in Nat \ {0} /\ MaxLines < Len(l)
    BY <1>2, <2>1, LenProperties DEF W!Settings
  <2>3. kept \in Seq(S) /\ Len(kept) = MaxLines - 1
    BY <2>1, <2>2, SubSeqProperties
  <2>4. IsSeq(kept) BY <2>3 DEF IsSeq
  <2> HIDE DEF kept
  <2>5. Len(Append(kept, [line |-> "cut"])) = MaxLines
    BY <2>2, <2>3, <2>4, AppendIsSeq
  <2>6. W!Clamp(l) = Append(kept, [line |-> "cut"]) BY <1>2 DEF W!Clamp, kept
  <2>7. Len(W!Clamp(l)) <= MaxLines BY <2>2, <2>5, <2>6
  <2>q. QED BY <2>7 DEF W!Clamp
<1>q. QED BY <1>1, <1>2

LEMMA FunnelLinesAreSeq ==
  ASSUME NEW funnel PROVE IsSeq(W!FunnelLines(funnel))
<1> DEFINE broken == {s \in {funnel.survival, funnel.tutorial} : ~s.ok}
           counts == [ i \in 1..4 |-> [ line |-> "count", of |-> funnel.bucket.counts[i],
                                        coverage |-> funnel.coverage[i] ] ]
           shares == [i \in 1..3 |-> [line |-> "conversion", of |-> funnel.bucket.conversions[i]]]
           out == IF broken = {} THEN <<>>
                  ELSE <<[line |-> "sources out", failures |-> {s.failure : s \in broken}]>>
<1>1. IsSeq(counts)
  <2>1. counts = [i \in 1..4 |-> counts[i]] OBVIOUS
  <2> HIDE DEF counts
  <2>q. QED BY <2>1, FunctionIsSeq
<1>2. IsSeq(shares)
  <2>1. shares = [i \in 1..3 |-> shares[i]] OBVIOUS
  <2> HIDE DEF shares
  <2>q. QED BY <2>1, FunctionIsSeq
<1>3. IsSeq(out)
  <2>1. CASE broken = {} BY <2>1, NoLineIsSeq
  <2>2. CASE broken # {} BY <2>2, OneLineIsSeq
  <2>q. QED BY <2>1, <2>2
<1>4. W!FunnelLines(funnel) = counts \o shares \o out BY DEF W!FunnelLines
<1> HIDE DEF counts, shares, out
<1>5. IsSeq(counts \o shares) BY <1>1, <1>2, ConcatIsSeq
<1>6. IsSeq((counts \o shares) \o out) BY <1>5, <1>3, ConcatIsSeq
<1>q. QED BY <1>4, <1>6

LEMMA RetentionLinesAreSeq ==
  ASSUME W!Settings, NEW retention, retention.cohorts \in Nat
  PROVE  IsSeq(W!RetentionLines(retention))
<1> DEFINE shown == W!Min({retention.cohorts, MaxCohortLines})
           cohorts == [i \in 1..shown |-> [line |-> "cohort", of |-> i]]
           more == IF shown = retention.cohorts THEN <<>>
                   ELSE <<[line |-> "more", of |-> retention.cohorts - shown]>>
           blanked == IF retention.blanked = 0 THEN <<>>
                      ELSE <<[line |-> "blanked", of |-> retention.blanked]>>
<1>1. shown \in Nat
  <2>1. \E x \in {retention.cohorts, MaxCohortLines} :
          \A y \in {retention.cohorts, MaxCohortLines} : x <= y
    BY DEF W!Settings
  <2>2. shown \in {retention.cohorts, MaxCohortLines} BY <2>1 DEF W!Min
  <2>q. QED BY <2>2 DEF W!Settings
<1> HIDE DEF shown
<1>2. IsSeq(cohorts)
  <2>1. cohorts = [i \in 1..shown |-> cohorts[i]] OBVIOUS
  <2> HIDE DEF cohorts
  <2>q. QED BY <1>1, <2>1, FunctionIsSeq
<1>3. IsSeq(more)
  <2>1. CASE shown = retention.cohorts BY <2>1, NoLineIsSeq
  <2>2. CASE shown # retention.cohorts BY <2>2, OneLineIsSeq
  <2>q. QED BY <2>1, <2>2
<1>4. IsSeq(blanked)
  <2>1. CASE retention.blanked = 0 BY <2>1, NoLineIsSeq
  <2>2. CASE retention.blanked # 0 BY <2>2, OneLineIsSeq
  <2>q. QED BY <2>1, <2>2
<1>5. W!RetentionLines(retention) \in
        {<<[line |-> "no table"]>>, <<[line |-> "no cohort"]>>, cohorts \o more \o blanked}
  BY DEF W!RetentionLines, shown
<1>6. IsSeq(<<[line |-> "no table"]>>) BY OneLineIsSeq
<1>7. IsSeq(<<[line |-> "no cohort"]>>) BY OneLineIsSeq
<1> HIDE DEF cohorts, more, blanked
<1>8. IsSeq(cohorts \o more) BY <1>2, <1>3, ConcatIsSeq
<1>9. IsSeq((cohorts \o more) \o blanked) BY <1>8, <1>4, ConcatIsSeq
<1>q. QED BY <1>5, <1>6, <1>7, <1>9

\* A report, or the notice that there is none, fits the channel as it is stored.
LEMMA RenderedFits ==
  ASSUME W!Settings, NEW report, report.retention.cohorts \in Nat
  PROVE  W!Clamp(W!RenderWeeklyReport(report)) = W!RenderWeeklyReport(report)
<1> DEFINE week == <<[line |-> "week", window |-> report.window]>>
<1>1. IsSeq(week) BY OneLineIsSeq
<1>2. IsSeq(W!FunnelLines(report.funnel)) BY FunnelLinesAreSeq
<1>3. IsSeq(W!RetentionLines(report.retention)) BY RetentionLinesAreSeq
<1>4. IsSeq(W!HealthLines(report.health)) BY OneLineIsSeq DEF W!HealthLines
<1> HIDE DEF week
<1>5. IsSeq(week \o W!FunnelLines(report.funnel)) BY <1>1, <1>2, ConcatIsSeq
<1>6. IsSeq((week \o W!FunnelLines(report.funnel)) \o W!RetentionLines(report.retention))
  BY <1>5, <1>3, ConcatIsSeq
<1>7. IsSeq(((week \o W!FunnelLines(report.funnel)) \o W!RetentionLines(report.retention))
              \o W!HealthLines(report.health))
  BY <1>6, <1>4, ConcatIsSeq
<1>8. W!RenderWeeklyReport(report) =
        W!Clamp(((week \o W!FunnelLines(report.funnel)) \o W!RetentionLines(report.retention))
                \o W!HealthLines(report.health))
  BY DEF W!RenderWeeklyReport, week
<1>q. QED BY <1>7, <1>8, ClampTwice

LEMMA FailureFits ==
  ASSUME W!Settings, NEW window
  PROVE  W!Clamp(W!RenderFailure(window)) = W!RenderFailure(window)
<1>1. IsSeq(<<[line |-> "not made", window |-> window]>>) BY OneLineIsSeq
<1>q. QED BY <1>1, ClampTwice DEF W!RenderFailure

-----------------------------------------------------------------------------
(* Steps.                                                                  *)

\* Rows stand, but for their mark.
RowsStand ==
  \A i \in DOMAIN reports :
    /\ i \in DOMAIN reports'
    /\ reports'[i].rendered = reports[i].rendered
    /\ reports'[i].status = reports[i].status

\* A step in which rows and messages stand and no ended run moves: what the
\* others are is to be shown for the runs that move and the rows that change.
LEMMA WeeklyStepKeeps ==
  ASSUME WeeklyIInv, plan' = plan, IsSeq(reports)', IsFiniteSet(channel'),
         makings' = [r \in W!Runs |-> makings'[r]],
         RowsStand, channel \subseteq channel',
         \A r \in W!Runs : makings'[r] = makings[r] \/ (~W!At(r, "ended") /\ RunOK(r)'),
         \A i \in DOMAIN reports' :
           RowOK(i)' \/ (i \in DOMAIN reports /\ reports'[i] = reports[i])
  PROVE  WeeklyIInv'
<1>1. ASSUME NEW r \in W!Runs PROVE RunOK(r)'
  <2>1. CASE RunOK(r)' BY <2>1
  <2>2. CASE makings'[r] = makings[r]
    <3>1. RunOK(r) BY DEF WeeklyIInv
    <3>2. ASSUME NEW b, NEW s, RowHolds(r, b, s) PROVE RowHolds(r, b, s)'
      BY <2>2, <3>2 DEF RowHolds, RowsStand
    <3>3. HasPosted(r) => HasPosted(r)' BY <3>2 DEF HasPosted
    <3>4. W!At(r, "building") => "pc" \in DOMAIN makings[r] BY <3>1 DEF RunOK
    <3>5. W!At(r, "persisted") => RowHolds(r, makings[r].rendered, makings[r].status)
      BY <3>1 DEF RunOK
    <3>6. makings[r].pc \in {"posted", "ended"} =>
            makings[r].delivered \in BOOLEAN /\ (makings[r].delivered = TRUE => HasPosted(r))
      BY <3>1 DEF RunOK
    <3>7. W!At(r, "persisted")' => RowHolds(r, makings[r].rendered, makings[r].status)'
      <4>1. SUFFICES ASSUME W!At(r, "persisted")
                     PROVE RowHolds(r, makings[r].rendered, makings[r].status)'
        BY <2>2 DEF W!At
      <4>2. RowHolds(r, makings[r].rendered, makings[r].status) BY <4>1, <3>5
      <4>q. QED BY <4>2, <2>2 DEF RowHolds, RowsStand
    <3>8. makings[r].pc \in {"built", "persisted"} => W!Clamp(makings[r].rendered) = makings[r].rendered
      BY <3>1 DEF RunOK
    <3>q. QED BY <2>2, <3>3, <3>4, <3>6, <3>7, <3>8 DEF RunOK, W!At
  <2>q. QED BY <2>1, <2>2
<1>2. ASSUME NEW i \in DOMAIN reports' PROVE RowOK(i)'
  <2>1. CASE RowOK(i)' BY <2>1
  <2>2. CASE i \in DOMAIN reports /\ reports'[i] = reports[i]
    <3>1. RowOK(i) BY <2>2 DEF WeeklyIInv
    <3>2. \A r \in W!Runs : W!At(r, "ended") => makings'[r] = makings[r] OBVIOUS
    <3>q. QED BY <2>2, <3>1, <3>2 DEF RowOK, W!At
  <2>q. QED BY <2>1, <2>2
<1>q. QED BY <1>1, <1>2 DEF WeeklyIInv

\* The run of a step is the only one that moves.
LEMMA GoMoves ==
  ASSUME WeeklyIInv, NEW r \in W!Runs, NEW v, W!Go(r, v)
  PROVE  /\ makings' = [q \in W!Runs |-> makings'[q]] /\ makings'[r] = v
         /\ \A q \in W!Runs : q # r => makings'[q] = makings[q]
<1>1. makings = [q \in W!Runs |-> makings[q]] BY DEF WeeklyIInv
<1>q. QED BY <1>1 DEF W!Go

\* A step of a run that neither writes a row nor posts.
LEMMA WeeklyQuietStep ==
  ASSUME WeeklyIInv, NEW r \in W!Runs, NEW v, W!Go(r, v), ~W!At(r, "ended"),
         UNCHANGED <<plan, reports, channel>>, RunOK(r)'
  PROVE  WeeklyIInv'
<1>1. /\ makings' = [q \in W!Runs |-> makings'[q]]
      /\ \A q \in W!Runs : q # r => makings'[q] = makings[q]
  BY GoMoves
<1>2. RowsStand BY DEF RowsStand
<1>3. IsSeq(reports)' /\ IsFiniteSet(channel') BY DEF WeeklyIInv, IsSeq
<1>q. QED BY <1>1, <1>2, <1>3, WeeklyStepKeeps

LEMMA StartStep ==
  ASSUME WeeklyIInv, NEW r \in W!Runs, W!Start(r) PROVE WeeklyIInv'
<1> DEFINE v == [ pc |-> "building", to |-> W!DayOf(now) - 1, survival |-> W!Unread,
                  provenance |-> W!Null, tutorial |-> W!Unread ]
<1>1. W!Go(r, v) /\ W!At(r, "idle") /\ UNCHANGED <<plan, reports, channel>> BY DEF W!Start
<1>2. v.pc = "building" /\ "pc" \in DOMAIN v OBVIOUS
<1> HIDE DEF v
<1>3. makings'[r] = v BY <1>1, GoMoves
<1>4. RunOK(r)' BY <1>2, <1>3 DEF RunOK, W!At
<1>q. QED BY <1>1, <1>4, WeeklyQuietStep DEF W!At

\* What a run reads leaves it building.
LEMMA StillBuilding ==
  ASSUME WeeklyIInv, NEW r \in W!Runs, NEW v, W!Go(r, v), W!At(r, "building"),
         "pc" \in DOMAIN v, v.pc = makings[r].pc,
         UNCHANGED <<plan, reports, channel>>
  PROVE  WeeklyIInv'
<1>1. makings'[r] = v BY GoMoves
<1>2. RunOK(r)' BY <1>1 DEF RunOK, W!At
<1>q. QED BY <1>2, WeeklyQuietStep DEF W!At

LEMMA ReadStep ==
  ASSUME WeeklyIInv, NEW r \in W!Runs,
         \/ \E reply \in W!SurvivalAnswers : W!ReadSurvival(r, reply)
         \/ W!ReadProvenance(r)
         \/ W!ReadTutorial(r)
         \/ \E reply \in W!TutorialAnswers : W!TutorialMissing(r, reply)
  PROVE  WeeklyIInv'
<1>1. W!At(r, "building") => "pc" \in DOMAIN makings[r] BY DEF WeeklyIInv, RunOK
<1>2. ASSUME NEW e, W!Go(r, [makings[r] EXCEPT !.survival = e]), W!At(r, "building"),
             UNCHANGED <<plan, reports, channel>>
      PROVE  WeeklyIInv'
  <2> DEFINE v == [makings[r] EXCEPT !.survival = e]
  <2>1. "pc" \in DOMAIN v /\ v.pc = makings[r].pc BY <1>1, <1>2
  <2>q. QED BY <1>2, <2>1, StillBuilding
<1>3. ASSUME NEW e, W!Go(r, [makings[r] EXCEPT !.provenance = e]), W!At(r, "building"),
             UNCHANGED <<plan, reports, channel>>
      PROVE  WeeklyIInv'
  <2> DEFINE v == [makings[r] EXCEPT !.provenance = e]
  <2>1. "pc" \in DOMAIN v /\ v.pc = makings[r].pc BY <1>1, <1>3
  <2>q. QED BY <1>3, <2>1, StillBuilding
<1>4. ASSUME NEW e, W!Go(r, [makings[r] EXCEPT !.tutorial = e]), W!At(r, "building"),
             UNCHANGED <<plan, reports, channel>>
      PROVE  WeeklyIInv'
  <2> DEFINE v == [makings[r] EXCEPT !.tutorial = e]
  <2>1. "pc" \in DOMAIN v /\ v.pc = makings[r].pc BY <1>1, <1>4
  <2>q. QED BY <1>4, <2>1, StillBuilding
<1>5. ASSUME NEW reply \in W!SurvivalAnswers, W!ReadSurvival(r, reply) PROVE WeeklyIInv'
  BY <1>2, <1>5 DEF W!ReadSurvival
<1>6. ASSUME W!ReadProvenance(r) PROVE WeeklyIInv' BY <1>3, <1>6 DEF W!ReadProvenance
<1>7. ASSUME W!ReadTutorial(r) PROVE WeeklyIInv' BY <1>4, <1>7 DEF W!ReadTutorial
<1>8. ASSUME NEW reply \in W!TutorialAnswers, W!TutorialMissing(r, reply) PROVE WeeklyIInv'
  BY <1>4, <1>8 DEF W!TutorialMissing
<1>q. QED BY <1>5, <1>6, <1>7, <1>8

\* What is rendered is rendered to fit.
LEMMA BuildStep ==
  ASSUME W!Settings, WeeklyIInv, NEW r \in W!Runs,
         (\E health \in HealthSections : W!Build(r, health)) \/ W!BuildFails(r)
  PROVE  WeeklyIInv'
<1>1. ASSUME NEW v, v.pc = "built", W!Clamp(v.rendered) = v.rendered, W!Go(r, v),
             W!At(r, "building"), UNCHANGED <<plan, reports, channel>>
      PROVE  WeeklyIInv'
  <2>1. makings'[r] = v BY <1>1, GoMoves
  <2>2. RunOK(r)' BY <1>1, <2>1 DEF RunOK, W!At
  <2>q. QED BY <1>1, <2>2, WeeklyQuietStep DEF W!At
<1>2. ASSUME NEW health \in HealthSections, W!Build(r, health) PROVE WeeklyIInv'
  <2> DEFINE report == [ window |-> W!WindowOf(makings[r].to),
                     funnel |-> W!FunnelSectionOf(makings[r].survival, makings[r].tutorial),
                     retention |-> plan.retention, health |-> health ]
             v == [ pc |-> "built", status |-> "ok", window |-> report.window, payload |-> report,
                    rendered |-> W!RenderWeeklyReport(report) ]
  <2>1. W!Go(r, v) /\ W!At(r, "building") /\ UNCHANGED <<plan, reports, channel>>
    BY <1>2 DEF W!Build
  <2>2. report.retention.cohorts \in Nat BY DEF WeeklyIInv, W!Settings
  <2> HIDE DEF report
  <2>3. v.pc = "built" /\ W!Clamp(v.rendered) = v.rendered BY <2>2, RenderedFits
  <2> HIDE DEF v
  <2>q. QED BY <1>1, <2>1, <2>3
<1>3. ASSUME W!BuildFails(r) PROVE WeeklyIInv'
  <2> DEFINE w == W!WindowOf(makings[r].to)
             v == [ pc |-> "built", status |-> "error", window |-> w, payload |-> W!NoReport,
                    rendered |-> W!RenderFailure(w) ]
  <2>1. W!Go(r, v) /\ W!At(r, "building") /\ UNCHANGED <<plan, reports, channel>>
    BY <1>3 DEF W!BuildFails
  <2>2. v.pc = "built" /\ W!Clamp(v.rendered) = v.rendered BY FailureFits
  <2> HIDE DEF v
  <2>q. QED BY <1>1, <2>1, <2>2
<1>q. QED BY <1>2, <1>3

LEMMA PersistStep ==
  ASSUME WeeklyIInv, NEW r \in W!Runs, W!Persist(r) PROVE WeeklyIInv'
<1> DEFINE row == [ window |-> makings[r].window, status |-> makings[r].status,
                    payload |-> makings[r].payload, rendered |-> makings[r].rendered,
                    delivered |-> FALSE ]
<1>n. PICK n : n = Len(reports) + 1 OBVIOUS
<1> DEFINE v == [ pc |-> "persisted", status |-> makings[r].status, rendered |-> makings[r].rendered,
                  row |-> n ]
<1>1. /\ W!At(r, "built") /\ W!Go(r, v) /\ reports' = Append(reports, row)
      /\ UNCHANGED <<plan, channel>>
  BY <1>n DEF W!Persist
<1>2. /\ row.rendered = v.rendered /\ row.status = v.status /\ row.delivered = FALSE
      /\ DOMAIN row = RowFields /\ v.pc = "persisted" /\ v.row = n
      /\ v.rendered = makings[r].rendered
  BY DEF RowFields
<1> HIDE DEF row, v
<1>3. IsSeq(reports) BY DEF WeeklyIInv
<1>4. /\ n \in Nat \ {0} /\ DOMAIN reports = 1..(n - 1) /\ DOMAIN reports' = 1..n
      /\ \A i \in DOMAIN reports : reports'[i] = reports[i]
      /\ reports'[n] = row
  BY <1>1, <1>3, <1>n, AppendIsSeq
<1>5. IsSeq(reports)'
  <2>1. IsSeq(Append(reports, row)) BY <1>3, AppendIsSeq
  <2>q. QED BY <1>1, <2>1
<1>6. RowsStand BY <1>4 DEF RowsStand
<1>7. /\ makings' = [q \in W!Runs |-> makings'[q]] /\ makings'[r] = v
      /\ \A q \in W!Runs : q # r => makings'[q] = makings[q]
  BY <1>1, GoMoves
<1>8. W!Clamp(v.rendered) = v.rendered BY <1>1, <1>2 DEF WeeklyIInv, RunOK, W!At
<1>9. RowHolds(r, makings[r].rendered, makings[r].status)'
  BY <1>2, <1>4, <1>7 DEF RowHolds
<1>10. RunOK(r)' BY <1>2, <1>7, <1>8, <1>9 DEF RunOK, W!At
<1>11. RowOK(n)' BY <1>2, <1>4 DEF RowOK
<1>12. IsFiniteSet(channel') BY <1>1 DEF WeeklyIInv
<1>13. \A i \in DOMAIN reports' : i \in DOMAIN reports \/ i = n BY <1>4
<1>14. \A i \in DOMAIN reports' :
         RowOK(i)' \/ (i \in DOMAIN reports /\ reports'[i] = reports[i])
  BY <1>4, <1>11, <1>13
<1>15. ~W!At(r, "ended") BY <1>1 DEF W!At
<1>16. \A q \in W!Runs : makings'[q] = makings[q] \/ (~W!At(q, "ended") /\ RunOK(q)')
  BY <1>7, <1>10, <1>15
<1>q. QED BY <1>1, <1>5, <1>6, <1>7, <1>12, <1>14, <1>16, WeeklyStepKeeps

LEMMA PersistFailsStep ==
  ASSUME WeeklyIInv, NEW r \in W!Runs, W!PersistFails(r) PROVE WeeklyIInv'
<1> DEFINE v == [ pc |-> "persisted", status |-> makings[r].status,
                  rendered |-> makings[r].rendered, row |-> W!NoRow ]
<1>1. W!At(r, "built") /\ W!Go(r, v) /\ UNCHANGED <<plan, reports, channel>>
  BY DEF W!PersistFails
<1>2. v.pc = "persisted" /\ v.rendered = makings[r].rendered /\ v.row = W!NoRow OBVIOUS
<1> HIDE DEF v
<1>3. makings'[r] = v BY <1>1, GoMoves
<1>4. W!Clamp(v.rendered) = v.rendered BY <1>1, <1>2 DEF WeeklyIInv, RunOK, W!At
<1>5. RowHolds(r, makings[r].rendered, makings[r].status)' BY <1>2, <1>3 DEF RowHolds
<1>6. RunOK(r)' BY <1>2, <1>3, <1>4, <1>5 DEF RunOK, W!At
<1>q. QED BY <1>1, <1>6, WeeklyQuietStep DEF W!At

\* The message is of the row: what is clamped again is the same.
LEMMA PublishStep ==
  ASSUME WeeklyIInv, NEW r \in W!Runs, NEW answered \in BOOLEAN, W!Publish(r, answered)
  PROVE  WeeklyIInv'
<1> DEFINE v == [ pc |-> "posted", status |-> makings[r].status, row |-> makings[r].row,
                  delivered |-> answered ]
<1>m. PICK m : m = W!Message(r) OBVIOUS
<1>1. W!At(r, "persisted") /\ W!Go(r, v) /\ channel' = channel \cup {m}
      /\ UNCHANGED <<plan, reports>>
  BY <1>m DEF W!Publish, W!Posted
<1>2. v.pc = "posted" /\ v.row = makings[r].row /\ v.delivered = answered OBVIOUS
<1>3. W!Clamp(makings[r].rendered) = makings[r].rendered
      /\ RowHolds(r, makings[r].rendered, makings[r].status)
  BY <1>1 DEF WeeklyIInv, RunOK, W!At
<1>4. m.by = r /\ m.body = makings[r].rendered /\ m.status = makings[r].status
  BY <1>3, <1>m DEF W!Message
<1> HIDE DEF v
<1>5. /\ makings' = [q \in W!Runs |-> makings'[q]] /\ makings'[r] = v
      /\ \A q \in W!Runs : q # r => makings'[q] = makings[q]
  BY <1>1, GoMoves
<1>6. HasPosted(r)'
  <2>1. m \in channel' BY <1>1
  <2>2. RowHolds(r, m.body, m.status) BY <1>3, <1>4
  <2>3. RowHolds(r, m.body, m.status)' BY <1>1, <1>2, <1>5, <2>2 DEF RowHolds
  <2>q. QED BY <1>4, <2>1, <2>3 DEF HasPosted
<1>7. RunOK(r)' BY <1>2, <1>5, <1>6 DEF RunOK, W!At
<1>8. IsFiniteSet(channel') BY <1>1, FS_AddElement DEF WeeklyIInv
<1>9. RowsStand BY <1>1 DEF RowsStand
<1>10. IsSeq(reports)' BY <1>1 DEF WeeklyIInv, IsSeq
<1>11. ~W!At(r, "ended") BY <1>1 DEF W!At
<1>12. \A q \in W!Runs : makings'[q] = makings[q] \/ (~W!At(q, "ended") /\ RunOK(q)')
  BY <1>5, <1>7, <1>11
<1>q. QED BY <1>1, <1>5, <1>8, <1>9, <1>10, <1>12, WeeklyStepKeeps

LEMMA PublishFailsStep ==
  ASSUME WeeklyIInv, NEW r \in W!Runs, W!PublishFails(r) PROVE WeeklyIInv'
<1> DEFINE v == [ pc |-> "posted", status |-> makings[r].status, row |-> makings[r].row,
                  delivered |-> FALSE ]
<1>1. W!At(r, "persisted") /\ W!Go(r, v) /\ UNCHANGED <<plan, reports, channel>>
  BY DEF W!PublishFails, W!Posted
<1>2. v.pc = "posted" /\ v.delivered = FALSE OBVIOUS
<1> HIDE DEF v
<1>3. makings'[r] = v BY <1>1, GoMoves
<1>4. RunOK(r)' BY <1>2, <1>3 DEF RunOK, W!At
<1>q. QED BY <1>1, <1>4, WeeklyQuietStep DEF W!At

\* A run ends as it posted.
LEMMA EndKeepsRun ==
  ASSUME WeeklyIInv, NEW r \in W!Runs, W!At(r, "posted"), W!End(r), RowsStand, channel' = channel
  PROVE  /\ RunOK(r)' /\ W!At(r, "ended")' /\ makings'[r].row = makings[r].row
         /\ makings' = [q \in W!Runs |-> makings'[q]]
         /\ \A q \in W!Runs : q # r => makings'[q] = makings[q]
<1> DEFINE v == [ pc |-> "ended", row |-> makings[r].row, delivered |-> makings[r].delivered,
                  status |-> IF makings[r].row = W!NoRow THEN "error" ELSE makings[r].status ]
<1>1. W!Go(r, v) BY DEF W!End
<1>2. v.pc = "ended" /\ v.row = makings[r].row /\ v.delivered = makings[r].delivered OBVIOUS
<1> HIDE DEF v
<1>3. /\ makings' = [q \in W!Runs |-> makings'[q]] /\ makings'[r] = v
      /\ \A q \in W!Runs : q # r => makings'[q] = makings[q]
  BY <1>1, GoMoves
<1>4. /\ makings[r].delivered \in BOOLEAN
      /\ makings[r].delivered = TRUE => HasPosted(r)
  BY DEF WeeklyIInv, RunOK, W!At
<1>5. ASSUME NEW b, NEW s, RowHolds(r, b, s) PROVE RowHolds(r, b, s)'
  BY <1>2, <1>3, <1>5 DEF RowHolds, RowsStand
<1>6. HasPosted(r) => HasPosted(r)' BY <1>5 DEF HasPosted
<1>7. RunOK(r)' BY <1>2, <1>3, <1>4, <1>6 DEF RunOK, W!At
<1>q. QED BY <1>2, <1>3, <1>7 DEF W!At

LEMMA EndUnmarkedStep ==
  ASSUME WeeklyIInv, NEW r \in W!Runs, W!EndUnmarked(r) PROVE WeeklyIInv'
<1>1. W!At(r, "posted") /\ W!End(r) /\ UNCHANGED <<plan, reports, channel>>
  BY DEF W!EndUnmarked
<1>2. RowsStand BY <1>1 DEF RowsStand
<1>3. RunOK(r)' BY <1>1, <1>2, EndKeepsRun
<1>4. PICK v : W!Go(r, v) BY <1>1 DEF W!End
<1>q. QED BY <1>1, <1>3, <1>4, WeeklyQuietStep DEF W!At

\* The row marked is the run's own, and the run has posted what it holds.
LEMMA MarkDeliveredStep ==
  ASSUME WeeklyIInv, NEW r \in W!Runs, W!MarkDelivered(r) PROVE WeeklyIInv'
<1>k. PICK k : k = makings[r].row OBVIOUS
<1>1. /\ W!At(r, "posted") /\ W!End(r) /\ k # W!NoRow
      /\ reports' = [reports EXCEPT ![k].delivered = TRUE]
      /\ UNCHANGED <<plan, channel>>
  BY <1>k DEF W!MarkDelivered
<1>2. makings[r].delivered = TRUE
  <2>1. makings[r].delivered BY DEF W!MarkDelivered
  <2>2. makings[r].delivered \in BOOLEAN BY <1>1 DEF WeeklyIInv, RunOK, W!At
  <2>q. QED BY <2>1, <2>2
<1>3. HasPosted(r) BY <1>1, <1>2 DEF WeeklyIInv, RunOK, W!At
<1>4. PICK m \in channel : m.by = r /\ RowHolds(r, m.body, m.status)
  BY <1>3 DEF HasPosted
<1>5. k \in DOMAIN reports /\ reports[k].rendered = m.body /\ reports[k].status = m.status
  BY <1>1, <1>4, <1>k DEF RowHolds
<1>6. DOMAIN reports[k] = RowFields BY <1>5 DEF WeeklyIInv, RowOK
<1> DEFINE row == [reports[k] EXCEPT !.delivered = TRUE]
<1>7. /\ DOMAIN row = RowFields /\ row.delivered = TRUE
      /\ row.rendered = reports[k].rendered /\ row.status = reports[k].status
  BY <1>6 DEF RowFields
<1>8. reports' = [reports EXCEPT ![k] = row] BY <1>1
<1> HIDE DEF row
<1>9. PICK S : reports \in Seq(S) BY DEF WeeklyIInv, IsSeq
<1>10. /\ DOMAIN reports' = DOMAIN reports /\ reports'[k] = row
       /\ \A i \in DOMAIN reports : i # k => reports'[i] = reports[i]
  <2>1. DOMAIN reports = 1..Len(reports) BY <1>9, LenProperties
  <2>q. QED BY <1>5, <1>8, <1>9, <2>1
<1>11. IsSeq(reports)'
  <2>1. reports \in Seq(S \cup {row}) BY <1>9, SeqWidens
  <2>2. PICK n \in Nat : reports \in [1..n -> S \cup {row}] BY <2>1, SeqDef
  <2>3. reports' \in [1..n -> S \cup {row}] BY <1>8, <2>2
  <2>4. reports' \in Seq(S \cup {row}) BY <2>3, SeqDef
  <2>q. QED BY <2>4 DEF IsSeq
<1>12. RowsStand BY <1>7, <1>10 DEF RowsStand
<1>13. /\ RunOK(r)' /\ W!At(r, "ended")' /\ makings'[r].row = k
       /\ makings' = [q \in W!Runs |-> makings'[q]]
       /\ \A q \in W!Runs : q # r => makings'[q] = makings[q]
  BY <1>1, <1>12, <1>k, EndKeepsRun
<1>14. RowOK(k)'
  <2>1. /\ DOMAIN reports'[k] = RowFields /\ reports'[k].delivered = TRUE
        /\ m \in channel' /\ m.by = r
        /\ m.body = reports'[k].rendered /\ m.status = reports'[k].status
    BY <1>1, <1>4, <1>5, <1>7, <1>10
  <2>q. QED BY <1>13, <2>1 DEF RowOK
<1>15. IsFiniteSet(channel') BY <1>1 DEF WeeklyIInv
<1>16. ~W!At(r, "ended") BY <1>1 DEF W!At
<1>17. \A q \in W!Runs : makings'[q] = makings[q] \/ (~W!At(q, "ended") /\ RunOK(q)')
  BY <1>13, <1>16
<1>18. \A i \in DOMAIN reports' :
         RowOK(i)' \/ (i \in DOMAIN reports /\ reports'[i] = reports[i])
  BY <1>10, <1>14
<1>19. channel \subseteq channel' /\ plan' = plan BY <1>1
<1>20. makings' = [q \in W!Runs |-> makings'[q]] BY <1>13
<1>q. QED BY <1>11, <1>12, <1>15, <1>17, <1>18, <1>19, <1>20, WeeklyStepKeeps

LEMMA CrashStep ==
  ASSUME WeeklyIInv, W!Crash PROVE WeeklyIInv'
<1>1. /\ makings' = [r \in W!Runs |-> IF makings[r].pc \in {"idle", "ended"} THEN makings[r]
                                                           ELSE [pc |-> "dead"]]
      /\ UNCHANGED <<plan, reports, channel>>
  BY DEF W!Crash
<1>2. ASSUME NEW q \in W!Runs, makings'[q] # makings[q] PROVE ~W!At(q, "ended") /\ RunOK(q)'
  <2>1. makings[q].pc \notin {"idle", "ended"} /\ makings'[q] = [pc |-> "dead"] BY <1>1, <1>2
  <2>2. makings'[q].pc = "dead" BY <2>1
  <2>q. QED BY <2>1, <2>2 DEF RunOK, W!At
<1>3. RowsStand BY <1>1 DEF RowsStand
<1>4. IsSeq(reports)' /\ IsFiniteSet(channel') BY <1>1 DEF WeeklyIInv, IsSeq
<1>5. makings' = [q \in W!Runs |-> makings'[q]] BY <1>1
<1>q. QED BY <1>1, <1>2, <1>3, <1>4, <1>5, WeeklyStepKeeps

-----------------------------------------------------------------------------
(* The invariant.                                                          *)

LEMMA WeeklyInitOK == ASSUME W!Init PROVE WeeklyIInv
<1>1. makings = [r \in W!Runs |-> W!NotStarted] BY DEF W!Init
<1>2. \A r \in W!Runs : makings[r].pc = "idle" BY <1>1 DEF W!NotStarted
<1>3. \A r \in W!Runs : RunOK(r) BY <1>2 DEF RunOK, W!At
<1>4. IsSeq(reports) BY NoLineIsSeq DEF W!Init
<1>5. DOMAIN reports = {} BY DEF W!Init
<1>6. IsFiniteSet(channel) BY FS_EmptySet DEF W!Init
<1>7. makings = [r \in W!Runs |-> makings[r]] BY <1>1
<1>8. plan \in Plans BY DEF W!Init
<1>q. QED BY <1>3, <1>4, <1>5, <1>6, <1>7, <1>8 DEF WeeklyIInv

LEMMA WeeklyRunStep ==
  ASSUME W!Settings, WeeklyIInv, NEW r \in W!Runs, W!Run(r) PROVE WeeklyIInv'
<1>1. CASE W!Start(r) BY <1>1, StartStep
<1>2. CASE \/ \E reply \in W!SurvivalAnswers : W!ReadSurvival(r, reply)
           \/ W!ReadProvenance(r)
           \/ W!ReadTutorial(r)
           \/ \E reply \in W!TutorialAnswers : W!TutorialMissing(r, reply)
  BY <1>2, ReadStep
<1>3. CASE (\E health \in HealthSections : W!Build(r, health)) \/ W!BuildFails(r)
  BY <1>3, BuildStep
<1>4. CASE W!Persist(r) BY <1>4, PersistStep
<1>5. CASE W!PersistFails(r) BY <1>5, PersistFailsStep
<1>6. CASE \E answered \in BOOLEAN : W!Publish(r, answered) BY <1>6, PublishStep
<1>7. CASE W!PublishFails(r) BY <1>7, PublishFailsStep
<1>8. CASE W!MarkDelivered(r) BY <1>8, MarkDeliveredStep
<1>9. CASE W!EndUnmarked(r) BY <1>9, EndUnmarkedStep
<1>q. QED BY <1>1, <1>2, <1>3, <1>4, <1>5, <1>6, <1>7, <1>8, <1>9 DEF W!Run

LEMMA WeeklyUnmoved ==
  ASSUME WeeklyIInv, UNCHANGED <<plan, makings, reports, channel>> PROVE WeeklyIInv'
<1>1. RowsStand BY DEF RowsStand
<1>2. IsSeq(reports)' /\ IsFiniteSet(channel') BY DEF WeeklyIInv, IsSeq
<1>3. makings' = [r \in W!Runs |-> makings'[r]] BY DEF WeeklyIInv
<1>q. QED BY <1>1, <1>2, <1>3, WeeklyStepKeeps

LEMMA WeeklyNextOK == ASSUME W!Settings, WeeklyIInv, [W!Next]_(W!weeklyVars) PROVE WeeklyIInv'
<1>1. CASE \E r \in W!Runs : W!Run(r) BY <1>1, WeeklyRunStep
<1>2. CASE W!Crash BY <1>2, CrashStep
<1>3. CASE W!Sync BY <1>3, WeeklyUnmoved DEF W!Sync
<1>4. CASE W!TimePasses BY <1>4, WeeklyUnmoved DEF W!TimePasses
<1>5. CASE UNCHANGED W!weeklyVars BY <1>5, WeeklyUnmoved DEF W!weeklyVars
<1>q. QED BY <1>1, <1>2, <1>3, <1>4, <1>5 DEF W!Next

\* The message of a delivered row names the run, and the run names the row:
\* there are no more such rows than messages.
LEMMA WeeklyCardinality == \A S : W!Cardinality(S) = Cardinality(S)
BY DEF W!Cardinality, Cardinality

LEMMA OneMessageEach ==
  ASSUME WeeklyIInv
  PROVE  Cardinality({i \in DOMAIN reports : reports[i].delivered}) <= Cardinality(channel)
<1> DEFINE D == {i \in DOMAIN reports : reports[i].delivered}
           rowOf == [m \in channel |-> makings[m.by].row]
           T == {rowOf[m] : m \in channel}
<1>1. ASSUME NEW i \in D PROVE i \in T
  <2>1. RowOK(i) BY DEF WeeklyIInv
  <2>2. reports[i].delivered = TRUE BY <2>1 DEF RowOK
  <2>3. PICK r \in W!Runs : makings[r].row = i /\ \E m \in channel : m.by = r
    BY <2>1, <2>2 DEF RowOK
  <2>q. QED BY <2>3
<1>2. rowOf \in Surjection(channel, T) BY DEF Surjection
<1>3. IsFiniteSet(T) /\ Cardinality(T) <= Cardinality(channel)
  BY <1>2, FS_Surjection DEF WeeklyIInv
<1>4. D \subseteq T BY <1>1
<1> HIDE DEF D, T
<1>5. IsFiniteSet(D) /\ Cardinality(D) <= Cardinality(T) BY <1>3, <1>4, FS_Subset
<1>6. Cardinality(D) \in Nat /\ Cardinality(T) \in Nat /\ Cardinality(channel) \in Nat
  BY <1>3, <1>5, FS_CardinalityType DEF WeeklyIInv
<1>q. QED BY <1>3, <1>5, <1>6 DEF D

\* A row marked delivered is in the channel, word for word, a run that says so
\* posted it, and no message answers for two rows: for any number of runs at
\* once, of any week, whatever fails and whenever the process dies.
\* Code: weekly-report.service.ts run; weekly-report.store.ts markDelivered
THEOREM DeliveredIsTrue == ReadSpec => []DeliveredIsInTheChannel
<1> DEFINE Inv == topic = "weekly" => WeeklyIInv
<1>1. ReadInit => Inv BY WeeklyInitOK DEF ReadInit
<1>2. Inv /\ [ReadNext]_readVars => Inv'
  <2>1. ASSUME Inv, [ReadNext]_readVars, topic' = "weekly" PROVE WeeklyIInv'
    <3>1. topic = "weekly" /\ [W!Next]_weeklyVars BY <2>1, OneTopic
    <3>2. WeeklyIInv BY <2>1, <3>1
    <3>3. [W!Next]_(W!weeklyVars) BY <3>1 DEF weeklyVars, W!weeklyVars
    <3>q. QED BY <3>2, <3>3, WeeklyNextOK, ReadAssumption
  <2>q. QED BY <2>1
<1>3. Inv => DeliveredIsInTheChannel
  <2>1. ASSUME WeeklyIInv PROVE W!DeliveredIsInTheChannel
    <3>1. ASSUME NEW i \in DOMAIN reports, reports[i].delivered
          PROVE  \E m \in channel : m.body = reports[i].rendered /\ m.status = reports[i].status
      <4>1. RowOK(i) BY <2>1 DEF WeeklyIInv
      <4>2. reports[i].delivered = TRUE BY <3>1, <4>1 DEF RowOK
      <4>q. QED BY <4>1, <4>2 DEF RowOK
    <3>2. ASSUME NEW r \in W!Runs, W!At(r, "ended"), makings[r].delivered
          PROVE  \E m \in channel : m.by = r
      <4>1. RunOK(r) BY <2>1 DEF WeeklyIInv
      <4>2. makings[r].delivered = TRUE BY <3>2, <4>1 DEF RunOK, W!At
      <4>3. HasPosted(r) BY <3>2, <4>1, <4>2 DEF RunOK, W!At
      <4>q. QED BY <4>3 DEF HasPosted
    <3>q. QED BY <2>1, <3>1, <3>2, OneMessageEach, WeeklyCardinality DEF W!DeliveredIsInTheChannel
  <2>q. QED BY <2>1 DEF DeliveredIsInTheChannel
<1> HIDE DEF Inv
<1>q. QED BY <1>1, <1>2, <1>3, PTL DEF ReadSpec, readVars

-----------------------------------------------------------------------------
(* The funnel: what a bucket counts.                                       *)

LEMMA DayIsNat ==
  ASSUME NEW i \in Nat
  PROVE  /\ W!DayOf(i) \in Nat
         /\ 2 * W!DayOf(i) <= i /\ i <= 2 * W!DayOf(i) + 1
BY DEF W!DayOf

LEMMA BelowZero ==
  ASSUME NEW x \in Int, x < 0 PROVE x \div 2 < 0
<1>1. PICK q \in Int, r \in Int : q = x \div 2 /\ r = x % 2 OBVIOUS
<1>2. x = 2 * q + r /\ 0 <= r BY <1>1
<1>q. QED BY <1>1, <1>2

LEMMA NeverIsNoDay == W!DayOf(W!Never) \notin Nat
<1>1. PICK x \in Int : x = W!Never /\ x < 0 BY DEF W!Never
<1>2. x \div 2 < 0 BY <1>1, BelowZero
<1>q. QED BY <1>1, <1>2 DEF W!DayOf

LEMMA ClampIs ==
  ASSUME NEW from \in Int, NEW to \in Int, MaxWindow \in Nat
  PROVE  /\ W!ClampFrom(from, to) \in Int /\ W!ClampFrom(from, to) >= from
         /\ from >= to - (MaxWindow - 1) => W!ClampFrom(from, to) = from
<1> DEFINE S == {from, to - (MaxWindow - 1)}
<1>1. to - (MaxWindow - 1) \in Int OBVIOUS
<1>2. PICK x \in S : \A y \in S : x >= y
  <2>1. CASE from >= to - (MaxWindow - 1) BY <1>1, <2>1
  <2>2. CASE ~(from >= to - (MaxWindow - 1)) BY <1>1, <2>2
  <2>q. QED BY <2>1, <2>2
<1>3. W!ClampFrom(from, to) \in S /\ \A y \in S : W!ClampFrom(from, to) >= y
  BY <1>2 DEF W!ClampFrom, W!Max
<1>q. QED BY <1>1, <1>3

LEMMA DayGrows ==
  ASSUME NEW i \in Nat, NEW d \in Nat
  PROVE  W!DayOf(i) = d <=> 2 * d <= i /\ i <= 2 * d + 1
BY DEF W!DayOf

LEMMA MonthCovered ==
  ASSUME WeekMonth \in Nat \ {0}, NEW first \in Nat, NEW d \in Nat,
         W!MonthOf(d) >= W!FirstFullyCoveredMonth(first)
  PROVE  d >= first
<1>1. PICK m : m = WeekMonth OBVIOUS
<1>2. m \in Nat \ {0} BY <1>1
<1>3. PICK q \in Int, r \in Int : q = first \div m /\ r = first % m BY <1>2
<1>4. PICK s \in Int, t \in Int : s = d \div m /\ t = d % m BY <1>2
<1>5. first = m * q + r /\ 0 <= r /\ r < m BY <1>2, <1>3
<1>6. d = m * s + t /\ 0 <= t /\ t < m BY <1>2, <1>4
<1>7. s >= (IF r = 0 THEN q ELSE q + 1)
  BY <1>1, <1>3, <1>4 DEF W!MonthOf, W!FirstFullyCoveredMonth
<1>8. CASE r = 0
  <2>1. PICK k \in Nat : s = q + k
    <3>1. s >= q /\ s - q \in Nat BY <1>7, <1>8
    <3>q. QED BY <3>1
  <2>2. m * s = m * q + m * k BY <1>2, <2>1
  <2>3. m * k >= 0 BY <1>2, <2>1
  <2>q. QED BY <1>2, <1>5, <1>6, <1>8, <2>2, <2>3
<1>9. CASE r # 0
  <2>1. PICK k \in Nat : s = q + 1 + k
    <3>1. s >= q + 1 /\ s - (q + 1) \in Nat BY <1>7, <1>9
    <3>q. QED BY <3>1
  <2>2. m * s = m * q + m + m * k BY <1>2, <2>1
  <2>3. m * k >= 0 BY <1>2, <2>1
  <2>q. QED BY <1>2, <1>5, <1>6, <2>2, <2>3
<1>q. QED BY <1>8, <1>9

LEMMA KeysAreInts ==
  ASSUME W!Settings, NEW g \in W!Granularities, NEW d \in Nat
  PROVE  W!Key(g, d) \in Int /\ W!MonthOf(d) \in Int
<1>1. PICK m : m = WeekMonth OBVIOUS
<1>2. m \in Nat \ {0} BY <1>1 DEF W!Settings
<1>3. d \div m \in Int BY <1>2
<1>q. QED BY <1>1, <1>3 DEF W!Key, W!MonthOf

\* A covered bucket holds no day before the first whole one.
LEMMA CoveredDays ==
  ASSUME W!Settings, NEW g \in W!Granularities, NEW earliest \in Nat, NEW d \in Nat,
         ~(W!Key(g, d) < W!CoversFrom(g, earliest))
  PROVE  earliest <= 2 * d
<1>1. PICK first : first = W!FirstFullyCoveredDay(earliest) OBVIOUS
<1>2. first \in Nat /\ earliest <= 2 * first
  <2>1. PICK of : of = W!DayOf(earliest) OBVIOUS
  <2>2. of \in Nat /\ 2 * of <= earliest /\ earliest <= 2 * of + 1 BY <2>1, DayIsNat
  <2>3. first = IF earliest <= 2 * of THEN of ELSE of + 1
    BY <1>1, <2>1 DEF W!FirstFullyCoveredDay, W!StartOfDay
  <2>q. QED BY <2>2, <2>3
<1>3. d >= first
  <2>1. CASE g = "monthly"
    <3>1. W!MonthOf(d) \in Int /\ W!MonthOf(first) \in Int BY <1>2, KeysAreInts
    <3>2. W!FirstFullyCoveredMonth(first) \in Int BY <3>1 DEF W!FirstFullyCoveredMonth
    <3>3. ~(W!MonthOf(d) < W!FirstFullyCoveredMonth(first))
      BY <1>1, <2>1 DEF W!Key, W!CoversFrom
    <3>4. W!MonthOf(d) >= W!FirstFullyCoveredMonth(first) BY <3>1, <3>2, <3>3
    <3>5. WeekMonth \in Nat \ {0} BY DEF W!Settings
    <3>q. QED BY <1>2, <3>4, <3>5, MonthCovered
  <2>2. CASE g # "monthly"
    <3>1. ~(d < first) BY <1>1, <2>2 DEF W!Key, W!CoversFrom
    <3>q. QED BY <1>2, <3>1
  <2>q. QED BY <2>1, <2>2
<1>q. QED BY <1>2, <1>3

LEMMA EarliestIs ==
  ASSUME W!Settings, plan \in Plans, W!PlanUsers # {}
  PROVE  W!Min({p.at : p \in W!PlanUsers}) \in Nat
         /\ plan.since <= W!Min({p.at : p \in W!PlanUsers})
<1>1. PICK T : T = W!PlanUsers OBVIOUS
<1>2. PICK A : A = {p.at : p \in T} OBVIOUS
<1>3. T \subseteq Newcomers /\ \A p \in T : plan.since <= p.at BY <1>1 DEF W!PlanUsers
<1>4. IsFiniteSet(T) BY <1>3, FS_Subset DEF W!Settings, W!IsFiniteSet, IsFiniteSet
<1>5. PICK f : f = [p \in T |-> p.at] OBVIOUS
<1>6. A = Image(f, T) BY <1>2, <1>5 DEF Image
<1>7. IsFiniteSet(A) BY <1>4, <1>6, ImageIsFinite
<1>8. A # {} /\ A \subseteq Nat /\ \A a \in A : plan.since <= a
  BY <1>1, <1>2, <1>3 DEF W!Settings, W!Newcomer
<1>9. W!Min(A) = Min(A) BY DEF W!Min, Min
<1>10. A \subseteq Int BY <1>8
<1>11. Min(A) \in A BY <1>7, <1>8, <1>10, MinIsLeast
<1>q. QED BY <1>1, <1>2, <1>8, <1>9, <1>11

\* The days of a bucket which lie in the window.
Holds(g, from, to, key) == {d \in W!ClampFrom(from, to)..to : W!Key(g, d) = key}

\* What the arrivals of a bucket count, when it carries a number: everybody who
\* came on its days.
LEMMA ArrivalsAreWhole ==
  ASSUME W!Settings, plan \in Plans, now \in Nat,
         NEW g \in W!Granularities, NEW f, NEW from \in Nat, NEW to \in Nat,
         W!EndOfDay(to) < now, NEW key,
         W!PlanUsers # {}, ~(key < W!CoversFrom(g, W!Min({p.at : p \in W!PlanUsers})))
  PROVE  {p \in {p \in W!PlanUsers :
                    W!StartOfDay(W!ClampFrom(from, to)) <= p.at /\ p.at <= W!EndOfDay(to)} :
            W!Matches(p, f) /\ W!Key(g, W!DayOf(p.at)) = key}
           = {p \in Newcomers : W!Matches(p, f) /\ W!DayOf(p.at) \in Holds(g, from, to, key)}
<1>1. PICK low : low = W!ClampFrom(from, to) OBVIOUS
<1>2. low \in Nat
  <2>1. MaxWindow \in Nat BY DEF W!Settings
  <2>2. low \in Int /\ low >= from BY <1>1, <2>1, ClampIs
  <2>q. QED BY <2>2
<1>3. PICK earliest : earliest = W!Min({p.at : p \in W!PlanUsers}) OBVIOUS
<1>4. earliest \in Nat /\ plan.since <= earliest BY <1>3, EarliestIs
<1>5. plan.since \in Nat BY DEF W!Settings
<1>6. ASSUME NEW p \in Newcomers PROVE p.at \in Nat
  BY DEF W!Settings, W!Newcomer
<1>7. ASSUME NEW p \in W!PlanUsers,
             W!StartOfDay(low) <= p.at, p.at <= W!EndOfDay(to),
             W!Key(g, W!DayOf(p.at)) = key
      PROVE  p \in Newcomers /\ W!DayOf(p.at) \in Holds(g, from, to, key)
  <2>1. p \in Newcomers /\ p.at \in Nat BY <1>6 DEF W!PlanUsers
  <2>2. PICK d : d = W!DayOf(p.at) OBVIOUS
  <2>3. d \in Nat /\ 2 * d <= p.at /\ p.at <= 2 * d + 1 BY <2>1, <2>2, DayIsNat
  <2>4. 2 * low <= p.at /\ p.at <= 2 * to + 1 BY <1>7 DEF W!StartOfDay, W!EndOfDay
  <2>5. low <= d /\ d <= to BY <1>2, <2>1, <2>3, <2>4
  <2>6. d \in low..to BY <1>2, <2>3, <2>5
  <2>q. QED BY <1>1, <1>7, <2>1, <2>2, <2>6 DEF Holds
<1>8. ASSUME NEW p \in Newcomers, W!DayOf(p.at) \in Holds(g, from, to, key)
      PROVE  /\ p \in W!PlanUsers /\ W!StartOfDay(low) <= p.at /\ p.at <= W!EndOfDay(to)
             /\ W!Key(g, W!DayOf(p.at)) = key
  <2>1. p.at \in Nat BY <1>6
  <2>2. PICK d : d = W!DayOf(p.at) OBVIOUS
  <2>3. d \in Nat /\ 2 * d <= p.at /\ p.at <= 2 * d + 1 BY <2>1, <2>2, DayIsNat
  <2>4. d \in low..to /\ W!Key(g, d) = key BY <1>1, <1>8, <2>2 DEF Holds
  <2>5. earliest <= 2 * d BY <1>3, <1>4, <2>3, <2>4, CoveredDays
  <2>6. 2 * to + 1 < now BY DEF W!EndOfDay
  <2>7. plan.since <= p.at /\ p.at <= now
    BY <1>2, <1>4, <1>5, <2>1, <2>3, <2>4, <2>5, <2>6
  <2>8. 2 * low <= p.at /\ p.at <= 2 * to + 1 BY <1>2, <2>1, <2>3, <2>4
  <2>q. QED BY <2>2, <2>4, <2>7, <2>8 DEF W!PlanUsers, W!StartOfDay, W!EndOfDay
<1>q. QED BY <1>1, <1>7, <1>8

LEMMA SurvivalIsTotal ==
  ASSUME W!Settings, plan \in Plans, now \in Nat,
         NEW g \in W!Granularities, NEW f, NEW from \in Nat, NEW to \in Nat,
         W!EndOfDay(to) < now, NEW key \in W!BucketKeys(g, from, to)
  PROVE  LET count == W!SurvivalCounts(W!PlanUsers, g, from, to, f)[key]
         IN  count.value \in {W!Null, W!Came(Holds(g, from, to, key), f)}
<1>1. PICK T : T = W!PlanUsers OBVIOUS
<1>2. PICK e : e = W!Min({p.at : p \in T}) OBVIOUS
<1>3. PICK A : A = {p \in {p \in T : /\ W!StartOfDay(W!ClampFrom(from, to)) <= p.at
                                     /\ p.at <= W!EndOfDay(to)} :
                      W!Matches(p, f) /\ W!Key(g, W!DayOf(p.at)) = key}
  OBVIOUS
<1>4. W!SurvivalCounts(T, g, from, to, f)[key] =
        IF T = {} THEN W!Step(W!Null, "covers_nothing")
        ELSE IF key < W!CoversFrom(g, e) THEN W!Step(W!Null, "before_coverage")
        ELSE W!Step(W!Cardinality(A), "none")
  BY <1>2, <1>3 DEF W!SurvivalCounts
<1>5. \A v, reason : W!Step(v, reason).value = v BY DEF W!Step
<1>6. CASE T # {} /\ ~(key < W!CoversFrom(g, e))
  <2>1. A = {p \in Newcomers : W!Matches(p, f) /\ W!DayOf(p.at) \in Holds(g, from, to, key)}
    BY <1>1, <1>2, <1>3, <1>6, ArrivalsAreWhole
  <2>2. W!Cardinality(A) = W!Came(Holds(g, from, to, key), f) BY <2>1 DEF W!Came
  <2>q. QED BY <1>1, <1>4, <1>5, <1>6, <2>2
<1>q. QED BY <1>1, <1>4, <1>5, <1>6

\* Those of S who took a step in these days.
Taken(S, f, days, field) == {x \in S : W!Matches(x, f) /\ W!DayOf(x[field]) \in days}

\* The copy of the tutorial keeps every step which was taken before it.
LEMMA CopyCounts ==
  ASSUME W!Settings, synced \in Nat, NEW f \in W!PlatformFilters, NEW K \in SUBSET Nat,
         \A d \in K : 2 * d + 1 < synced, NEW field \in {"entered", "completed"}
  PROVE  W!Cardinality(Taken(W!TutorialDaily, f, K, field))
           = W!Cardinality(Taken(Newcomers, f, K, field))
<1>1. PICK P : P = Taken(Newcomers, f, K, field) OBVIOUS
<1>2. PICK T : T = Taken(W!TutorialDaily, f, K, field) OBVIOUS
<1>3. \A x : x \in T <=> x \in W!TutorialDaily /\ W!Matches(x, f) /\ W!DayOf(x[field]) \in K
  BY <1>2 DEF Taken
<1>4. \A x : x \in P <=> x \in Newcomers /\ W!Matches(x, f) /\ W!DayOf(x[field]) \in K
  BY <1>1 DEF Taken
<1>5. PICK rowOf : rowOf = [ p \in Newcomers |->
        [ who |-> p.who, platform |-> p.platform, entered |-> W!Before(p.entered),
          completed |-> W!Before(p.completed) ] ]
  OBVIOUS
<1>6. \A p \in Newcomers :
        /\ rowOf[p].who = p.who /\ rowOf[p].platform = p.platform
        /\ rowOf[p][field] = W!Before(p[field])
  <2>1. CASE field = "entered" BY <1>5, <2>1
  <2>2. CASE field = "completed" BY <1>5, <2>2
  <2>q. QED BY <2>1, <2>2
<1>7. /\ \A p \in Newcomers : p.at <= synced => rowOf[p] \in W!TutorialDaily
      /\ \A row \in W!TutorialDaily : \E p \in Newcomers : p.at <= synced /\ row = rowOf[p]
  BY <1>5 DEF W!TutorialDaily
<1>8. ASSUME NEW p \in Newcomers
      PROVE  /\ p.at \in Nat /\ (p[field] \in Nat \/ p[field] = W!Never)
             /\ p[field] \in Nat => p.at <= p[field]
  <2>1. /\ p.at \in Nat /\ p.entered \in Nat \cup {W!Never} /\ p.completed \in Nat \cup {W!Never}
        /\ p.entered = W!Never \/ p.at <= p.entered
        /\ p.completed = W!Never \/ p.at <= p.completed
    BY DEF W!Settings, W!Newcomer
  <2>2. W!Never \notin Nat BY DEF W!Never
  <2>3. CASE field = "entered" BY <2>1, <2>2, <2>3
  <2>4. CASE field = "completed" BY <2>1, <2>2, <2>4
  <2>q. QED BY <2>3, <2>4
<1>9. \A p, q \in Newcomers : p.who = q.who => p = q BY DEF W!Settings
<1>10. ASSUME NEW p \in Newcomers PROVE W!Matches(rowOf[p], f) = W!Matches(p, f)
  BY <1>6 DEF W!Matches
<1>11. ASSUME NEW p \in P PROVE rowOf[p] \in T
  <2>1. p \in Newcomers /\ W!Matches(p, f) /\ W!DayOf(p[field]) \in K BY <1>4
  <2>2. PICK d : d = W!DayOf(p[field]) OBVIOUS
  <2>3. d \in Nat /\ d \in K /\ 2 * d + 1 < synced BY <2>1, <2>2
  <2>4. p[field] \in Nat BY <1>8, <2>1, NeverIsNoDay
  <2>5. p[field] <= 2 * d + 1 BY <2>2, <2>4, DayIsNat
  <2>6. p[field] <= synced /\ p.at <= synced BY <1>8, <2>1, <2>3, <2>4, <2>5
  <2>7. W!Before(p[field]) = p[field] BY <2>6 DEF W!Before
  <2>8. rowOf[p][field] = p[field] BY <1>6, <2>1, <2>7
  <2>9. W!Matches(rowOf[p], f) BY <1>10, <2>1
  <2>q. QED BY <1>3, <1>7, <2>1, <2>6, <2>8, <2>9
<1>12. ASSUME NEW row \in T PROVE \E p \in P : row = rowOf[p]
  <2>1. row \in W!TutorialDaily /\ W!Matches(row, f) /\ W!DayOf(row[field]) \in K BY <1>3
  <2>2. PICK p \in Newcomers : row = rowOf[p] BY <1>7, <2>1
  <2>3. row[field] = W!Before(p[field]) BY <1>6, <2>2
  <2>4. row[field] # W!Never BY <2>1, NeverIsNoDay
  <2>5. row[field] = p[field] BY <2>3, <2>4 DEF W!Before
  <2>6. W!Matches(p, f) BY <1>10, <2>1, <2>2
  <2>q. QED BY <1>4, <2>1, <2>2, <2>5, <2>6
<1>13. PICK back : back = [row \in T |-> CHOOSE p \in P : row = rowOf[p]] OBVIOUS
<1>14. ASSUME NEW p \in P PROVE back[rowOf[p]] = p
  <2>1. PICK q \in P : q = back[rowOf[p]] /\ rowOf[p] = rowOf[q] BY <1>11, <1>13
  <2>2. p.who = q.who BY <1>4, <1>6, <2>1
  <2>q. QED BY <1>4, <1>9, <2>1, <2>2
<1>15. T = Image(rowOf, P) BY <1>11, <1>12 DEF Image
<1>16. P = Image(back, T)
  <2>1. ASSUME NEW p \in P PROVE p \in Image(back, T) BY <1>11, <1>14 DEF Image
  <2>2. ASSUME NEW x \in Image(back, T) PROVE x \in P
    <3>1. PICK row \in T : x = back[row] BY DEF Image
    <3>2. PICK p \in P : row = rowOf[p] BY <1>12
    <3>q. QED BY <1>14, <3>1, <3>2
  <2>q. QED BY <2>1, <2>2
<1>17. IsFiniteSet(P)
  <2>1. P \subseteq Newcomers BY <1>4
  <2>2. IsFiniteSet(Newcomers) BY DEF W!Settings, W!IsFiniteSet, IsFiniteSet
  <2>q. QED BY <2>1, <2>2, FS_Subset
<1>18. Cardinality(P) = Cardinality(T) BY <1>15, <1>16, <1>17, SameCardinality
<1>q. QED BY <1>1, <1>2, <1>18, WeeklyCardinality

LEMMA StepsAreWhole ==
  ASSUME W!Settings, synced \in Nat, NEW g \in W!Granularities, NEW f \in W!PlatformFilters,
         NEW from \in Nat, NEW to \in Nat, NEW key \in W!BucketKeys(g, from, to),
         NEW K, K = Holds(g, from, to, key), \A d \in K : W!EndOfDay(d) < synced,
         NEW count, count = W!TutorialCounts(W!TutorialDaily, g, from, to, f)[key]
  PROVE  count.entered.value = W!EnteredIn(K, f) /\ count.completed.value = W!CompletedIn(K, f)
<1>1. PICK low : low = W!ClampFrom(from, to) OBVIOUS
<1>2. low \in Nat
  <2>1. MaxWindow \in Nat BY DEF W!Settings
  <2>2. low \in Int /\ low >= from BY <1>1, <2>1, ClampIs
  <2>q. QED BY <2>2
<1>3. K \in SUBSET Nat /\ K = {d \in low..to : W!Key(g, d) = key} BY <1>1, <1>2 DEF Holds
<1>4. \A d \in K : 2 * d + 1 < synced BY DEF W!EndOfDay
<1>5. PICK In : In = {p \in {p \in W!TutorialDaily : W!Matches(p, f)} :
                       /\ p.entered # W!Never
                       /\ W!DayOf(p.entered) \in W!ClampFrom(from, to)..to
                       /\ W!Key(g, W!DayOf(p.entered)) = key}
  OBVIOUS
<1>6. PICK Out : Out = {p \in {p \in W!TutorialDaily : W!Matches(p, f)} :
                       /\ p.completed # W!Never
                       /\ W!DayOf(p.completed) \in W!ClampFrom(from, to)..to
                       /\ W!Key(g, W!DayOf(p.completed)) = key}
  OBVIOUS
<1>7. ASSUME NEW x
      PROVE  (/\ x # W!Never /\ W!DayOf(x) \in W!ClampFrom(from, to)..to
              /\ W!Key(g, W!DayOf(x)) = key)
               <=> W!DayOf(x) \in K
  BY <1>1, <1>3, NeverIsNoDay
<1>8. In = Taken(W!TutorialDaily, f, K, "entered") BY <1>5, <1>7 DEF Taken
<1>9. Out = Taken(W!TutorialDaily, f, K, "completed") BY <1>6, <1>7 DEF Taken
<1>10. /\ W!EnteredIn(K, f) = W!Cardinality(Taken(Newcomers, f, K, "entered"))
       /\ W!CompletedIn(K, f) = W!Cardinality(Taken(Newcomers, f, K, "completed"))
  BY DEF W!EnteredIn, W!CompletedIn, Taken
<1>11. count = [ entered |-> W!Step(W!Cardinality(In), "none"),
                 completed |-> W!Step(W!Cardinality(Out), "none") ]
  BY <1>5, <1>6 DEF W!TutorialCounts
<1>12. \A v, reason : W!Step(v, reason).value = v BY DEF W!Step
<1>13. W!Cardinality(In) = W!EnteredIn(K, f) BY <1>3, <1>4, <1>8, <1>10, CopyCounts
<1>14. W!Cardinality(Out) = W!CompletedIn(K, f) BY <1>3, <1>4, <1>9, <1>10, CopyCounts
<1>q. QED BY <1>11, <1>12, <1>13, <1>14

-----------------------------------------------------------------------------
(* The week is the sum of its days.                                        *)

LEMMA WeekSumIsTotal == \A v : W!Sum(v) = TotalOf(v, DOMAIN v)
<1>1. ASSUME NEW v PROVE W!Sum(v) = TotalOf(v, DOMAIN v)
  <2>1. PICK S : S = DOMAIN v OBVIOUS
  <2>2. W!Sum(v) = (CHOOSE f : IsFold(f, v, S))[S]
    BY <2>1 DEF W!Sum, W!MapThenSumSet, W!MapThenFoldSet, IsFold, Picked, Remaining
  <2>q. QED BY <2>1, <2>2, TotalIsChosen
<1>q. QED BY <1>1

LEMMA DaysAdd ==
  ASSUME W!Settings, NEW f, NEW field, NEW D, IsFiniteSet(D), NEW u,
         \A d \in D : u[d] = W!Cardinality(Taken(Newcomers, f, {d}, field))
  PROVE  TotalOf(u, D) = W!Cardinality(Taken(Newcomers, f, D, field))
<1>1. PICK S : S = Taken(Newcomers, f, D, field) OBVIOUS
<1>2. IsFiniteSet(S)
  <2>1. S \subseteq Newcomers BY <1>1 DEF Taken
  <2>2. IsFiniteSet(Newcomers) BY DEF W!Settings, W!IsFiniteSet, IsFiniteSet
  <2>q. QED BY <2>1, <2>2, FS_Subset
<1>3. PICK c : c = [p \in S |-> W!DayOf(p[field])] OBVIOUS
<1>4. \A p \in S : c[p] \in D /\ c[p] = W!DayOf(p[field]) BY <1>1, <1>3 DEF Taken
<1>5. PICK rec : rec = [d \in D |-> d] OBVIOUS
<1>6. (\A g, k \in D : rec[g] = rec[k] => g = k) /\ \A g \in D : rec[g] = g BY <1>5
<1>7. Image(rec, D) = D BY <1>6 DEF Image
<1>8. ASSUME NEW d \in D PROVE u[rec[d]] = Cardinality(ClassOf(S, c, d))
  <2>1. ClassOf(S, c, d) = Taken(Newcomers, f, {d}, field) BY <1>1, <1>4 DEF ClassOf, Taken
  <2>q. QED BY <1>6, <2>1, WeeklyCardinality
<1>9. \A p \in S : c[p] \in D BY <1>4
<1>10. \A g, k \in D : rec[g] = rec[k] => g = k BY <1>6
<1>11. TotalOf(u, Image(rec, D)) = Cardinality(S) BY <1>2, <1>8, <1>9, <1>10, SplitCounts
<1>q. QED BY <1>1, <1>7, <1>11, WeeklyCardinality

LEMMA WeekIsSum ==
  ASSUME W!Settings, NEW field, NEW D, IsFiniteSet(D), NEW daily, DOMAIN daily = D, NEW step,
         \A d \in D : W!CountsOf(daily[d], step).value \in
                        {W!Null, W!Cardinality(Taken(Newcomers, "all", {d}, field))}
  PROVE  W!Total(step, daily).value \in {W!Null, W!Cardinality(Taken(Newcomers, "all", D, field))}
<1>1. PICK v : v = [d \in D |-> W!CountsOf(daily[d], step).value] OBVIOUS
<1>2. DOMAIN v = D /\ \A d \in D : v[d] = W!CountsOf(daily[d], step).value BY <1>1
<1>3. W!SumOver(step, daily, D) = TotalOf(v, D)
  <2>1. W!SumOver(step, daily, D) = W!Sum(v) BY <1>1 DEF W!SumOver
  <2>q. QED BY <1>2, <2>1, WeekSumIsTotal
<1>4. \A x, reason : W!Step(x, reason).value = x BY DEF W!Step
<1>5. CASE W!Covered(step, daily) = D /\ D # {}
  <2>1. \A d \in D : v[d] = W!Cardinality(Taken(Newcomers, "all", {d}, field))
    BY <1>2, <1>5 DEF W!Covered
  <2>2. TotalOf(v, D) = W!Cardinality(Taken(Newcomers, "all", D, field)) BY <2>1, DaysAdd
  <2>3. W!Total(step, daily).value = TotalOf(v, D) BY <1>3, <1>4, <1>5 DEF W!Total
  <2>q. QED BY <2>2, <2>3
<1>6. CASE ~(W!Covered(step, daily) = D /\ D # {})
  <2>1. W!Total(step, daily).value = W!Null BY <1>4, <1>6 DEF W!Total
  <2>q. QED BY <2>1
<1>q. QED BY <1>5, <1>6

\* What is true of a count of a bucket is asked of the source it comes from.
LEMMA CountsFrom ==
  ASSUME NEW a, NEW b, NEW c
  PROVE  LET counts == W!BuildBucket(a, b, c).counts
         IN  counts[2] = a /\ counts[3] = b /\ counts[4] = c
BY DEF W!BuildBucket

-----------------------------------------------------------------------------
(* The invariant of the funnel: what a run has read, and what a row holds. *)

DaysTo(to) == (to - (WindowDays - 1))..to

\* The window of a run is past, and begins after the clock did.
PastWindow(to) == to \in Nat /\ WindowDays - 1 <= to /\ W!EndOfDay(to) < now

SurvivalOK(read_, to) ==
  /\ DOMAIN read_.counts = DaysTo(to)
  /\ \A d \in DaysTo(to) : read_.counts[d].value \in {W!Null, W!Came({d}, "all")}

TutorialOK(read_, to) ==
  /\ read_.state.ok \in BOOLEAN
  /\ read_.state.ok = TRUE /\ read_.state.asOf > W!EndOfDay(to) =>
       \A d \in DaysTo(to) :
         /\ read_.counts[d].entered.value = W!EnteredIn({d}, "all")
         /\ read_.counts[d].completed.value = W!CompletedIn({d}, "all")

SectionOK(funnel, window) ==
  LET days == window.from..window.to
      c    == funnel.bucket.counts
  IN  /\ funnel.tutorial.ok \in BOOLEAN
      /\ W!IsTotal(c[2], W!Came(days, "all"))
      /\ funnel.tutorial.ok = TRUE /\ funnel.tutorial.asOf > W!EndOfDay(window.to) =>
           W!IsTotal(c[3], W!EnteredIn(days, "all")) /\ W!IsTotal(c[4], W!CompletedIn(days, "all"))

BuildingOK(r) ==
  /\ {"pc", "to", "survival", "provenance", "tutorial"} \subseteq DOMAIN makings[r]
  /\ PastWindow(makings[r].to)
  /\ makings[r].survival = W!Unread \/ SurvivalOK(makings[r].survival, makings[r].to)
  /\ makings[r].tutorial = W!Unread \/ TutorialOK(makings[r].tutorial, makings[r].to)
  /\ \/ makings[r].provenance = W!Null
     \/ makings[r].provenance \in Nat /\ synced \in Nat /\ makings[r].provenance <= synced

FunnelRun(r) ==
  /\ W!At(r, "building") => BuildingOK(r)
  /\ W!At(r, "built") /\ makings[r].status = "ok" =>
       SectionOK(makings[r].payload.funnel, makings[r].window)

FunnelRow(i) ==
  reports[i].status = "ok" => SectionOK(reports[i].payload.funnel, reports[i].window)

FunnelIInv ==
  /\ now \in Nat /\ 2 * WindowDays + 1 <= now /\ now <= LastInstant
  /\ synced = W!Never \/ (synced \in Nat /\ synced <= now)
  /\ \A r \in W!Runs : FunnelRun(r)
  /\ \A i \in DOMAIN reports : FunnelRow(i)

\* A window is clamped to itself, and its buckets are its days.
LEMMA WindowIsDays ==
  ASSUME W!Settings, NEW to \in Nat, WindowDays - 1 <= to,
         NEW from, from = W!WindowOf(to).from
  PROVE  /\ from \in Nat /\ from <= to /\ from..to = DaysTo(to) /\ W!WindowOf(to).to = to
         /\ W!BucketKeys("daily", from, to) = DaysTo(to)
         /\ \A d \in DaysTo(to) : d \in Nat /\ Holds("daily", from, to, d) = {d}
<1>1. WindowDays \in Nat /\ 1 <= WindowDays /\ MaxWindow \in Nat /\ WindowDays <= MaxWindow
  BY DEF W!Settings
<1>2. from = to - (WindowDays - 1) /\ W!WindowOf(to).to = to BY DEF W!WindowOf
<1>3. from \in Nat /\ from <= to BY <1>1, <1>2
<1>4. W!ClampFrom(from, to) = from
  <2>1. from \in Int /\ to \in Int /\ from >= to - (MaxWindow - 1) BY <1>1, <1>2, <1>3
  <2>q. QED BY <1>1, <2>1, ClampIs
<1>5. \A d : W!Key("daily", d) = d BY DEF W!Key
<1>6. W!BucketKeys("daily", from, to) = from..to BY <1>4, <1>5 DEF W!BucketKeys
<1>7. \A d \in from..to : Holds("daily", from, to, d) = {d} BY <1>4, <1>5 DEF Holds
<1>8. \A d \in from..to : d \in Nat BY <1>3
<1>9. from..to = DaysTo(to) BY <1>2 DEF DaysTo
<1>q. QED BY <1>2, <1>3, <1>6, <1>7, <1>8, <1>9

\* What Plan answers.
LEMMA SurvivalReadOK ==
  ASSUME W!Settings, plan \in Plans, FunnelIInv, NEW to, PastWindow(to),
         NEW from, from = W!WindowOf(to).from, NEW reply
  PROVE  SurvivalOK(W!Survival(W!PlanUsers, reply, now, "daily", from, to, "all"), to)
<1>1. to \in Nat /\ WindowDays - 1 <= to /\ W!EndOfDay(to) < now /\ now \in Nat
  BY DEF PastWindow, FunnelIInv
<1>2. /\ from \in Nat /\ W!BucketKeys("daily", from, to) = DaysTo(to)
      /\ \A d \in DaysTo(to) : Holds("daily", from, to, d) = {d}
  BY <1>1, WindowIsDays
<1>3. PICK x : x = W!Survival(W!PlanUsers, reply, now, "daily", from, to, "all") OBVIOUS
<1>4. CASE reply = "ok"
  <2>1. x.counts = W!SurvivalCounts(W!PlanUsers, "daily", from, to, "all")
    BY <1>3, <1>4 DEF W!Survival
  <2>2. DOMAIN x.counts = DaysTo(to) BY <1>2, <2>1 DEF W!SurvivalCounts
  <2>3. "daily" \in W!Granularities BY DEF W!Granularities
  <2>4. ASSUME NEW d \in DaysTo(to) PROVE x.counts[d].value \in {W!Null, W!Came({d}, "all")}
    <3>1. d \in W!BucketKeys("daily", from, to) /\ Holds("daily", from, to, d) = {d} BY <1>2
    <3>2. PICK count : count = W!SurvivalCounts(W!PlanUsers, "daily", from, to, "all")[d]
      OBVIOUS
    <3>3. count.value \in {W!Null, W!Came(Holds("daily", from, to, d), "all")}
      BY <1>1, <1>2, <2>3, <3>1, <3>2, SurvivalIsTotal
    <3>q. QED BY <2>1, <3>1, <3>2, <3>3
  <2>q. QED BY <1>3, <2>2, <2>4 DEF SurvivalOK
<1>5. CASE reply # "ok"
  <2>1. x.counts = [key \in W!BucketKeys("daily", from, to) |-> W!Step(W!Null, reply)]
    BY <1>3, <1>5 DEF W!Survival
  <2>2. W!Step(W!Null, reply).value = W!Null BY DEF W!Step
  <2>3. DOMAIN x.counts = DaysTo(to) /\ \A d \in DaysTo(to) : x.counts[d].value = W!Null
    BY <1>2, <2>1, <2>2
  <2>q. QED BY <1>3, <2>3 DEF SurvivalOK
<1>q. QED BY <1>4, <1>5

\* The rows of the copy are read after its date, so they are not older.
LEMMA TutorialReadOK ==
  ASSUME W!Settings, NEW to \in Nat, WindowDays - 1 <= to,
         NEW from, from = W!WindowOf(to).from,
         NEW copied \in Nat, synced \in Nat, copied <= synced
  PROVE  TutorialOK(W!Tutorial(W!TutorialDaily, copied, "ok", "daily", from, to, "all"), to)
<1>1. /\ from \in Nat /\ W!BucketKeys("daily", from, to) = DaysTo(to)
      /\ \A d \in DaysTo(to) : d \in Nat /\ Holds("daily", from, to, d) = {d}
      /\ from..to = DaysTo(to)
  BY WindowIsDays
<1>2. PICK x : x = W!Tutorial(W!TutorialDaily, copied, "ok", "daily", from, to, "all") OBVIOUS
<1>3. copied # W!Never BY DEF W!Never
<1>4. /\ x.counts = W!TutorialCounts(W!TutorialDaily, "daily", from, to, "all")
      /\ x.state.ok = TRUE /\ x.state.asOf = copied
  BY <1>2, <1>3 DEF W!Tutorial
<1>5. ASSUME copied > W!EndOfDay(to), NEW d \in DaysTo(to)
      PROVE  /\ x.counts[d].entered.value = W!EnteredIn({d}, "all")
             /\ x.counts[d].completed.value = W!CompletedIn({d}, "all")
  <2>1. d \in Nat /\ d <= to BY <1>1
  <2>2. W!EndOfDay(d) < synced BY <1>5, <2>1 DEF W!EndOfDay
  <2>3. PICK K : K = {d} OBVIOUS
  <2>4. K = Holds("daily", from, to, d) /\ \A e \in K : W!EndOfDay(e) < synced
    BY <1>1, <2>2, <2>3
  <2>5. "daily" \in W!Granularities /\ "all" \in W!PlatformFilters
    BY DEF W!Granularities, W!PlatformFilters
  <2>6. d \in W!BucketKeys("daily", from, to) /\ Holds("daily", from, to, d) = {d} BY <1>1
  <2>7. PICK count : count = W!TutorialCounts(W!TutorialDaily, "daily", from, to, "all")[d]
    OBVIOUS
  <2>8. PICK g \in W!Granularities, f \in W!PlatformFilters : g = "daily" /\ f = "all" BY <2>5
  <2>9. /\ d \in W!BucketKeys(g, from, to) /\ K = Holds(g, from, to, d)
         /\ count = W!TutorialCounts(W!TutorialDaily, g, from, to, f)[d]
    BY <2>4, <2>6, <2>7, <2>8
  <2>10. \A e \in K : W!EndOfDay(e) < synced BY <2>4
  <2>11. from \in Nat BY <1>1
  <2>12. count.entered.value = W!EnteredIn(K, f) /\ count.completed.value = W!CompletedIn(K, f)
    BY <2>9, <2>10, <2>11, StepsAreWhole
  <2>13. /\ count.entered.value = W!EnteredIn({d}, "all")
        /\ count.completed.value = W!CompletedIn({d}, "all")
    BY <2>3, <2>8, <2>12
  <2>q. QED BY <1>4, <2>7, <2>13
<1>6. x.state.ok \in BOOLEAN BY <1>4
<1>7. ASSUME x.state.asOf > W!EndOfDay(to)
      PROVE  \A d \in DaysTo(to) :
               /\ x.counts[d].entered.value = W!EnteredIn({d}, "all")
               /\ x.counts[d].completed.value = W!CompletedIn({d}, "all")
  <2>1. copied > W!EndOfDay(to) BY <1>4, <1>7
  <2>q. QED BY <1>5, <2>1
<1>8. TutorialOK(x, to) BY <1>6, <1>7 DEF TutorialOK
<1>q. QED BY <1>2, <1>8

\* The section of a window, of what the two sources answered.
LEMMA SectionIsWhole ==
  ASSUME W!Settings, NEW to \in Nat, WindowDays - 1 <= to,
         NEW s, SurvivalOK(s, to), NEW t, TutorialOK(t, to)
  PROVE  SectionOK(W!FunnelSectionOf(s, t), W!WindowOf(to))
<1>1. PICK from : from = W!WindowOf(to).from OBVIOUS
<1>2. PICK D : D = DaysTo(to) OBVIOUS
<1>3. /\ from..to = D /\ W!WindowOf(to).to = to /\ from \in Nat
      /\ \A d \in D : d \in Nat
  BY <1>1, <1>2, WindowIsDays
<1>4. IsFiniteSet(D) BY <1>3, FS_Interval
<1>5. PICK daily : daily = W!Buckets(s, t) OBVIOUS
<1>6. /\ DOMAIN daily = D
      /\ \A d \in D : /\ daily[d].counts[2] = s.counts[d]
                      /\ daily[d].counts[3] = t.counts[d].entered
                      /\ daily[d].counts[4] = t.counts[d].completed
  BY <1>2, <1>5, CountsFrom DEF W!Buckets, SurvivalOK
<1>7. PICK funnel : funnel = W!FunnelSectionOf(s, t) OBVIOUS
<1>8. /\ funnel.bucket = W!BuildBucket(W!Total(2, daily), W!Total(3, daily), W!Total(4, daily))
      /\ funnel.tutorial = t.state
  BY <1>5, <1>7 DEF W!FunnelSectionOf
<1>9. PICK c : c = funnel.bucket.counts OBVIOUS
<1>10. c[2] = W!Total(2, daily) /\ c[3] = W!Total(3, daily) /\ c[4] = W!Total(4, daily)
  BY <1>8, <1>9, CountsFrom
<1>11. \A K : /\ W!Cardinality(Taken(Newcomers, "all", K, "at")) = W!Came(K, "all")
              /\ W!Cardinality(Taken(Newcomers, "all", K, "entered")) = W!EnteredIn(K, "all")
              /\ W!Cardinality(Taken(Newcomers, "all", K, "completed")) = W!CompletedIn(K, "all")
  BY DEF Taken, W!Came, W!EnteredIn, W!CompletedIn
<1>12. W!IsTotal(c[2], W!Came(D, "all"))
  <2>1. ASSUME NEW d \in D
        PROVE  W!CountsOf(daily[d], 2).value \in
                 {W!Null, W!Cardinality(Taken(Newcomers, "all", {d}, "at"))}
    BY <1>2, <1>6, <1>11 DEF SurvivalOK, W!CountsOf
  <2>2. W!Total(2, daily).value \in {W!Null, W!Cardinality(Taken(Newcomers, "all", D, "at"))}
    BY <1>4, <1>6, <2>1, WeekIsSum
  <2>q. QED BY <1>10, <1>11, <2>2 DEF W!IsTotal
<1>13. ASSUME t.state.ok = TRUE /\ t.state.asOf > W!EndOfDay(to)
       PROVE  /\ W!IsTotal(c[3], W!EnteredIn(D, "all"))
              /\ W!IsTotal(c[4], W!CompletedIn(D, "all"))
  <2>1. ASSUME NEW d \in D
        PROVE  /\ W!CountsOf(daily[d], 3).value = W!Cardinality(Taken(Newcomers, "all", {d}, "entered"))
               /\ W!CountsOf(daily[d], 4).value = W!Cardinality(Taken(Newcomers, "all", {d}, "completed"))
    BY <1>2, <1>6, <1>11, <1>13 DEF TutorialOK, W!CountsOf
  <2>2. W!Total(3, daily).value \in {W!Null, W!Cardinality(Taken(Newcomers, "all", D, "entered"))}
    BY <1>4, <1>6, <2>1, WeekIsSum
  <2>3. W!Total(4, daily).value \in {W!Null, W!Cardinality(Taken(Newcomers, "all", D, "completed"))}
    BY <1>4, <1>6, <2>1, WeekIsSum
  <2>q. QED BY <1>10, <1>11, <2>2, <2>3 DEF W!IsTotal
<1>14. t.state.ok \in BOOLEAN BY DEF TutorialOK
<1>15. PICK window : window = W!WindowOf(to) OBVIOUS
<1>16. window.from = from /\ window.to = to BY <1>1, <1>3, <1>15
<1>17. SectionOK(funnel, window) BY <1>3, <1>8, <1>9, <1>12, <1>13, <1>14, <1>16 DEF SectionOK
<1>q. QED BY <1>7, <1>15, <1>17

\* A step in which the clock and the copy stand: what the runs that move have
\* read, and what the rows that are written hold, is to be shown.
LEMMA FunnelStepKeeps ==
  ASSUME FunnelIInv, now' = now, synced' = synced,
         \A r \in W!Runs : makings'[r] = makings[r] \/ FunnelRun(r)',
         \A i \in DOMAIN reports' :
           \/ FunnelRow(i)'
           \/ /\ i \in DOMAIN reports /\ reports'[i].status = reports[i].status
              /\ reports'[i].payload = reports[i].payload
              /\ reports'[i].window = reports[i].window
  PROVE  FunnelIInv'
<1>1. ASSUME NEW r \in W!Runs PROVE FunnelRun(r)'
  <2>1. CASE FunnelRun(r)' BY <2>1
  <2>2. CASE makings'[r] = makings[r]
    <3>1. FunnelRun(r) BY DEF FunnelIInv
    <3>q. QED BY <2>2, <3>1 DEF FunnelRun, W!At, BuildingOK, PastWindow
  <2>q. QED BY <2>1, <2>2
<1>2. ASSUME NEW i \in DOMAIN reports' PROVE FunnelRow(i)'
  <2>1. CASE FunnelRow(i)' BY <2>1
  <2>2. CASE /\ i \in DOMAIN reports /\ reports'[i].status = reports[i].status
             /\ reports'[i].payload = reports[i].payload
             /\ reports'[i].window = reports[i].window
    <3>1. FunnelRow(i) BY <2>2 DEF FunnelIInv
    <3>q. QED BY <2>2, <3>1 DEF FunnelRow
  <2>q. QED BY <2>1, <2>2
<1>q. QED BY <1>1, <1>2 DEF FunnelIInv

\* A step of one run which writes no row.
LEMMA FunnelQuietStep ==
  ASSUME WeeklyIInv, FunnelIInv, NEW r \in W!Runs, NEW v, W!Go(r, v),
         UNCHANGED <<now, synced, reports>>, FunnelRun(r)'
  PROVE  FunnelIInv'
<1>1. \A q \in W!Runs : q # r => makings'[q] = makings[q] BY GoMoves
<1>2. \A q \in W!Runs : makings'[q] = makings[q] \/ FunnelRun(q)' BY <1>1
<1>q. QED BY <1>2, FunnelStepKeeps

\* A run that neither reads nor has built.
LEMMA FunnelOtherStep ==
  ASSUME WeeklyIInv, FunnelIInv, NEW r \in W!Runs, NEW v, W!Go(r, v),
         UNCHANGED <<now, synced, reports>>, v.pc \notin {"building", "built"}
  PROVE  FunnelIInv'
<1>1. makings'[r] = v BY GoMoves
<1>2. FunnelRun(r)' BY <1>1 DEF FunnelRun, W!At
<1>q. QED BY <1>2, FunnelQuietStep

LEMMA FunnelStartStep ==
  ASSUME W!Settings, WeeklyIInv, FunnelIInv, NEW r \in W!Runs, W!Start(r) PROVE FunnelIInv'
<1>1. PICK v : v = [ pc |-> "building", to |-> W!DayOf(now) - 1, survival |-> W!Unread,
                     provenance |-> W!Null, tutorial |-> W!Unread ]
  OBVIOUS
<1>2. /\ v.pc = "building" /\ v.to = W!DayOf(now) - 1 /\ v.survival = W!Unread
      /\ v.provenance = W!Null /\ v.tutorial = W!Unread
      /\ {"pc", "to", "survival", "provenance", "tutorial"} \subseteq DOMAIN v
  BY <1>1
<1>3. W!Go(r, v) /\ UNCHANGED <<now, synced, reports>> BY <1>1 DEF W!Start
<1>4. makings'[r] = v BY <1>3, GoMoves
<1>5. PICK d : d = W!DayOf(now) OBVIOUS
<1>6. now \in Nat /\ 2 * WindowDays + 1 <= now BY DEF FunnelIInv
<1>7. d \in Nat /\ 2 * d <= now /\ now <= 2 * d + 1 BY <1>5, <1>6, DayIsNat
<1>8. WindowDays \in Nat /\ 1 <= WindowDays BY DEF W!Settings
<1>9. WindowDays <= d BY <1>6, <1>7, <1>8
<1>10. d - 1 \in Nat /\ WindowDays - 1 <= d - 1 /\ 2 * (d - 1) + 1 < now
  BY <1>6, <1>7, <1>8, <1>9
<1>11. PastWindow(v.to)' BY <1>3, <1>2, <1>5, <1>10 DEF PastWindow, W!EndOfDay
<1>12. FunnelRun(r)' BY <1>2, <1>4, <1>11 DEF FunnelRun, BuildingOK, W!At
<1>q. QED BY <1>3, <1>12, FunnelQuietStep

\* A run goes on building with one more thing read.
LEMMA FunnelReadStep ==
  ASSUME W!Settings, WeeklyIInv, FunnelIInv, NEW r \in W!Runs,
         \/ \E reply \in W!SurvivalAnswers : W!ReadSurvival(r, reply)
         \/ W!ReadProvenance(r)
         \/ W!ReadTutorial(r)
         \/ \E reply \in W!TutorialAnswers : W!TutorialMissing(r, reply)
  PROVE  FunnelIInv'
<1>1. /\ W!At(r, "building") /\ UNCHANGED <<now, synced, reports>>
  BY DEF W!ReadSurvival, W!ReadProvenance, W!ReadTutorial, W!TutorialMissing
<1>2. BuildingOK(r) BY <1>1 DEF FunnelIInv, FunnelRun
<1>3. makings[r].pc = "building" BY <1>1 DEF W!At
<1>4. ASSUME NEW v, W!Go(r, v), v.pc = "building", v.to = makings[r].to,
             {"pc", "to", "survival", "provenance", "tutorial"} \subseteq DOMAIN v,
             v.survival = makings[r].survival \/ SurvivalOK(v.survival, v.to),
             v.tutorial = makings[r].tutorial \/ TutorialOK(v.tutorial, v.to),
             \/ v.provenance = makings[r].provenance
             \/ v.provenance \in Nat /\ synced \in Nat /\ v.provenance <= synced
      PROVE  FunnelIInv'
  <2>1. makings'[r] = v BY <1>4, GoMoves
  <2>2. BuildingOK(r)' BY <1>1, <1>2, <1>4, <2>1 DEF BuildingOK, PastWindow
  <2>3. FunnelRun(r)' BY <1>4, <2>1, <2>2 DEF FunnelRun, W!At
  <2>q. QED BY <1>1, <1>4, <2>3, FunnelQuietStep
<1>5. {"pc", "to", "survival", "provenance", "tutorial"} \subseteq DOMAIN makings[r]
  BY <1>2 DEF BuildingOK
<1>6. PICK to : to = makings[r].to OBVIOUS
<1>7. PastWindow(to) /\ to \in Nat /\ WindowDays - 1 <= to
  BY <1>2, <1>6 DEF BuildingOK, PastWindow
<1>8. PICK from : from = W!WindowOf(to).from OBVIOUS
<1>9. from \in Nat /\ W!WindowOf(to).to = to /\ W!BucketKeys("daily", from, to) = DaysTo(to)
  BY <1>7, <1>8, WindowIsDays
<1>10. plan \in Plans BY DEF WeeklyIInv
<1>11. ASSUME NEW reply \in W!SurvivalAnswers, W!ReadSurvival(r, reply) PROVE FunnelIInv'
  <2>1. PICK s : s = W!Survival(W!PlanUsers, reply, now, "daily", from, to, "all") OBVIOUS
  <2>2. SurvivalOK(s, to) BY <1>7, <1>8, <1>10, <2>1, SurvivalReadOK
  <2> DEFINE v == [makings[r] EXCEPT !.survival = s]
  <2>3. W!Go(r, v) BY <1>6, <1>8, <1>9, <1>11, <2>1 DEF W!ReadSurvival
  <2>4. /\ v.pc = makings[r].pc /\ v.to = to /\ v.survival = s
        /\ v.tutorial = makings[r].tutorial /\ v.provenance = makings[r].provenance
        /\ DOMAIN v = DOMAIN makings[r]
    BY <1>5, <1>6
  <2> HIDE DEF v
  <2>q. QED BY <1>3, <1>4, <1>5, <1>6, <2>2, <2>3, <2>4
<1>12. ASSUME W!ReadProvenance(r) PROVE FunnelIInv'
  <2>1. synced \in Nat BY <1>12 DEF W!ReadProvenance, FunnelIInv
  <2> DEFINE v == [makings[r] EXCEPT !.provenance = synced]
  <2>2. W!Go(r, v) BY <1>12 DEF W!ReadProvenance
  <2>3. /\ v.pc = makings[r].pc /\ v.to = to /\ v.survival = makings[r].survival
        /\ v.tutorial = makings[r].tutorial /\ v.provenance = synced
        /\ DOMAIN v = DOMAIN makings[r]
    BY <1>5, <1>6
  <2> HIDE DEF v
  <2>4. v.provenance \in Nat /\ v.provenance <= synced BY <2>1, <2>3
  <2>q. QED BY <1>3, <1>4, <1>5, <1>6, <2>1, <2>2, <2>3, <2>4
<1>13. ASSUME NEW t, TutorialOK(t, to), W!Go(r, [makings[r] EXCEPT !.tutorial = t])
       PROVE  FunnelIInv'
  <2> DEFINE v == [makings[r] EXCEPT !.tutorial = t]
  <2>1. W!Go(r, v) BY <1>13
  <2>2. /\ v.pc = makings[r].pc /\ v.to = to /\ v.survival = makings[r].survival
        /\ v.tutorial = t /\ v.provenance = makings[r].provenance
        /\ DOMAIN v = DOMAIN makings[r]
    BY <1>5, <1>6
  <2> HIDE DEF v
  <2>q. QED BY <1>3, <1>4, <1>5, <1>6, <1>13, <2>1, <2>2
<1>14. ASSUME W!ReadTutorial(r) PROVE FunnelIInv'
  <2>1. PICK copied : copied = makings[r].provenance OBVIOUS
  <2>2. copied \in Nat /\ synced \in Nat /\ copied <= synced
    BY <1>2, <1>14, <2>1 DEF W!ReadTutorial, BuildingOK
  <2>3. PICK t : t = W!Tutorial(W!TutorialDaily, copied, "ok", "daily", from, to, "all") OBVIOUS
  <2>4. TutorialOK(t, to) BY <1>7, <1>8, <2>2, <2>3, TutorialReadOK
  <2>5. W!Go(r, [makings[r] EXCEPT !.tutorial = t])
    BY <1>6, <1>8, <1>9, <1>14, <2>1, <2>3 DEF W!ReadTutorial
  <2>q. QED BY <1>13, <2>4, <2>5
<1>15. ASSUME NEW reply \in W!TutorialAnswers, W!TutorialMissing(r, reply) PROVE FunnelIInv'
  <2>1. PICK t : t = W!Tutorial({}, W!Never, reply, "daily", from, to, "all") OBVIOUS
  <2>2. t.state.ok = FALSE BY <2>1 DEF W!Tutorial, W!FailedSource
  <2>3. TutorialOK(t, to) BY <2>2 DEF TutorialOK
  <2>4. W!Go(r, [makings[r] EXCEPT !.tutorial = t])
    BY <1>6, <1>8, <1>9, <1>15, <2>1 DEF W!TutorialMissing
  <2>q. QED BY <1>13, <2>3, <2>4
<1>q. QED BY <1>11, <1>12, <1>14, <1>15

LEMMA FunnelBuildStep ==
  ASSUME W!Settings, WeeklyIInv, FunnelIInv, NEW r \in W!Runs,
         (\E health \in HealthSections : W!Build(r, health)) \/ W!BuildFails(r)
  PROVE  FunnelIInv'
<1>1. W!At(r, "building") /\ UNCHANGED <<now, synced, reports>> BY DEF W!Build, W!BuildFails
<1>2. BuildingOK(r) BY <1>1 DEF FunnelIInv, FunnelRun
<1>3. ASSUME NEW v, W!Go(r, v), v.pc = "built",
             v.status = "ok" => SectionOK(v.payload.funnel, v.window)
      PROVE  FunnelIInv'
  <2>1. makings'[r] = v BY <1>3, GoMoves
  <2>2. FunnelRun(r)' BY <1>3, <2>1 DEF FunnelRun, W!At
  <2>q. QED BY <1>1, <1>3, <2>2, FunnelQuietStep
<1>4. ASSUME NEW health \in HealthSections, W!Build(r, health) PROVE FunnelIInv'
  <2>1. PICK to, s, t : to = makings[r].to /\ s = makings[r].survival /\ t = makings[r].tutorial
    OBVIOUS
  <2>2. s # W!Unread /\ t # W!Unread BY <1>4, <2>1 DEF W!Build
  <2>3. to \in Nat /\ WindowDays - 1 <= to /\ SurvivalOK(s, to) /\ TutorialOK(t, to)
    BY <1>2, <2>1, <2>2 DEF BuildingOK, PastWindow
  <2>4. PICK funnel, window : funnel = W!FunnelSectionOf(s, t) /\ window = W!WindowOf(to) OBVIOUS
  <2>5. SectionOK(funnel, window) BY <2>3, <2>4, SectionIsWhole
  <2> DEFINE report == [ window |-> window, funnel |-> funnel,
                         retention |-> plan.retention, health |-> health ]
             v == [ pc |-> "built", status |-> "ok", window |-> report.window, payload |-> report,
                    rendered |-> W!RenderWeeklyReport(report) ]
  <2>6. W!Go(r, v) BY <1>4, <2>1, <2>4 DEF W!Build
  <2>7. v.pc = "built" /\ v.payload.funnel = funnel /\ v.window = window OBVIOUS
  <2> HIDE DEF v
  <2>q. QED BY <1>3, <2>5, <2>6, <2>7
<1>5. ASSUME W!BuildFails(r) PROVE FunnelIInv'
  <2> DEFINE w == W!WindowOf(makings[r].to)
             v == [ pc |-> "built", status |-> "error", window |-> w, payload |-> W!NoReport,
                    rendered |-> W!RenderFailure(w) ]
  <2>1. W!Go(r, v) BY <1>5 DEF W!BuildFails
  <2>2. v.pc = "built" /\ v.status # "ok" OBVIOUS
  <2> HIDE DEF v
  <2>q. QED BY <1>3, <2>1, <2>2
<1>q. QED BY <1>4, <1>5

\* The row holds what the run built.
LEMMA FunnelPersistStep ==
  ASSUME WeeklyIInv, FunnelIInv, NEW r \in W!Runs, W!Persist(r) PROVE FunnelIInv'
<1> DEFINE row == [ window |-> makings[r].window, status |-> makings[r].status,
                    payload |-> makings[r].payload, rendered |-> makings[r].rendered,
                    delivered |-> FALSE ]
<1>1. PICK v : v = [ pc |-> "persisted", status |-> makings[r].status,
                     rendered |-> makings[r].rendered, row |-> Len(reports) + 1 ]
  OBVIOUS
<1>2. /\ W!At(r, "built") /\ W!Go(r, v) /\ reports' = Append(reports, row)
      /\ UNCHANGED <<now, synced>>
  BY <1>1 DEF W!Persist
<1>3. /\ row.window = makings[r].window /\ row.status = makings[r].status
      /\ row.payload = makings[r].payload
  OBVIOUS
<1> HIDE DEF row
<1>4. v.pc = "persisted" BY <1>1
<1>5. makings'[r] = v /\ \A q \in W!Runs : q # r => makings'[q] = makings[q] BY <1>2, GoMoves
<1>6. FunnelRun(r)' BY <1>4, <1>5 DEF FunnelRun, W!At
<1>7. FunnelRun(r) BY DEF FunnelIInv
<1>8. ASSUME NEW i \in DOMAIN reports'
      PROVE  FunnelRow(i)' \/ (i \in DOMAIN reports /\ reports'[i] = reports[i])
  <2>1. PICK S : reports \in Seq(S) BY DEF WeeklyIInv, IsSeq
  <2>2. /\ Len(reports) \in Nat /\ DOMAIN reports = 1..Len(reports)
        /\ DOMAIN reports' = 1..(Len(reports) + 1)
        /\ reports'[Len(reports) + 1] = row
        /\ \A k \in 1..Len(reports) : reports'[k] = reports[k]
    BY <1>2, <2>1
  <2>3. CASE i = Len(reports) + 1
    <3>1. reports'[i] = row BY <2>2, <2>3
    <3>q. QED BY <1>2, <1>3, <1>7, <3>1 DEF FunnelRow, FunnelRun
  <2>4. CASE i \in 1..Len(reports) BY <2>2, <2>4
  <2>q. QED BY <2>2, <2>3, <2>4
<1>9. \A q \in W!Runs : makings'[q] = makings[q] \/ FunnelRun(q)' BY <1>5, <1>6
<1>q. QED BY <1>2, <1>8, <1>9, FunnelStepKeeps

\* What a run does after that touches neither a count nor a window.
LEMMA FunnelRestStep ==
  ASSUME WeeklyIInv, FunnelIInv, NEW r \in W!Runs,
         \/ W!PersistFails(r) \/ W!PublishFails(r) \/ W!EndUnmarked(r)
         \/ \E answered \in BOOLEAN : W!Publish(r, answered)
  PROVE  FunnelIInv'
<1>1. \E v : W!Go(r, v) /\ v.pc \notin {"building", "built"}
  <2>1. ASSUME W!PersistFails(r)
        PROVE  \E v : W!Go(r, v) /\ v.pc \notin {"building", "built"}
    <3>1. PICK v : v = [ pc |-> "persisted", status |-> makings[r].status,
                         rendered |-> makings[r].rendered, row |-> W!NoRow ]
      OBVIOUS
    <3>2. W!Go(r, v) BY <2>1, <3>1 DEF W!PersistFails
    <3>q. QED BY <3>1, <3>2
  <2>2. ASSUME NEW told, W!Posted(r, told)
        PROVE  \E v : W!Go(r, v) /\ v.pc \notin {"building", "built"}
    <3>1. PICK v : v = [ pc |-> "posted", status |-> makings[r].status,
                         row |-> makings[r].row, delivered |-> told ]
      OBVIOUS
    <3>2. W!Go(r, v) BY <2>2, <3>1 DEF W!Posted
    <3>q. QED BY <3>1, <3>2
  <2>3. ASSUME W!EndUnmarked(r)
        PROVE  \E v : W!Go(r, v) /\ v.pc \notin {"building", "built"}
    <3>1. PICK v : v = [ pc |-> "ended", row |-> makings[r].row,
                         delivered |-> makings[r].delivered,
                         status |-> IF makings[r].row = W!NoRow THEN "error"
                                    ELSE makings[r].status ]
      OBVIOUS
    <3>2. W!Go(r, v) BY <2>3, <3>1 DEF W!EndUnmarked, W!End
    <3>q. QED BY <3>1, <3>2
  <2>q. QED BY <2>1, <2>2, <2>3 DEF W!Publish, W!PublishFails
<1>2. UNCHANGED <<now, synced, reports>>
  BY DEF W!PersistFails, W!Publish, W!PublishFails, W!EndUnmarked
<1>3. PICK v : W!Go(r, v) /\ v.pc \notin {"building", "built"} BY <1>1
<1>q. QED BY <1>2, <1>3, FunnelOtherStep

LEMMA FunnelMarkStep ==
  ASSUME WeeklyIInv, FunnelIInv, NEW r \in W!Runs, W!MarkDelivered(r) PROVE FunnelIInv'
<1>1. PICK v : W!Go(r, v) /\ v.pc = "ended" BY DEF W!MarkDelivered, W!End
<1>2. makings'[r] = v /\ \A q \in W!Runs : q # r => makings'[q] = makings[q] BY <1>1, GoMoves
<1>3. FunnelRun(r)' BY <1>1, <1>2 DEF FunnelRun, W!At
<1>4. PICK n : reports' = [reports EXCEPT ![n].delivered = TRUE] BY DEF W!MarkDelivered
<1>5. ASSUME NEW i \in DOMAIN reports'
      PROVE  /\ i \in DOMAIN reports /\ reports'[i].status = reports[i].status
             /\ reports'[i].payload = reports[i].payload
             /\ reports'[i].window = reports[i].window
  <2>1. i \in DOMAIN reports BY <1>4
  <2>2. DOMAIN reports[i] = RowFields BY <2>1 DEF WeeklyIInv, RowOK
  <2>3. reports'[i] = IF i = n THEN [reports[i] EXCEPT !.delivered = TRUE] ELSE reports[i]
    BY <1>4, <2>1
  <2>q. QED BY <2>1, <2>2, <2>3 DEF RowFields
<1>6. now' = now /\ synced' = synced BY DEF W!MarkDelivered
<1>7. \A q \in W!Runs : makings'[q] = makings[q] \/ FunnelRun(q)' BY <1>2, <1>3
<1>q. QED BY <1>5, <1>6, <1>7, FunnelStepKeeps

LEMMA FunnelCrashStep ==
  ASSUME FunnelIInv, W!Crash PROVE FunnelIInv'
<1>1. ASSUME NEW r \in W!Runs PROVE makings'[r] = makings[r] \/ FunnelRun(r)'
  <2>1. CASE makings[r].pc \in {"idle", "ended"} BY <2>1 DEF W!Crash
  <2>2. CASE makings[r].pc \notin {"idle", "ended"}
    <3>1. makings'[r] = [pc |-> "dead"] BY <2>2 DEF W!Crash
    <3>2. makings'[r].pc = "dead" BY <3>1
    <3>q. QED BY <3>2 DEF FunnelRun, W!At
  <2>q. QED BY <2>1, <2>2
<1>2. now' = now /\ synced' = synced /\ reports' = reports BY DEF W!Crash
<1>q. QED BY <1>1, <1>2, FunnelStepKeeps

\* The clock only goes on, and so does the copy.
LEMMA FunnelTimeStep ==
  ASSUME W!Settings, FunnelIInv, W!Sync \/ W!TimePasses PROVE FunnelIInv'
<1>1. makings' = makings /\ reports' = reports BY DEF W!Sync, W!TimePasses
<1>2. now \in Nat /\ 2 * WindowDays + 1 <= now /\ now <= LastInstant
  BY DEF FunnelIInv
<1>3. WindowDays \in Nat /\ LastInstant \in Nat BY DEF W!Settings
<1>4. now' \in Nat /\ now <= now' /\ now' <= LastInstant
  <2>1. CASE W!Sync BY <1>2, <2>1 DEF W!Sync
  <2>2. CASE W!TimePasses
    <3>1. now < LastInstant /\ now' = now + 1 BY <2>2 DEF W!TimePasses
    <3>q. QED BY <1>2, <1>3, <3>1
  <2>q. QED BY <2>1, <2>2
<1>5. 2 * WindowDays + 1 <= now' BY <1>2, <1>3, <1>4
<1>6. /\ synced' = W!Never \/ (synced' \in Nat /\ synced' <= now')
      /\ synced \in Nat => synced' \in Nat /\ synced <= synced'
  <2>1. W!Never \notin Nat BY DEF W!Never
  <2>2. synced = W!Never \/ (synced \in Nat /\ synced <= now) BY DEF FunnelIInv
  <2>3. CASE W!Sync
    <3>1. synced' = now /\ now' = now BY <2>3 DEF W!Sync
    <3>q. QED BY <1>2, <2>1, <2>2, <3>1
  <2>4. CASE W!TimePasses
    <3>1. synced' = synced BY <2>4 DEF W!TimePasses
    <3>q. QED BY <1>2, <1>4, <2>1, <2>2, <3>1
  <2>q. QED BY <2>3, <2>4
<1>7. ASSUME NEW r \in W!Runs PROVE FunnelRun(r)'
  <2>1. FunnelRun(r) BY DEF FunnelIInv
  <2>2. ASSUME BuildingOK(r) PROVE BuildingOK(r)'
    <3>1. PastWindow(makings[r].to)'
      <4>1. PICK to : to = makings[r].to OBVIOUS
      <4>2. to \in Nat /\ WindowDays - 1 <= to /\ W!EndOfDay(to) < now
        BY <2>2, <4>1 DEF BuildingOK, PastWindow
      <4>3. W!EndOfDay(to) < now' BY <1>2, <1>4, <4>2 DEF W!EndOfDay
      <4>q. QED BY <1>1, <4>1, <4>2, <4>3 DEF PastWindow
    <3>2. PICK copied : copied = makings[r].provenance OBVIOUS
    <3>3. copied = W!Null \/ (copied \in Nat /\ synced \in Nat /\ copied <= synced)
      BY <2>2, <3>2 DEF BuildingOK
    <3>4. copied = W!Null \/ (copied \in Nat /\ synced' \in Nat /\ copied <= synced')
      BY <1>6, <3>3
    <3>q. QED BY <1>1, <2>2, <3>1, <3>2, <3>4 DEF BuildingOK
  <2>q. QED BY <1>1, <2>1, <2>2 DEF FunnelRun, W!At
<1>8. \A i \in DOMAIN reports' : FunnelRow(i)' BY <1>1 DEF FunnelIInv, FunnelRow
<1>q. QED BY <1>4, <1>5, <1>6, <1>7, <1>8 DEF FunnelIInv

LEMMA FunnelInitOK == ASSUME W!Settings, W!Init PROVE FunnelIInv
<1>1. now = 2 * WindowDays + 1 /\ synced = W!Never /\ reports = <<>>
      /\ makings = [r \in W!Runs |-> W!NotStarted]
  BY DEF W!Init
<1>2. \A r \in W!Runs : makings[r].pc = "idle" BY <1>1 DEF W!NotStarted
<1>3. \A r \in W!Runs : FunnelRun(r) BY <1>2 DEF FunnelRun, W!At
<1>4. WindowDays \in Nat /\ LastInstant \in Nat /\ 2 * WindowDays < LastInstant BY DEF W!Settings
<1>5. now \in Nat /\ 2 * WindowDays + 1 <= now /\ now <= LastInstant BY <1>1, <1>4
<1>q. QED BY <1>1, <1>3, <1>5 DEF FunnelIInv

LEMMA FunnelNextOK ==
  ASSUME W!Settings, WeeklyIInv, FunnelIInv, [W!Next]_(W!weeklyVars) PROVE FunnelIInv'
<1>1. ASSUME NEW r \in W!Runs, W!Run(r) PROVE FunnelIInv'
  <2>1. CASE W!Start(r) BY <2>1, FunnelStartStep
  <2>2. CASE \/ \E reply \in W!SurvivalAnswers : W!ReadSurvival(r, reply)
             \/ W!ReadProvenance(r)
             \/ W!ReadTutorial(r)
             \/ \E reply \in W!TutorialAnswers : W!TutorialMissing(r, reply)
    BY <2>2, FunnelReadStep
  <2>3. CASE (\E health \in HealthSections : W!Build(r, health)) \/ W!BuildFails(r)
    BY <2>3, FunnelBuildStep
  <2>4. CASE W!Persist(r) BY <2>4, FunnelPersistStep
  <2>5. CASE \/ W!PersistFails(r) \/ W!PublishFails(r) \/ W!EndUnmarked(r)
             \/ \E answered \in BOOLEAN : W!Publish(r, answered)
    BY <2>5, FunnelRestStep
  <2>6. CASE W!MarkDelivered(r) BY <2>6, FunnelMarkStep
  <2>q. QED BY <1>1, <2>1, <2>2, <2>3, <2>4, <2>5, <2>6 DEF W!Run
<1>2. CASE W!Crash BY <1>2, FunnelCrashStep
<1>3. CASE W!Sync \/ W!TimePasses BY <1>3, FunnelTimeStep
<1>4. CASE UNCHANGED W!weeklyVars
  <2>1. UNCHANGED <<now, synced, makings, reports>> BY <1>4 DEF W!weeklyVars
  <2>q. QED BY <2>1, FunnelStepKeeps
<1>q. QED BY <1>1, <1>2, <1>3, <1>4 DEF W!Next

\* A series of past days: the buckets which lie in its window whole.
LEMMA SeriesIsWhole ==
  ASSUME W!Settings, plan \in Plans, FunnelIInv,
         NEW g \in W!Granularities, NEW f \in W!PlatformFilters, NEW to, to = W!DayOf(now) - 1,
         NEW series,
         series = W!Buckets(W!Survival(W!PlanUsers, "ok", now, g, 0, to, f),
                            W!Tutorial(W!TutorialDaily, synced, "ok", g, 0, to, f)),
         NEW key \in DOMAIN series,
         NEW days, days = {d \in 0..LastInstant : W!Key(g, d) = key},
         days \subseteq W!ClampFrom(0, to)..to,
         NEW c, c = series[key].counts
  PROVE  /\ W!IsTotal(c[2], W!Came(days, f))
         /\ synced > W!EndOfDay(W!Max(days)) =>
              W!IsTotal(c[3], W!EnteredIn(days, f)) /\ W!IsTotal(c[4], W!CompletedIn(days, f))
<1>1. PICK d : d = W!DayOf(now) OBVIOUS
<1>2. now \in Nat /\ 2 * WindowDays + 1 <= now /\ now <= LastInstant BY DEF FunnelIInv
<1>3. /\ WindowDays \in Nat /\ 1 <= WindowDays /\ LastInstant \in Nat /\ MaxWindow \in Nat
  BY DEF W!Settings
<1>4. d \in Nat /\ 2 * d <= now /\ now <= 2 * d + 1 BY <1>1, <1>2, DayIsNat
<1>5. to \in Nat /\ 2 * to + 1 < now /\ to <= LastInstant BY <1>1, <1>2, <1>3, <1>4
<1>6. W!EndOfDay(to) < now BY <1>5 DEF W!EndOfDay
<1>7. PICK from : from = 0 OBVIOUS
<1>8. from \in Nat BY <1>7
<1>9. PICK low : low = W!ClampFrom(from, to) OBVIOUS
<1>10. low \in Nat
  <2>1. low \in Int /\ low >= from BY <1>3, <1>5, <1>8, <1>9, ClampIs
  <2>q. QED BY <1>8, <2>1
<1>11. days = Holds(g, from, to, key)
  <2>1. low..to \subseteq 0..LastInstant BY <1>3, <1>5, <1>10
  <2>2. days \subseteq low..to BY <1>7, <1>9
  <2>3. Holds(g, from, to, key) = {x \in low..to : W!Key(g, x) = key} BY <1>9 DEF Holds
  <2>q. QED BY <2>1, <2>2, <2>3
<1>12. PICK s : s = W!Survival(W!PlanUsers, "ok", now, g, from, to, f) OBVIOUS
<1>13. PICK t : t = W!Tutorial(W!TutorialDaily, synced, "ok", g, from, to, f) OBVIOUS
<1>14. s.counts = W!SurvivalCounts(W!PlanUsers, g, from, to, f) BY <1>12 DEF W!Survival
<1>15. DOMAIN s.counts = W!BucketKeys(g, from, to) BY <1>14 DEF W!SurvivalCounts
<1>16. series = W!Buckets(s, t) BY <1>7, <1>12, <1>13
<1>17. key \in W!BucketKeys(g, from, to) BY <1>15, <1>16 DEF W!Buckets
<1>18. /\ c[2] = s.counts[key] /\ c[3] = t.counts[key].entered
       /\ c[4] = t.counts[key].completed
  <2>1. series[key] = W!BuildBucket(s.counts[key], t.counts[key].entered, t.counts[key].completed)
    BY <1>16 DEF W!Buckets
  <2>q. QED BY <2>1, CountsFrom
<1>19. W!IsTotal(c[2], W!Came(days, f))
  <2>1. PICK count : count = W!SurvivalCounts(W!PlanUsers, g, from, to, f)[key] OBVIOUS
  <2>2. count.value \in {W!Null, W!Came(Holds(g, from, to, key), f)}
    BY <1>2, <1>5, <1>6, <1>8, <1>17, <2>1, SurvivalIsTotal
  <2>q. QED BY <1>11, <1>14, <1>18, <2>1, <2>2 DEF W!IsTotal
<1>20. ASSUME synced > W!EndOfDay(W!Max(days))
       PROVE  W!IsTotal(c[3], W!EnteredIn(days, f)) /\ W!IsTotal(c[4], W!CompletedIn(days, f))
  <2>1. days # {} /\ days \subseteq low..to /\ days \subseteq Int
    <3>1. PICK x \in low..to : key = W!Key(g, x) BY <1>9, <1>17 DEF W!BucketKeys
    <3>2. x \in days BY <1>9, <1>11, <3>1 DEF Holds
    <3>3. days \subseteq low..to BY <1>7, <1>9
    <3>4. low..to \subseteq Int BY <1>5, <1>10
    <3>q. QED BY <3>2, <3>3, <3>4
  <2>2. IsFiniteSet(days)
    <3>1. IsFiniteSet(low..to) BY <1>5, <1>10, FS_Interval
    <3>q. QED BY <2>1, <3>1, FS_Subset
  <2>3. PICK m : m = W!Max(days) OBVIOUS
  <2>4. m \in days /\ \A y \in days : y <= m
    <3>1. W!Max(days) = Max(days) BY DEF W!Max, Max
    <3>q. QED BY <2>1, <2>2, <2>3, <3>1, MaxIsGreatest
  <2>5. m \in Nat /\ synced > 2 * m + 1 BY <1>10, <1>20, <2>1, <2>3, <2>4 DEF W!EndOfDay
  <2>6. synced \in Nat /\ synced # W!Never
    <3>1. synced = -1 \/ (synced \in Nat /\ synced <= now) BY DEF FunnelIInv, W!Never
    <3>2. synced # -1 BY <2>5
    <3>q. QED BY <3>1, <3>2 DEF W!Never
  <2>7. \A y \in days : W!EndOfDay(y) < synced
    BY <2>1, <2>4, <2>5, <2>6 DEF W!EndOfDay
  <2>8. t.counts = W!TutorialCounts(W!TutorialDaily, g, from, to, f)
    BY <1>13, <2>6 DEF W!Tutorial
  <2>9. PICK count : count = W!TutorialCounts(W!TutorialDaily, g, from, to, f)[key] OBVIOUS
  <2>10. count.entered.value = W!EnteredIn(days, f) /\ count.completed.value = W!CompletedIn(days, f)
    <3>1. /\ key \in W!BucketKeys(g, from, to) /\ days = Holds(g, from, to, key)
          /\ count = W!TutorialCounts(W!TutorialDaily, g, from, to, f)[key]
      BY <1>11, <1>17, <2>9
    <3>2. from \in Nat /\ to \in Nat /\ synced \in Nat BY <1>5, <1>8, <2>6
    <3>q. QED BY <2>7, <3>1, <3>2, StepsAreWhole
  <2>q. QED BY <1>18, <2>8, <2>9, <2>10 DEF W!IsTotal
<1>q. QED BY <1>19, <1>20

LEMMA SectionsAreWhole ==
  ASSUME FunnelIInv, NEW i \in DOMAIN reports, reports[i].status = "ok",
         NEW funnel, funnel = reports[i].payload.funnel,
         NEW days, days = reports[i].window.from..reports[i].window.to,
         NEW c, c = funnel.bucket.counts
  PROVE  /\ W!IsTotal(c[2], W!Came(days, "all"))
         /\ funnel.tutorial.ok /\ funnel.tutorial.asOf > W!EndOfDay(reports[i].window.to) =>
              W!IsTotal(c[3], W!EnteredIn(days, "all")) /\ W!IsTotal(c[4], W!CompletedIn(days, "all"))
<1>1. FunnelRow(i) BY DEF FunnelIInv
<1>2. SectionOK(funnel, reports[i].window) BY <1>1 DEF FunnelRow
<1>3. funnel.tutorial.ok \in BOOLEAN BY <1>2 DEF SectionOK
<1>4. W!IsTotal(c[2], W!Came(days, "all")) BY <1>2 DEF SectionOK
<1>5. ASSUME funnel.tutorial.ok, funnel.tutorial.asOf > W!EndOfDay(reports[i].window.to)
      PROVE  W!IsTotal(c[3], W!EnteredIn(days, "all")) /\ W!IsTotal(c[4], W!CompletedIn(days, "all"))
  BY <1>2, <1>3, <1>5 DEF SectionOK
<1>q. QED BY <1>4, <1>5

LEMMA FunnelIsWhole ==
  ASSUME W!Settings, plan \in Plans, FunnelIInv PROVE W!TotalsAreWhole
<1>1. ASSUME NEW i \in DOMAIN reports, reports[i].status = "ok"
      PROVE  LET funnel == reports[i].payload.funnel
                 days   == reports[i].window.from..reports[i].window.to
                 c      == funnel.bucket.counts
             IN  /\ W!IsTotal(c[2], W!Came(days, "all"))
                 /\ funnel.tutorial.ok /\ funnel.tutorial.asOf > W!EndOfDay(reports[i].window.to) =>
                      W!IsTotal(c[3], W!EnteredIn(days, "all")) /\ W!IsTotal(c[4], W!CompletedIn(days, "all"))
  BY <1>1, SectionsAreWhole
<1>2. ASSUME NEW g \in W!Granularities, NEW f \in W!PlatformFilters
      PROVE  LET to     == W!DayOf(now) - 1
                 series == W!Buckets(W!Survival(W!PlanUsers, "ok", now, g, 0, to, f),
                             W!Tutorial(W!TutorialDaily, synced, "ok", g, 0, to, f))
             IN  \A key \in DOMAIN series :
                   LET days == {d \in 0..LastInstant : W!Key(g, d) = key}
                       c    == series[key].counts
                   IN  days \subseteq W!ClampFrom(0, to)..to =>
                         /\ W!IsTotal(c[2], W!Came(days, f))
                         /\ synced > W!EndOfDay(W!Max(days)) =>
                              W!IsTotal(c[3], W!EnteredIn(days, f)) /\ W!IsTotal(c[4], W!CompletedIn(days, f))
  <2>1. PICK to : to = W!DayOf(now) - 1 OBVIOUS
  <2>2. PICK series : series = W!Buckets(W!Survival(W!PlanUsers, "ok", now, g, 0, to, f),
                             W!Tutorial(W!TutorialDaily, synced, "ok", g, 0, to, f))
    OBVIOUS
  <2>3. ASSUME NEW key \in DOMAIN series,
               {d \in 0..LastInstant : W!Key(g, d) = key} \subseteq W!ClampFrom(0, to)..to
        PROVE  LET days == {d \in 0..LastInstant : W!Key(g, d) = key}
                   c    == series[key].counts
               IN  /\ W!IsTotal(c[2], W!Came(days, f))
                   /\ synced > W!EndOfDay(W!Max(days)) =>
                        W!IsTotal(c[3], W!EnteredIn(days, f)) /\ W!IsTotal(c[4], W!CompletedIn(days, f))
    <3>1. PICK days : days = {d \in 0..LastInstant : W!Key(g, d) = key} OBVIOUS
    <3>2. PICK c : c = series[key].counts OBVIOUS
    <3>3. /\ W!IsTotal(c[2], W!Came(days, f))
          /\ synced > W!EndOfDay(W!Max(days)) =>
               W!IsTotal(c[3], W!EnteredIn(days, f)) /\ W!IsTotal(c[4], W!CompletedIn(days, f))
      BY <2>1, <2>2, <2>3, <3>1, <3>2, SeriesIsWhole
    <3>q. QED BY <3>1, <3>2, <3>3
  <2>q. QED BY <2>1, <2>2, <2>3
<1>q. QED BY <1>1, <1>2 DEF W!TotalsAreWhole

\* The counts of a week, and of every bucket of a series which lies in its window
\* whole, are of all who came, entered or completed, or are none: for any
\* newcomers and months, whatever is read when and whichever source is out.
\* Code: funnel.service.ts survivalByBucket, tutorialByBucket;
\* weekly-report.builder.ts rollUp
THEOREM WholeTotals == ReadSpec => []TotalsAreWhole
<1> DEFINE Inv == topic = "weekly" => WeeklyIInv /\ FunnelIInv
<1>1. ReadInit => Inv BY WeeklyInitOK, FunnelInitOK, ReadAssumption DEF ReadInit
<1>2. Inv /\ [ReadNext]_readVars => Inv'
  <2>1. ASSUME Inv, [ReadNext]_readVars, topic' = "weekly" PROVE WeeklyIInv' /\ FunnelIInv'
    <3>1. topic = "weekly" /\ [W!Next]_weeklyVars BY <2>1, OneTopic
    <3>2. WeeklyIInv /\ FunnelIInv BY <2>1, <3>1
    <3>3. [W!Next]_(W!weeklyVars) BY <3>1 DEF weeklyVars, W!weeklyVars
    <3>q. QED BY <3>2, <3>3, WeeklyNextOK, FunnelNextOK, ReadAssumption
  <2>q. QED BY <2>1
<1>3. Inv => TotalsAreWhole
  <2>1. ASSUME WeeklyIInv, FunnelIInv PROVE W!TotalsAreWhole
    <3>1. plan \in Plans BY <2>1 DEF WeeklyIInv
    <3>q. QED BY <2>1, <3>1, FunnelIsWhole, ReadAssumption
  <2>q. QED BY <2>1 DEF TotalsAreWhole
<1> HIDE DEF Inv
<1>q. QED BY <1>1, <1>2, <1>3, PTL DEF ReadSpec, readVars

-----------------------------------------------------------------------------
(* Retention: the clock decides no number.                                 *)

\* What is told where no player had the time: only the reason is of the clock.
Waits(m) == m \in { [reason |-> "source_stale", n |-> 0], [reason |-> "immature_horizon", n |-> 0] }

Alike(m, o) == m = o \/ (Waits(m) /\ Waits(o))

Bare(m) == [m EXCEPT !.reason = R!Measured(m)]

CohortAlike(c, d) ==
  /\ c.month = d.month /\ c.platform = d.platform /\ c.size = d.size
  /\ \A h \in R!Horizons : Alike(c.measures[h], d.measures[h])

\* Two tables that differ in such reasons only.
TableAlike(a, b) ==
  /\ \A c \in a : \E d \in b : CohortAlike(c, d)
  /\ \A d \in b : \E c \in a : CohortAlike(c, d)

LEMMA AlikeMeasures ==
  ASSUME NEW m, NEW o, Alike(m, o)
  PROVE  /\ Bare(m) = Bare(o) /\ m.n = o.n
         /\ R!Measured(m) <=> R!Measured(o)
         /\ R!Measured(m) => m = o
         /\ m.reason = "implausible_survival" <=> o.reason = "implausible_survival"
<1>1. CASE m = o BY <1>1
<1>2. CASE Waits(m) /\ Waits(o)
  <2>1. m.n = 0 /\ o.n = 0 /\ m.reason \in {"source_stale", "immature_horizon"}
        /\ o.reason \in {"source_stale", "immature_horizon"}
    BY <1>2 DEF Waits
  <2>2. ~R!Measured(m) /\ ~R!Measured(o) BY <2>1 DEF R!Measured
  <2>3. ASSUME NEW w, Waits(w) PROVE Bare(w) = [reason |-> FALSE, n |-> 0]
    <3>1. PICK why \in {"source_stale", "immature_horizon"} : w = [reason |-> why, n |-> 0]
      BY <2>3 DEF Waits
    <3>2. R!Measured(w) = FALSE BY <3>1 DEF R!Measured
    <3>3. Bare(w) = [w EXCEPT !.reason = FALSE] BY <3>2 DEF Bare
    <3>q. QED BY <3>1, <3>3
  <2>4. Bare(m) = Bare(o) BY <1>2, <2>3
  <2>q. QED BY <2>1, <2>2, <2>4
<1>q. QED BY <1>1, <1>2 DEF Alike

LEMMA MeasureOfAlike ==
  ASSUME NEW members, NEW players, NEW h, NEW through, NEW n1, NEW n2, NEW suspect
  PROVE  Alike(R!MeasureOf(members, players, h, through, n1, suspect),
               R!MeasureOf(members, players, h, through, n2, suspect))
<1>1. PICK eligible : eligible = {p \in members : through - p.registered >= h} OBVIOUS
<1>2. PICK n : n = R!Many(eligible, players) OBVIOUS
<1>3. ASSUME NEW t
      PROVE  \/ /\ suspect
                /\ R!MeasureOf(members, players, h, through, t, suspect)
                     = [reason |-> "import_artifact", n |-> n]
             \/ /\ ~suspect /\ n = 0
                /\ Waits(R!MeasureOf(members, players, h, through, t, suspect))
             \/ /\ ~suspect /\ n # 0
                /\ R!MeasureOf(members, players, h, through, t, suspect) =
                     [ reason |-> "measured", n |-> n,
                       survived |-> R!Many({p \in eligible : p.lastSeen - p.registered >= h},
                                           players),
                       belowMinimum |-> n < MinCohort ]
  BY <1>1, <1>2 DEF R!MeasureOf, R!Reached, Waits
<1>q. QED BY <1>3 DEF Alike

LEMMA ReadsImplausibleAlike ==
  ASSUME NEW x, NEW y, \A h \in R!Horizons : Alike(x[h], y[h])
  PROVE  /\ R!ReadsImplausible(x) <=> R!ReadsImplausible(y)
         /\ \A h \in R!Horizons : R!Measured(x[h]) <=> R!Measured(y[h])
<1>1. \A h \in R!Horizons : R!Measured(x[h]) <=> R!Measured(y[h]) BY AlikeMeasures
<1>2. \A h \in R!Horizons : R!Measured(x[h]) => x[h] = y[h] BY AlikeMeasures
<1>q. QED BY <1>1, <1>2 DEF R!ReadsImplausible

LEMMA SuppressAlike ==
  ASSUME NEW x, NEW y, NEW size, \A h \in R!Horizons : Alike(x[h], y[h])
  PROVE  \A h \in R!Horizons : Alike(R!SuppressImplausible(x, size)[h], R!SuppressImplausible(y, size)[h])
<1>1. R!ReadsImplausible(x) <=> R!ReadsImplausible(y) BY ReadsImplausibleAlike
<1>2. CASE ~(size >= R!ImplausibleMinCohort /\ R!ReadsImplausible(x))
  BY <1>1, <1>2 DEF R!SuppressImplausible
<1>3. CASE size >= R!ImplausibleMinCohort /\ R!ReadsImplausible(x)
  <2>1. \A h \in R!Horizons : x[h].n = y[h].n BY AlikeMeasures
  <2>2. \A h \in R!Horizons : R!SuppressImplausible(x, size)[h] = R!Blank(x[h], "implausible_survival")
    BY <1>3 DEF R!SuppressImplausible
  <2>3. \A h \in R!Horizons : R!SuppressImplausible(y, size)[h] = R!Blank(y[h], "implausible_survival")
    BY <1>1, <1>3 DEF R!SuppressImplausible
  <2>q. QED BY <2>1, <2>2, <2>3 DEF R!Blank, Alike
<1>q. QED BY <1>2, <1>3

LEMMA CohortOfAlike ==
  ASSUME NEW month, NEW platform, NEW players, NEW stampDays, NEW n1, NEW n2
  PROVE  CohortAlike(R!CohortOf(month, platform, players, stampDays, n1),
                     R!CohortOf(month, platform, players, stampDays, n2))
<1>1. PICK members : members = { p \in DOMAIN players :
                       R!Month(p.registered) = month /\ p.platform = platform }
  OBVIOUS
<1>2. PICK size : size = R!Many(members, players) OBVIOUS
<1>3. PICK tainted : tainted = R!ContaminationOf(members, players, stampDays) OBVIOUS
<1> DEFINE raw(t) == [h \in R!Horizons |-> R!MeasureOf(members, players, h,
                        R!DataThrough(players), t, tainted.suspect)]
           c(t) == R!CohortOf(month, platform, players, stampDays, t)
<1>4. ASSUME NEW t
      PROVE  c(t) = [ month |-> month, platform |-> platform, size |-> size,
                      belowMinimum |-> size < MinCohort, contamination |-> tainted,
                      measures |-> R!SuppressImplausible(raw(t), size) ]
  BY <1>1, <1>2, <1>3 DEF R!CohortOf
<1>5. \A h \in R!Horizons : Alike(raw(n1)[h], raw(n2)[h]) BY MeasureOfAlike
<1> HIDE DEF raw
<1>6. \A h \in R!Horizons : Alike(R!SuppressImplausible(raw(n1), size)[h],
                                  R!SuppressImplausible(raw(n2), size)[h])
  BY <1>5, SuppressAlike
<1> HIDE DEF c
<1>7. /\ c(n1).month = c(n2).month /\ c(n1).platform = c(n2).platform /\ c(n1).size = c(n2).size
      /\ c(n1).measures = R!SuppressImplausible(raw(n1), size)
      /\ c(n2).measures = R!SuppressImplausible(raw(n2), size)
  BY <1>4
<1>8. CohortAlike(c(n1), c(n2)) BY <1>6, <1>7 DEF CohortAlike
<1>q. QED BY <1>8 DEF c

LEMMA BuildAlike ==
  ASSUME NEW players, NEW n1, NEW n2
  PROVE  TableAlike(R!BuildCohorts(players, n1), R!BuildCohorts(players, n2))
<1>1. PICK groups : groups = {<<R!Month(p.registered), p.platform>> : p \in DOMAIN players} OBVIOUS
<1>2. PICK stampDays : stampDays = {s.day : s \in R!StampDays(players)} OBVIOUS
<1>3. ASSUME NEW t
      PROVE  R!BuildCohorts(players, t) =
               {R!CohortOf(g[1], g[2], players, stampDays, t) : g \in groups}
  BY <1>1, <1>2 DEF R!BuildCohorts
<1>q. QED BY <1>3, CohortOfAlike DEF TableAlike

LEMMA JudgedAlike ==
  ASSUME NEW c, NEW d, CohortAlike(c, d)
  PROVE  /\ R!JudgedImplausible(c) <=> R!JudgedImplausible(d)
         /\ R!Judgeable(c) <=> R!Judgeable(d)
         /\ R!ReadsImplausible(c.measures) <=> R!ReadsImplausible(d.measures)
<1>1. \A h \in R!Horizons : Alike(c.measures[h], d.measures[h]) BY DEF CohortAlike
<1>2. R!ReadsImplausible(c.measures) <=> R!ReadsImplausible(d.measures)
  BY <1>1, ReadsImplausibleAlike
<1>3. \A h \in R!Horizons :
        /\ R!Measured(c.measures[h]) <=> R!Measured(d.measures[h])
        /\ c.measures[h].reason = "implausible_survival"
             <=> d.measures[h].reason = "implausible_survival"
  BY <1>1, AlikeMeasures
<1>4. R!JudgedImplausible(c) <=> R!JudgedImplausible(d) BY <1>3 DEF R!JudgedImplausible
<1>5. R!Judgeable(c) <=> R!Judgeable(d) BY <1>3, <1>4 DEF R!Judgeable, CohortAlike
<1>q. QED BY <1>2, <1>4, <1>5

LEMMA ConfirmedAlike ==
  ASSUME NEW a, NEW b, TableAlike(a, b)
  PROVE  R!Confirmed(a) = R!Confirmed(b) /\ R!Clean(a) = R!Clean(b)
<1>1. \A c, d : CohortAlike(c, d) =>
        /\ c.month = d.month
        /\ R!JudgedImplausible(c) <=> R!JudgedImplausible(d)
        /\ R!Judgeable(c) <=> R!Judgeable(d)
  BY JudgedAlike DEF CohortAlike
<1>2. R!Confirmed(a) = R!Confirmed(b) BY <1>1 DEF TableAlike, R!Confirmed, R!MonthsOf
<1>3. PICK x : x = R!MonthsOf({c \in a : R!Judgeable(c)}) OBVIOUS
<1>4. PICK y : y = R!MonthsOf({c \in b : R!Judgeable(c)}) OBVIOUS
<1>5. x = y BY <1>1, <1>3, <1>4 DEF TableAlike, R!MonthsOf
<1>q. QED BY <1>2, <1>3, <1>4, <1>5 DEF R!Clean

\* The months of the runs, which are all of a span that the table uses.
LEMMA SpansAlike ==
  ASSUME NEW a, NEW b, TableAlike(a, b)
  PROVE  /\ \A s \in R!DetectContaminatedSpans(a) :
              \E t \in R!DetectContaminatedSpans(b) : s.from = t.from /\ s.to = t.to
         /\ \A t \in R!DetectContaminatedSpans(b) :
              \E s \in R!DetectContaminatedSpans(a) : s.from = t.from /\ s.to = t.to
<1>1. R!Confirmed(a) = R!Confirmed(b) /\ R!Clean(a) = R!Clean(b) BY ConfirmedAlike
<1>2. \A p, q : R!Walled(a, p, q) <=> R!Walled(b, p, q) BY <1>1 DEF R!Walled
<1>3. R!Starts(a) = R!Starts(b) BY <1>1, <1>2 DEF R!Starts
<1> DEFINE months(all, start) == {q \in R!Confirmed(all) :
                     start <= q /\ \A t \in R!Starts(all) : start < t => q < t}
           span(all, start) ==
             LET inside == {c \in all : start <= c.month /\ c.month <= R!Max(months(all, start))}
             IN  [ from |-> start, to |-> R!Max(months(all, start)),
                   confirmedMonths |-> months(all, start),
                   confirmedCohorts |-> R!Cardinality({c \in inside : R!JudgedImplausible(c)}),
                   judgedCohorts |-> R!Cardinality({c \in inside : R!Judgeable(c)}) ]
<1>4. ASSUME NEW all
      PROVE  R!DetectContaminatedSpans(all) = {span(all, start) : start \in R!Starts(all)}
  BY DEF R!DetectContaminatedSpans
<1>5. ASSUME NEW all, NEW start
      PROVE  span(all, start).from = start /\ span(all, start).to = R!Max(months(all, start))
  OBVIOUS
<1>6. \A start : months(a, start) = months(b, start) BY <1>1, <1>3
<1> HIDE DEF months, span
<1>q. QED BY <1>3, <1>4, <1>5, <1>6

LEMMA AppliedAlike ==
  ASSUME NEW a, NEW b, TableAlike(a, b), NEW s, NEW t,
         \A x \in s : \E y \in t : x.from = y.from /\ x.to = y.to,
         \A y \in t : \E x \in s : x.from = y.from /\ x.to = y.to
  PROVE  TableAlike(R!ApplyContaminatedSpans(a, s), R!ApplyContaminatedSpans(b, t))
<1> DEFINE ap(c, spans) ==
             IF R!Inherits(c, spans)
             THEN [c EXCEPT !.measures =
                     [h \in R!Horizons |-> R!Blank(c.measures[h], "contaminated_span")]]
             ELSE c
<1>1. ASSUME NEW all, NEW spans
      PROVE  R!ApplyContaminatedSpans(all, spans) = {ap(c, spans) : c \in all}
  BY DEF R!ApplyContaminatedSpans
<1>2. ASSUME NEW c \in a, NEW d \in b, CohortAlike(c, d)
      PROVE  CohortAlike(ap(c, s), ap(d, t))
  <2>1. c.month = d.month BY <1>2 DEF CohortAlike
  <2>2. (\E x \in s : R!Inside(c.month, x)) <=> (\E y \in t : R!Inside(d.month, y))
    BY <2>1 DEF R!Inside
  <2>3. R!Inherits(c, s) <=> R!Inherits(d, t)
    BY <1>2, <2>2, JudgedAlike DEF R!Inherits
  <2>4. CASE ~R!Inherits(c, s) BY <1>2, <2>3, <2>4
  <2>5. CASE R!Inherits(c, s)
    <3> DEFINE blanked(e) == [h \in R!Horizons |-> R!Blank(e.measures[h], "contaminated_span")]
    <3>1. ap(c, s) = [c EXCEPT !.measures = blanked(c)] BY <2>5
    <3>2. ap(d, t) = [d EXCEPT !.measures = blanked(d)] BY <2>3, <2>5
    <3> HIDE DEF ap
    <3>3. \A h \in R!Horizons : c.measures[h].n = d.measures[h].n
      BY <1>2, AlikeMeasures DEF CohortAlike
    <3>4. \A h \in R!Horizons : blanked(c)[h] = blanked(d)[h] BY <3>3 DEF R!Blank
    <3> HIDE DEF blanked
    <3>q. QED BY <1>2, <3>1, <3>2, <3>4 DEF CohortAlike, Alike
  <2>q. QED BY <2>4, <2>5
<1> HIDE DEF ap
<1>q. QED BY <1>1, <1>2 DEF TableAlike

LEMMA NumbersAlike ==
  ASSUME NEW x, NEW y, TableAlike(x.cohorts, y.cohorts)
  PROVE  R!Numbers(x) = R!Numbers(y)
<1> DEFINE bares(c) == [h \in R!Horizons |-> Bare(c.measures[h])]
           num(c) == [group |-> <<c.month, c.platform, c.size>>, measures |-> bares(c)]
<1>1. ASSUME NEW r PROVE R!Numbers(r) = {num(c) : c \in r.cohorts}
  BY DEF R!Numbers, Bare
<1>2. ASSUME NEW c, NEW d, CohortAlike(c, d) PROVE num(c) = num(d)
  <2>1. \A h \in R!Horizons : Bare(c.measures[h]) = Bare(d.measures[h])
    BY <1>2, AlikeMeasures DEF CohortAlike
  <2>2. c.month = d.month /\ c.platform = d.platform /\ c.size = d.size BY <1>2 DEF CohortAlike
  <2>3. bares(c) = bares(d) BY <2>1
  <2> HIDE DEF bares
  <2>q. QED BY <2>2, <2>3
<1> HIDE DEF num, bares
<1>3. \A c \in x.cohorts : \E d \in y.cohorts : num(c) = num(d) BY <1>2 DEF TableAlike
<1>4. \A d \in y.cohorts : \E c \in x.cohorts : num(c) = num(d) BY <1>2 DEF TableAlike
<1>5. {num(c) : c \in x.cohorts} = {num(d) : d \in y.cohorts} BY <1>3, <1>4
<1>q. QED BY <1>1, <1>5

LEMMA NumbersStand ==
  ASSUME NEW w, NEW b, NEW s1, NEW s2, NEW n1, NEW n2
  PROVE  /\ R!Numbers(R!ReportOf(w, b, s1, n1)) = R!Numbers(R!ReportOf(w, b, s2, n2))
         /\ R!ReportOf(w, b, s1, n1).window = w
<1> DEFINE all(t) == R!BuildCohorts(R!Rows(b), t)
           spans(t) == R!DetectContaminatedSpans(all(t))
           applied(t) == R!ApplyContaminatedSpans(all(t), spans(t))
           seen(t) == R!InWindow(applied(t), w)
<1>1. ASSUME NEW s, NEW t
      PROVE  R!ReportOf(w, b, s, t).cohorts = seen(t) /\ R!ReportOf(w, b, s, t).window = w
  BY DEF R!ReportOf
<1>2. TableAlike(all(n1), all(n2)) BY BuildAlike
<1> HIDE DEF all
<1>3. TableAlike(applied(n1), applied(n2)) BY <1>2, SpansAlike, AppliedAlike
<1> HIDE DEF spans, applied
<1>4. TableAlike(seen(n1), seen(n2)) BY <1>3 DEF TableAlike, CohortAlike, R!InWindow
<1> HIDE DEF seen
<1>q. QED BY <1>1, <1>4, NumbersAlike

\* The last report was made of the body it was read from.
ReportIsOf ==
  table.source.ok => \E stale, t : table = R!ReportOf(table.window, body, stale, t)

LEMMA AnswerIsOf ==
  ASSUME NEW w, NEW b, NEW stale, NEW r, r = R!Answer(w, b, stale), r.source.ok
  PROVE  \E s, t : r = R!ReportOf(r.window, b, s, t)
<1>1. CASE R!Parses(b)
  <2>1. r = R!ReportOf(w, b, stale, today) BY <1>1 DEF R!Answer
  <2>2. r.window = w BY <2>1, NumbersStand
  <2>q. QED BY <2>1, <2>2
<1>2. CASE ~R!Parses(b)
  <2>1. r.source.ok = FALSE BY <1>2 DEF R!Answer, R!EmptyReport, R!Failed
  <2>q. QED BY <2>1
<1>q. QED BY <1>1, <1>2

LEMMA ReportNextOK == ASSUME ReportIsOf, [R!Next]_(R!vars) PROVE ReportIsOf'
<1>1. CASE body' = body /\ table' = table BY <1>1 DEF ReportIsOf
<1>2. ASSUME NEW w, NEW b, NEW stale, body' = b, table' = R!Answer(w, b, stale)
      PROVE  ReportIsOf'
  BY <1>2, AnswerIsOf DEF ReportIsOf
<1>3. ASSUME NEW w, R!Fetch(w) PROVE ReportIsOf' BY <1>2, <1>3 DEF R!Fetch
<1>4. ASSUME NEW w, NEW stale, R!ServeHeld(w, stale) PROVE ReportIsOf'
  BY <1>2, <1>4 DEF R!ServeHeld
<1>5. ASSUME NEW w, NEW failure, R!Unreachable(w, failure) PROVE ReportIsOf'
  BY <1>5 DEF R!Unreachable, R!EmptyReport, R!Failed, ReportIsOf
<1>6. (\E batch \in Batches : R!Collect(batch)) => body' = body /\ table' = table
  BY DEF R!Collect
<1>7. (\E n \in {0, 2} : R!ContractMoves(n)) => body' = body /\ table' = table
  BY DEF R!ContractMoves
<1>8. R!RowUnreadable => body' = body /\ table' = table BY DEF R!RowUnreadable
<1>9. (\E d \in Clock : R!Pass(d)) => body' = body /\ table' = table BY DEF R!Pass
<1>10. UNCHANGED R!vars => body' = body /\ table' = table BY DEF R!vars
<1>q. QED BY <1>1, <1>3, <1>4, <1>5, <1>6, <1>7, <1>8, <1>9, <1>10 DEF R!Next

\* Two reports of one window made of one body hold the same numbers, whatever
\* the day they are made on and whether the source was stale: of any bodies.
\* Code: retention.service.ts report, load; retention-math.ts
THEOREM NumbersOutliveTheSource == ReadSpec => StalledSourceKeepsNumbers
<1>1. ReadInit => ReportIsOf
  BY DEF ReadInit, R!Init, R!EmptyReport, R!Failed, ReportIsOf
<1>2. ReportIsOf /\ [ReadNext]_readVars => ReportIsOf' BY OneTopic, ReportNextOK
<1> DEFINE Step ==
             /\ body' = body
             /\ table.source.ok /\ table'.source.ok
             /\ table'.window = table.window
             => R!Numbers(table') = R!Numbers(table)
<1>3. ReportIsOf /\ ReportIsOf' => Step
  <2>1. ASSUME ReportIsOf, ReportIsOf', body' = body, table.source.ok, table'.source.ok,
               table'.window = table.window
        PROVE  R!Numbers(table') = R!Numbers(table)
    <3>1. PICK s1, n1 : table = R!ReportOf(table.window, body, s1, n1) BY <2>1 DEF ReportIsOf
    <3>2. PICK s2, n2 : table' = R!ReportOf(table.window, body, s2, n2) BY <2>1 DEF ReportIsOf
    <3>q. QED BY <3>1, <3>2, NumbersStand
  <2>q. QED BY <2>1
<1>4. ReportIsOf /\ [ReadNext]_readVars => [Step]_(R!vars) BY <1>2, <1>3
<1> HIDE DEF Step
<1>q. QED
  <2>1. ReadSpec => [][Step]_(R!vars) BY <1>1, <1>2, <1>4, PTL DEF ReadSpec, readVars
  <2>q. QED BY <2>1 DEF StalledSourceKeepsNumbers, R!StalledSourceKeepsNumbers, Step

-----------------------------------------------------------------------------
(* Retention: what a body says of its players.                             *)

LEMMA RetentionNames ==
  /\ \A S : R!IsFiniteSet(S) <=> IsFiniteSet(S)
  /\ \A S : R!Max(S) = Max(S) /\ R!Min(S) = Min(S)
<1>1. \A S : R!IsFiniteSet(S) <=> IsFiniteSet(S) BY DEF R!IsFiniteSet, IsFiniteSet
<1>2. \A S : R!Max(S) = Max(S) BY DEF R!Max, Max
<1>3. \A S : R!Min(S) = Min(S) BY DEF R!Min, Min
<1>q. QED BY <1>1, <1>2, <1>3

\* A population: so many players of each kind.
IsBag(v) ==
  /\ IsFiniteSet(DOMAIN v) /\ DOMAIN v \subseteq R!Player
  /\ \A p \in DOMAIN v : v[p] \in Nat

LEMMA ManyIsTotal ==
  ASSUME NEW v, NEW S PROVE R!Many(S, v) = TotalOf(v, S)
<1>1. R!Many(S, v) = (CHOOSE f : IsFold(f, v, S))[S]
  BY DEF R!Many, R!FoldFunctionOnSet, R!MapThenFoldSet, IsFold, Picked, Remaining
<1>q. QED BY <1>1, TotalIsChosen

LEMMA ManyNat ==
  ASSUME NEW v, IsBag(v), NEW S, S \subseteq DOMAIN v
  PROVE  R!Many(S, v) \in Nat /\ (S = {} => R!Many(S, v) = 0)
<1>1. IsFiniteSet(S) BY FS_Subset DEF IsBag
<1>2. \A p \in S : v[p] \in Nat BY DEF IsBag
<1>3. TotalOf(v, S) \in Nat BY <1>1, <1>2, TotalNat
<1>4. S = {} => TotalOf(v, S) = 0 BY TotalOfNone
<1>q. QED BY <1>3, <1>4, ManyIsTotal

LEMMA RowsAreBag ==
  ASSUME R!Settings, NEW b \in R!Body PROVE IsBag(R!Rows(b))
<1>1. PICK some : some = b.batches OBVIOUS
<1>2. some \subseteq Batches BY <1>1 DEF R!Body
<1>3. IsFiniteSet(some) BY <1>2, FS_Subset, RetentionNames DEF R!Settings
<1>4. ASSUME NEW x \in some
      PROVE  /\ IsFiniteSet(DOMAIN x) /\ DOMAIN x \subseteq R!Player
             /\ \A p \in DOMAIN x : x[p] \in Nat
  BY <1>2, RetentionNames DEF R!Settings
<1>5. PICK kinds : kinds = UNION {DOMAIN x : x \in some} OBVIOUS
<1>6. IsFiniteSet(kinds)
  <2>1. PICK f : f = [x \in some |-> DOMAIN x] OBVIOUS
  <2>2. Image(f, some) = {DOMAIN x : x \in some} BY <2>1 DEF Image
  <2>3. IsFiniteSet({DOMAIN x : x \in some}) BY <1>3, <2>2, ImageIsFinite
  <2>4. \A s \in {DOMAIN x : x \in some} : IsFiniteSet(s) BY <1>4
  <2>q. QED BY <1>5, <2>3, <2>4, FS_UNION
<1>7. kinds \subseteq R!Player BY <1>4, <1>5
<1>8. DOMAIN R!Rows(b) = kinds BY <1>1, <1>5 DEF R!Rows
<1>9. ASSUME NEW p \in kinds PROVE R!Rows(b)[p] \in Nat
  <2>1. PICK X : X = {x \in some : p \in DOMAIN x} OBVIOUS
  <2>2. PICK v : v = [x \in X |-> x[p]] OBVIOUS
  <2>3. IsFiniteSet(X) BY <1>3, <2>1, FS_Subset
  <2>4. \A x \in X : v[x] = x[p] /\ v[x] \in Nat BY <1>4, <2>1, <2>2
  <2> DEFINE F(f) == f = [s \in SUBSET X |-> IF s = {} THEN 0 ELSE Picked(s)[p] + f[Remaining(s)]]
  <2>5. R!Rows(b)[p] = R!MapThenSumSet(LAMBDA x : x[p], X)
    BY <1>1, <1>5, <2>1 DEF R!Rows
  <2>6. R!MapThenSumSet(LAMBDA x : x[p], X) = (CHOOSE f : F(f))[X]
    BY DEF R!MapThenSumSet, R!MapThenFoldSet, Picked, Remaining
  <2>7. ASSUME NEW f PROVE F(f) <=> IsFold(f, v, X)
    <3>1. ASSUME NEW s \in SUBSET X, s # {} PROVE v[Picked(s)] = Picked(s)[p]
      BY <2>4, <3>1, PickIsElement
    <3>q. QED BY <3>1 DEF IsFold
  <2> HIDE DEF F
  <2>8. PICK g : IsFold(g, v, X) BY <2>3, FoldExists
  <2>9. PICK f : f = CHOOSE h : F(h) OBVIOUS
  <2>10. F(f) BY <2>7, <2>8, <2>9
  <2>11. f[X] = TotalOf(v, X) BY <2>3, <2>7, <2>10, FoldIsTotal
  <2>12. TotalOf(v, X) \in Nat BY <2>3, <2>4, TotalNat
  <2>q. QED BY <2>5, <2>6, <2>9, <2>11, <2>12
<1>q. QED BY <1>6, <1>7, <1>8, <1>9 DEF IsBag

\* The players of a month and platform, in the words of either side.
LEMMA GroupFacts ==
  ASSUME NEW v, IsBag(v), NEW m, NEW f,
         NEW members, members = R!Group(v, m, f)
  PROVE  /\ members = { p \in DOMAIN v : R!Month(p.registered) = m /\ p.platform = f }
         /\ members \subseteq DOMAIN v
         /\ \A p \in members : p.registered \in Nat /\ p.lastSeen \in Nat
<1>1. \A p \in DOMAIN v : p.registered \in Nat /\ p.lastSeen \in Nat BY DEF IsBag, R!Player
<1>q. QED BY <1>1 DEF R!Group, R!Month

LEMMA ThroughIsLast ==
  ASSUME NEW v, IsBag(v)
  PROVE  R!DataThrough(v) \in Nat /\ \A p \in DOMAIN v : p.lastSeen <= R!DataThrough(v)
<1>1. PICK seen : seen = [p \in DOMAIN v |-> p.lastSeen] OBVIOUS
<1>2. PICK S : S = Image(seen, DOMAIN v) \cup {0} OBVIOUS
<1>3. S = {p.lastSeen : p \in DOMAIN v} \cup {0} BY <1>1, <1>2 DEF Image
<1>4. IsFiniteSet(Image(seen, DOMAIN v)) BY ImageIsFinite DEF IsBag
<1>5. IsFiniteSet(S) BY <1>2, <1>4, FS_Singleton, FS_Union
<1>6. \A p \in DOMAIN v : p.lastSeen \in Nat BY DEF IsBag, R!Player
<1>7. S \subseteq Nat /\ S # {} BY <1>3, <1>6
<1>8. S \subseteq Int BY <1>7
<1>9. Max(S) \in S /\ \A y \in S : y <= Max(S) BY <1>5, <1>7, <1>8, MaxIsGreatest
<1>10. R!DataThrough(v) = Max(S) BY <1>3, RetentionNames DEF R!DataThrough
<1>q. QED BY <1>3, <1>7, <1>9, <1>10

\* A day is a stamp day if and only if it is of a pile.
LEMMA StampsArePiles ==
  ASSUME NEW v, IsBag(v), NEW d \in Nat
  PROVE  d \in {s.day : s \in R!StampDays(v)} <=> R!Pile(v, d)
<1>1. {s.day : s \in R!StampDays(v)} = UNION R!StampRuns(v)
  <2> DEFINE st(e) == [ day |-> e, n |-> R!SeenOn({e}, v), population |-> R!Population(v),
                        runTotal |-> R!Max({R!SeenOn(run, v) :
                                              run \in {run \in R!StampRuns(v) : e \in run}}) ]
  <2>1. R!StampDays(v) = {st(e) : e \in UNION R!StampRuns(v)} BY DEF R!StampDays
  <2>2. \A e : st(e).day = e OBVIOUS
  <2> HIDE DEF st
  <2>q. QED BY <2>1, <2>2
<1>2. PICK seen : seen = R!DaysSeen(v) OBVIOUS
<1>3. seen \subseteq Nat BY <1>2 DEF R!DaysSeen, IsBag, R!Player
<1> DEFINE Heavy(run) ==
             /\ R!Population(v) >= StampPopulation
             /\ 1000 * R!SeenOn(run, v) >= StampShare * R!Population(v)
<1>4. ASSUME NEW run PROVE run \in R!StampRuns(v) <=> run \in R!ShortRuns(seen) /\ Heavy(run)
  BY <1>2 DEF R!StampRuns
<1>5. R!Pile(v, d) <=>
        \E run \in {{d}, {d - 1, d}, {d, d + 1}} : run \subseteq seen /\ Heavy(run)
  BY <1>2 DEF R!Pile, R!DaysSeen, R!SeenOn
<1> HIDE DEF Heavy
<1>6. ASSUME NEW run, d \in run
      PROVE  run \in R!ShortRuns(seen) <=>
               run \in {{d}, {d - 1, d}, {d, d + 1}} /\ run \subseteq seen
  <2>1. ASSUME run \in R!ShortRuns(seen)
        PROVE  run \in {{d}, {d - 1, d}, {d, d + 1}} /\ run \subseteq seen
    <3>1. CASE run \in {{e} : e \in seen} BY <1>6, <3>1
    <3>2. CASE run \in {{e, e + 1} : e \in {e \in seen : e + 1 \in seen}}
      <4>1. PICK e \in seen : e + 1 \in seen /\ run = {e, e + 1} BY <3>2
      <4>2. e \in Nat BY <1>3
      <4>3. CASE d = e BY <4>1, <4>3
      <4>4. CASE d = e + 1
        <5>1. e = d - 1 BY <4>2, <4>4
        <5>2. run = {d - 1, d} BY <4>1, <4>4, <5>1
        <5>q. QED BY <4>1, <5>2
      <4>q. QED BY <1>6, <4>1, <4>3, <4>4
    <3>q. QED BY <2>1, <3>1, <3>2 DEF R!ShortRuns
  <2>2. ASSUME run \in {{d}, {d - 1, d}, {d, d + 1}}, run \subseteq seen
        PROVE  run \in R!ShortRuns(seen)
    <3>1. CASE run = {d} BY <2>2, <3>1 DEF R!ShortRuns
    <3>2. CASE run = {d, d + 1}
      <4>1. d \in seen /\ d + 1 \in seen BY <2>2, <3>2
      <4>q. QED BY <3>2, <4>1 DEF R!ShortRuns
    <3>3. CASE run = {d - 1, d}
      <4>1. PICK e : e = d - 1 OBVIOUS
      <4>2. e \in seen /\ e + 1 \in seen /\ d = e + 1 BY <2>2, <3>3, <4>1
      <4>3. run = {e, e + 1} BY <3>3, <4>1, <4>2
      <4>q. QED BY <4>2, <4>3 DEF R!ShortRuns
    <3>q. QED BY <2>2, <3>1, <3>2, <3>3
  <2>q. QED BY <2>1, <2>2
<1>7. \A run \in {{d}, {d - 1, d}, {d, d + 1}} : d \in run OBVIOUS
<1>8. ASSUME d \in UNION R!StampRuns(v) PROVE R!Pile(v, d)
  <2>1. PICK run \in R!StampRuns(v) : d \in run BY <1>8
  <2>2. run \in R!ShortRuns(seen) /\ Heavy(run) BY <1>4
  <2>3. run \in {{d}, {d - 1, d}, {d, d + 1}} /\ run \subseteq seen BY <1>6, <2>1, <2>2
  <2>q. QED BY <1>5, <2>2, <2>3
<1>9. ASSUME R!Pile(v, d) PROVE d \in UNION R!StampRuns(v)
  <2>1. PICK run \in {{d}, {d - 1, d}, {d, d + 1}} : run \subseteq seen /\ Heavy(run)
    BY <1>5, <1>9
  <2>2. d \in run BY <1>7
  <2>3. run \in R!StampRuns(v) BY <1>4, <1>6, <2>1, <2>2
  <2>q. QED BY <2>2, <2>3
<1>q. QED BY <1>1, <1>8, <1>9

\* The rounded percentage says what the counts say.
LEMMA PercentKeeps ==
  ASSUME NEW n \in Nat, n > 0, NEW s \in Nat
  PROVE  (2000 * s + n) \div (2 * n) >= 990 <=> 2000 * s >= 1979 * n
<1>1. PICK a : a = 2000 * s + n OBVIOUS
<1>2. a \in Nat /\ 2 * n \in Nat /\ 2 * n > 0 BY <1>1
<1>3. PICK q \in Int, r \in Int : q = a \div (2 * n) /\ r = a % (2 * n) BY <1>2
<1>4. a = (2 * n) * q + r /\ 0 <= r /\ r < 2 * n BY <1>2, <1>3
<1>5. ASSUME q >= 990 PROVE 2000 * s >= 1979 * n
  <2>1. (2 * n) * q >= (2 * n) * 990 BY <1>5
  <2>2. (2 * n) * 990 = 1980 * n OBVIOUS
  <2>q. QED BY <1>1, <1>4, <2>1, <2>2
<1>6. ASSUME q < 990 PROVE 2000 * s < 1979 * n
  <2>1. q + 1 <= 990 BY <1>6
  <2>2. (2 * n) * (q + 1) <= (2 * n) * 990 BY <2>1
  <2>3. (2 * n) * 990 = 1980 * n /\ (2 * n) * (q + 1) = (2 * n) * q + 2 * n OBVIOUS
  <2>q. QED BY <1>1, <1>4, <2>2, <2>3
<1>7. q >= 990 <=> 2000 * s >= 1979 * n BY <1>5, <1>6
<1>q. QED BY <1>1, <1>3, <1>7

\* Whether a cohort is suspect.
LEMMA SuspectIsStamped ==
  ASSUME NEW v, IsBag(v), NEW m, NEW f, NEW stampDays, stampDays = {s.day : s \in R!StampDays(v)}
  PROVE  R!ContaminationOf(R!Group(v, m, f), v, stampDays).suspect = R!Stamped(v, m, f)
<1>1. PICK members : members = R!Group(v, m, f) OBVIOUS
<1>2. members \subseteq DOMAIN v /\ \A p \in members : p.lastSeen \in Nat BY <1>1, GroupFacts
<1>3. \A p \in members : p.lastSeen \in stampDays <=> R!Pile(v, p.lastSeen)
  BY <1>2, StampsArePiles
<1>4. {p \in members : p.lastSeen \in stampDays} = {p \in members : R!Pile(v, p.lastSeen)}
  BY <1>3
<1>5. PICK n : n = R!Many({p \in members : R!Pile(v, p.lastSeen)}, v) OBVIOUS
<1>6. R!Stamped(v, m, f) = (n > 0 /\ 1000 * n >= ContaminationMax * R!Many(members, v))
  BY <1>1, <1>5 DEF R!Stamped, R!Size
<1>7. R!ContaminationOf(members, v, stampDays).suspect
        = (n > 0 /\ 1000 * n >= ContaminationMax * R!Many(members, v))
  <2> DEFINE k == R!Many({p \in members : p.lastSeen \in stampDays}, v)
             s == k > 0 /\ 1000 * k >= ContaminationMax * R!Many(members, v)
  <2>1. R!ContaminationOf(members, v, stampDays) = [n |-> k, suspect |-> s]
    BY DEF R!ContaminationOf
  <2>2. k = n BY <1>4, <1>5
  <2> HIDE DEF k
  <2>3. s = (n > 0 /\ 1000 * n >= ContaminationMax * R!Many(members, v)) BY <2>2
  <2> HIDE DEF s
  <2>4. R!ContaminationOf(members, v, stampDays).suspect = s BY <2>1
  <2>q. QED BY <2>3, <2>4
<1>q. QED BY <1>1, <1>6, <1>7

\* What a horizon says before its neighbours are looked at.
LEMMA RawMeasure ==
  ASSUME NEW v, IsBag(v), NEW m, NEW f, NEW h \in R!Horizons, NEW t,
         NEW suspect \in BOOLEAN,
         NEW raw, raw = R!MeasureOf(R!Group(v, m, f), v, h, R!DataThrough(v), t, suspect)
  PROVE  /\ R!Base(v, m, f, h) \in Nat /\ R!Kept(v, m, f, h) \in Nat
         /\ raw.n = R!Base(v, m, f, h)
         /\ raw.reason \in {"import_artifact", "source_stale", "immature_horizon", "measured"}
         /\ R!Measured(raw) <=> ~suspect /\ R!Base(v, m, f, h) > 0
         /\ R!Measured(raw) => raw.survived = R!Kept(v, m, f, h)
<1>1. PICK members : members = R!Group(v, m, f) OBVIOUS
<1>2. members \subseteq DOMAIN v /\ \A p \in members : p.registered \in Nat /\ p.lastSeen \in Nat
  BY <1>1, GroupFacts
<1>3. PICK through : through = R!DataThrough(v) OBVIOUS
<1>4. through \in Nat /\ \A p \in members : p.lastSeen <= through
  BY <1>2, <1>3, ThroughIsLast
<1>5. h \in Nat BY DEF R!Horizons
<1>6. PICK eligible : eligible = {p \in members : p.registered + h <= through} OBVIOUS
<1>7. \A p \in members : through - p.registered >= h <=> p.registered + h <= through
  BY <1>2, <1>4, <1>5
<1>8. eligible = {p \in members : through - p.registered >= h} BY <1>6, <1>7
<1>9. PICK kept : kept = {p \in members : p.registered + h <= p.lastSeen} OBVIOUS
<1>10. \A p \in members :
         p \in eligible /\ p.lastSeen - p.registered >= h <=> p.registered + h <= p.lastSeen
  BY <1>2, <1>4, <1>5, <1>6
<1>11. kept = {p \in eligible : p.lastSeen - p.registered >= h} BY <1>6, <1>9, <1>10
<1>12. eligible \subseteq DOMAIN v /\ kept \subseteq DOMAIN v BY <1>2, <1>6, <1>9
<1>13. PICK n : n = R!Many(eligible, v) OBVIOUS
<1>14. PICK k : k = R!Many(kept, v) OBVIOUS
<1>15. n \in Nat /\ k \in Nat BY <1>12, <1>13, <1>14, ManyNat
<1>16. R!Base(v, m, f, h) = n BY <1>1, <1>3, <1>6, <1>13 DEF R!Base
<1>17. R!Kept(v, m, f, h) = k BY <1>1, <1>9, <1>14 DEF R!Kept
<1>18. \/ suspect = TRUE /\ raw = [reason |-> "import_artifact", n |-> n]
       \/ ~suspect /\ n = 0 /\ Waits(raw)
       \/ ~suspect /\ n # 0 /\ raw = [ reason |-> "measured", n |-> n, survived |-> k,
                                       belowMinimum |-> n < MinCohort ]
  BY <1>1, <1>3, <1>8, <1>11, <1>13, <1>14 DEF R!MeasureOf, R!Reached, Waits
<1>19. CASE suspect = TRUE /\ raw = [reason |-> "import_artifact", n |-> n]
  <2>1. raw.n = n /\ raw.reason = "import_artifact" BY <1>19
  <2>2. ~R!Measured(raw) BY <2>1 DEF R!Measured
  <2>3. suspect BY <1>19
  <2>4. raw.n = R!Base(v, m, f, h) BY <1>16, <2>1
  <2>q. QED BY <1>15, <1>16, <1>17, <2>1, <2>2, <2>3, <2>4
<1>20. CASE ~suspect /\ n = 0 /\ Waits(raw)
  BY <1>15, <1>16, <1>17, <1>20 DEF R!Measured, Waits
<1>21. CASE ~suspect /\ n # 0 /\ raw = [ reason |-> "measured", n |-> n, survived |-> k,
                                         belowMinimum |-> n < MinCohort ]
  BY <1>15, <1>16, <1>17, <1>21 DEF R!Measured
<1>q. QED BY <1>18, <1>19, <1>20, <1>21

\* A cohort as the detectors see it.
CohortSays(v, m, f, c) ==
  /\ {"month", "platform", "measures"} \subseteq DOMAIN c
  /\ c.month = m /\ c.platform = f /\ c.size = R!Size(v, m, f)
  /\ DOMAIN c.measures = R!Horizons
  /\ \A h \in R!Horizons :
       LET base == R!Base(v, m, f, h)
       IN  /\ c.measures[h].n = base /\ base \in Nat
           /\ R!Measured(c.measures[h]) <=>
                /\ ~R!Stamped(v, m, f) /\ base > 0
                /\ ~(R!Size(v, m, f) >= 20 /\ R!KeptEverybody(v, m, f))
           /\ R!Measured(c.measures[h]) => c.measures[h].survived = R!Kept(v, m, f, h)
  /\ R!JudgedImplausible(c) <=> R!Weighed(v, m, f) /\ R!KeptEverybody(v, m, f)
  /\ R!Judgeable(c) <=> R!Weighed(v, m, f)
  /\ R!ReadsImplausible(c.measures) <=>
       ~R!Stamped(v, m, f) /\ R!KeptEverybody(v, m, f) /\ R!Size(v, m, f) < 20

LEMMA CohortFacts ==
  ASSUME NEW v, IsBag(v), NEW m, NEW f, NEW t,
         NEW stampDays, stampDays = {s.day : s \in R!StampDays(v)}
  PROVE  CohortSays(v, m, f, R!CohortOf(m, f, v, stampDays, t))
<1>1. PICK members : members = R!Group(v, m, f) OBVIOUS
<1>2. members = { p \in DOMAIN v : R!Month(p.registered) = m /\ p.platform = f }
      /\ members \subseteq DOMAIN v
  BY <1>1, GroupFacts
<1>3. PICK size : size = R!Many(members, v) OBVIOUS
<1>4. size \in Nat /\ size = R!Size(v, m, f) BY <1>1, <1>2, <1>3, ManyNat DEF R!Size
<1>5. PICK tainted : tainted = R!ContaminationOf(members, v, stampDays) OBVIOUS
<1>6. tainted.suspect = R!Stamped(v, m, f) BY <1>1, <1>5, SuspectIsStamped
<1>7. PICK raw : raw = [h \in R!Horizons |->
                  R!MeasureOf(members, v, h, R!DataThrough(v), t, tainted.suspect)]
  OBVIOUS
<1>8. PICK c : c = R!CohortOf(m, f, v, stampDays, t) OBVIOUS
<1>9. /\ {"month", "platform", "measures"} \subseteq DOMAIN c
      /\ c.month = m /\ c.platform = f /\ c.size = size
      /\ c.measures = R!SuppressImplausible(raw, size)
  BY <1>2, <1>3, <1>5, <1>7, <1>8 DEF R!CohortOf
<1>10. PICK st : st = R!Stamped(v, m, f) OBVIOUS
<1>11. st \in BOOLEAN BY <1>10 DEF R!Stamped
<1>12. PICK ke : ke = R!KeptEverybody(v, m, f) OBVIOUS
<1>13. ke \in BOOLEAN BY <1>12 DEF R!KeptEverybody
<1>14. PICK base : base = [h \in R!Horizons |-> R!Base(v, m, f, h)] OBVIOUS
<1>15. ASSUME NEW h \in R!Horizons
       PROVE  /\ base[h] = R!Base(v, m, f, h) /\ base[h] \in Nat /\ R!Kept(v, m, f, h) \in Nat
              /\ raw[h].n = base[h]
              /\ raw[h].reason # "implausible_survival"
              /\ R!Measured(raw[h]) <=> ~st /\ base[h] > 0
              /\ R!Measured(raw[h]) => raw[h].survived = R!Kept(v, m, f, h)
  <2>1. raw[h] = R!MeasureOf(R!Group(v, m, f), v, h, R!DataThrough(v), t, tainted.suspect)
    BY <1>1, <1>7
  <2>2. base[h] = R!Base(v, m, f, h) BY <1>14
  <2>3. tainted.suspect = st /\ tainted.suspect \in BOOLEAN BY <1>6, <1>10, <1>11
  <2>4. /\ R!Base(v, m, f, h) \in Nat /\ R!Kept(v, m, f, h) \in Nat
        /\ raw[h].n = R!Base(v, m, f, h)
        /\ raw[h].reason \in {"import_artifact", "source_stale", "immature_horizon", "measured"}
        /\ R!Measured(raw[h]) <=> ~tainted.suspect /\ R!Base(v, m, f, h) > 0
        /\ R!Measured(raw[h]) => raw[h].survived = R!Kept(v, m, f, h)
    BY <2>1, <2>3, RawMeasure
  <2>5. raw[h].reason # "implausible_survival" BY <2>4
  <2>6. R!Measured(raw[h]) <=> ~st /\ base[h] > 0 BY <2>2, <2>3, <2>4
  <2>q. QED BY <2>2, <2>4, <2>5, <2>6
<1>16. ASSUME NEW h \in R!Horizons, R!Measured(raw[h])
       PROVE  R!Percent(raw[h]) >= R!ImplausibleSurvival <=>
                2000 * R!Kept(v, m, f, h) >= 1979 * base[h]
  <2>1. PICK k \in Nat : k = R!Kept(v, m, f, h) BY <1>15
  <2>2. PICK n \in Nat : n = base[h] /\ n > 0 BY <1>15, <1>16
  <2>3. raw[h].n = n /\ raw[h].survived = k BY <1>15, <1>16, <2>1, <2>2
  <2>4. R!Percent(raw[h]) = (2000 * k + n) \div (2 * n) BY <2>3 DEF R!Percent
  <2>q. QED BY <2>1, <2>2, <2>4, PercentKeeps DEF R!ImplausibleSurvival
<1>17. ke <=> \A h \in R!Horizons : base[h] > 0 /\ 2000 * R!Kept(v, m, f, h) >= 1979 * base[h]
  BY <1>12, <1>14 DEF R!KeptEverybody
<1>18. R!ReadsImplausible(raw) <=> ~st /\ ke
  <2>1. \E h : h \in R!Horizons BY DEF R!Horizons
  <2>q. QED BY <1>15, <1>16, <1>17, <2>1 DEF R!ReadsImplausible
<1>19. R!Weighed(v, m, f) <=> size >= 20 /\ ~st /\ \A h \in R!Horizons : base[h] > 0
  BY <1>4, <1>10, <1>14 DEF R!Weighed
<1>20. ke => \A h \in R!Horizons : base[h] > 0 BY <1>17
<1>21. PICK h0 : h0 \in R!Horizons BY DEF R!Horizons
<1>22. R!ImplausibleMinCohort = 20 BY DEF R!ImplausibleMinCohort
<1>23. CASE size >= 20 /\ ~st /\ ke
  <2>1. c.measures = [h \in R!Horizons |-> R!Blank(raw[h], "implausible_survival")]
    BY <1>9, <1>18, <1>22, <1>23 DEF R!SuppressImplausible
  <2>2. DOMAIN c.measures = R!Horizons BY <2>1
  <2>3. ASSUME NEW h \in R!Horizons
        PROVE  /\ c.measures[h].n = base[h] /\ c.measures[h].reason = "implausible_survival"
               /\ ~R!Measured(c.measures[h])
    <3>1. c.measures[h] = [reason |-> "implausible_survival", n |-> raw[h].n]
      BY <2>1 DEF R!Blank
    <3>2. c.measures[h].n = raw[h].n /\ c.measures[h].reason = "implausible_survival" BY <3>1
    <3>q. QED BY <1>15, <3>2 DEF R!Measured
  <2>4. R!JudgedImplausible(c) BY <1>21, <2>3 DEF R!JudgedImplausible
  <2>5. R!Judgeable(c) BY <2>4 DEF R!Judgeable
  <2>6. ~R!ReadsImplausible(c.measures) BY <1>21, <2>3 DEF R!ReadsImplausible
  <2>7. R!Weighed(v, m, f) BY <1>19, <1>20, <1>23
  <2>8. ~(size < 20) BY <1>4, <1>23
  <2>q. QED BY <1>4, <1>8, <1>9, <1>10, <1>12, <1>15, <1>23, <2>2, <2>3, <2>4, <2>5, <2>6, <2>7, <2>8
        DEF CohortSays
<1>24. CASE ~(size >= 20 /\ ~st /\ ke)
  <2>1. c.measures = raw BY <1>9, <1>18, <1>22, <1>24 DEF R!SuppressImplausible
  <2>2. ~R!JudgedImplausible(c) BY <1>15, <2>1 DEF R!JudgedImplausible
  <2>3. R!Judgeable(c) <=> R!Weighed(v, m, f)
    BY <1>9, <1>15, <1>19, <1>21, <1>22, <2>1, <2>2 DEF R!Judgeable
  <2>4. ~(R!Weighed(v, m, f) /\ ke) BY <1>19, <1>24
  <2>5. R!ReadsImplausible(c.measures) <=> ~st /\ ke /\ size < 20
    BY <1>4, <1>18, <1>24, <2>1
  <2>6. ASSUME NEW h \in R!Horizons
        PROVE  /\ c.measures[h].n = base[h] /\ base[h] \in Nat /\ base[h] = R!Base(v, m, f, h)
               /\ R!Measured(c.measures[h]) <=> ~st /\ base[h] > 0 /\ ~(size >= 20 /\ ke)
               /\ R!Measured(c.measures[h]) => c.measures[h].survived = R!Kept(v, m, f, h)
    BY <1>15, <1>24, <2>1
  <2>7. DOMAIN c.measures = R!Horizons BY <1>7, <2>1
  <2>q. QED BY <1>4, <1>8, <1>9, <1>10, <1>12, <2>2, <2>3, <2>4, <2>5, <2>6, <2>7 DEF CohortSays
<1>q. QED BY <1>23, <1>24

-----------------------------------------------------------------------------
(* The spans: what lies between two proven months.                         *)

\* Two members of C with nothing of C between them, around k.
LEMMA Neighbours ==
  ASSUME NEW C \in SUBSET Nat, IsFiniteSet(C), NEW s \in C, NEW q \in C,
         NEW k \in Nat, k \notin C, s <= k, k <= q
  PROVE  \E a, b \in C : /\ s <= a /\ a < k /\ k < b /\ b <= q
                         /\ a = R!Previous(C, b)
<1>1. s < k /\ k < q
  <2>1. s # k /\ k # q /\ s \in Nat /\ q \in Nat OBVIOUS
  <2>q. QED BY <2>1
<1>2. PICK A : A = {x \in C : k < x} OBVIOUS
<1>3. A \in SUBSET Nat /\ A # {} BY <1>1, <1>2
<1>4. PICK b \in A : \A x \in A : b <= x BY <1>3, Least
<1>5. b \in C /\ b \in Nat /\ k < b /\ b <= q BY <1>1, <1>2, <1>4
<1>6. PICK B : B = {x \in C : x < b} OBVIOUS
<1>7. B \subseteq C /\ B \subseteq Int /\ s \in B
  <2>1. C \subseteq Int /\ s \in Nat OBVIOUS
  <2>2. B \subseteq C BY <1>6
  <2>3. s < b BY <1>1, <1>5, <2>1
  <2>q. QED BY <1>6, <2>1, <2>2, <2>3
<1>8. IsFiniteSet(B) BY <1>7, FS_Subset
<1>9. PICK a : a = Max(B) OBVIOUS
<1>10. a \in B /\ \A y \in B : y <= a BY <1>7, <1>8, <1>9, MaxIsGreatest
<1>11. a \in C /\ a \in Nat /\ a < b /\ s <= a BY <1>6, <1>7, <1>10
<1>12. a < k
  <2>1. a # k BY <1>11
  <2>2. ASSUME k < a PROVE FALSE
    <3>1. a \in A BY <1>2, <1>11, <2>2
    <3>2. b <= a BY <1>4, <3>1
    <3>q. QED BY <1>5, <1>11, <3>2
  <2>q. QED BY <1>11, <2>1, <2>2
<1>13. R!Previous(C, b) = a BY <1>6, <1>9, RetentionNames DEF R!Previous
<1>q. QED BY <1>5, <1>11, <1>12, <1>13

\* The month before a start, among the proven ones.
LEMMA PreviousIsBelow ==
  ASSUME NEW C \in SUBSET Nat, IsFiniteSet(C), NEW p \in C, NEW t \in C, p < t,
         NEW a, a = R!Previous(C, t)
  PROVE  a \in C /\ p <= a /\ a < t /\ \A x \in C : ~(a < x /\ x < t)
<1>1. PICK B : B = {x \in C : x < t} OBVIOUS
<1>2. B \subseteq C /\ B \subseteq Int /\ p \in B
  <2>1. C \subseteq Int OBVIOUS
  <2>2. B \subseteq C /\ p \in B BY <1>1
  <2>q. QED BY <2>1, <2>2
<1>3. IsFiniteSet(B) BY <1>2, FS_Subset
<1>4. Max(B) \in B /\ \A y \in B : y <= Max(B) BY <1>2, <1>3, MaxIsGreatest
<1>5. a = Max(B) BY <1>1, RetentionNames DEF R!Previous
<1>6. a \in C /\ a < t /\ p <= a BY <1>1, <1>2, <1>4, <1>5
<1>7. ASSUME NEW x \in C, a < x, x < t PROVE FALSE
  <2>1. x \in B BY <1>1, <1>7
  <2>2. x <= a BY <1>4, <1>5, <2>1
  <2>3. x \in Nat /\ a \in Nat BY <1>6
  <2>q. QED BY <1>7, <2>2, <2>3
<1>q. QED BY <1>6, <1>7

\* The proven months of the run that begins with start.
RunOf(all, start) ==
  {q \in R!Confirmed(all) : start <= q /\ \A t \in R!Starts(all) : start < t => q < t}

InSpan(all, m) == \E s \in R!Starts(all) : s <= m /\ m <= Max(RunOf(all, s))

\* Between two members of C, or at one, with nothing of D between them and
\* never more than six months without C.
Joined(C, D, m) ==
  \E p, q \in C :
    /\ p <= m /\ m <= q
    /\ \A k \in D : ~(p <= k /\ k <= q)
    /\ \A k \in p..(q - 6) : \E j \in k..(k + 6) : j \in C

LEMMA SpanIsJoined ==
  ASSUME NEW all, R!Confirmed(all) \in SUBSET Nat, IsFiniteSet(R!Confirmed(all)),
         R!Clean(all) \in SUBSET Nat, NEW m \in Nat, InSpan(all, m)
  PROVE  Joined(R!Confirmed(all), R!Clean(all), m)
<1>1. PICK C : C = R!Confirmed(all) OBVIOUS
<1>2. PICK D : D = R!Clean(all) OBVIOUS
<1>3. C \in SUBSET Nat /\ IsFiniteSet(C) /\ D \in SUBSET Nat /\ D \cap C = {}
  BY <1>1, <1>2 DEF R!Clean
<1>4. PICK s \in R!Starts(all) : s <= m /\ m <= Max(RunOf(all, s)) BY DEF InSpan
<1>5. s \in C /\ s \in Nat BY <1>1, <1>3, <1>4 DEF R!Starts
<1>6. PICK run : run = RunOf(all, s) OBVIOUS
<1>7. run \subseteq C /\ run \subseteq Int BY <1>1, <1>3, <1>6 DEF RunOf
<1>8. s \in run BY <1>1, <1>5, <1>6 DEF RunOf
<1>9. IsFiniteSet(run) BY <1>3, <1>7, FS_Subset
<1>10. PICK q : q = Max(run) OBVIOUS
<1>11. q \in run BY <1>7, <1>8, <1>9, <1>10, MaxIsGreatest
<1>12. q \in C /\ q \in Nat /\ s <= q /\ \A t \in R!Starts(all) : s < t => q < t
  BY <1>3, <1>6, <1>7, <1>11 DEF RunOf
<1>13. m <= q BY <1>4, <1>6, <1>10
\* A wall between two neighbours would begin another run before q.
<1>14. ASSUME NEW k \in Nat, k \notin C, s <= k, k <= q,
              NEW a \in C, NEW b \in C, s <= a, a < k, k < b, b <= q,
              a = R!Previous(C, b)
       PROVE  ~R!Walled(all, a, b)
  <2>1. ASSUME R!Walled(all, a, b) PROVE FALSE
    <3>1. b \in R!Starts(all) BY <1>1, <1>14, <2>1 DEF R!Starts
    <3>2. b \in Nat BY <1>3
    <3>3. s < b BY <1>5, <1>14, <3>2
    <3>4. q < b BY <1>12, <3>1, <3>3
    <3>q. QED BY <1>12, <1>14, <3>2, <3>4
  <2>q. QED BY <2>1
<1>15. ASSUME NEW k \in D PROVE ~(s <= k /\ k <= q)
  <2>1. ASSUME s <= k, k <= q PROVE FALSE
    <3>1. k \in Nat /\ k \notin C BY <1>3
    <3>2. PICK a, b \in C : s <= a /\ a < k /\ k < b /\ b <= q /\ a = R!Previous(C, b)
      BY <1>3, <1>5, <1>12, <2>1, <3>1, Neighbours
    <3>3. ~R!Walled(all, a, b) BY <1>14, <2>1, <3>1, <3>2
    <3>q. QED BY <1>2, <3>2, <3>3 DEF R!Walled
  <2>q. QED BY <2>1
<1>16. ASSUME NEW k \in s..(q - 6) PROVE \E j \in k..(k + 6) : j \in C
  <2>1. k \in Nat /\ s <= k /\ k + 6 <= q BY <1>5, <1>12
  <2>2. ASSUME \A j \in k..(k + 6) : j \notin C PROVE FALSE
    <3>1. k \in k..(k + 6) BY <2>1
    <3>2. k \notin C BY <2>2, <3>1
    <3>3. k <= q BY <1>12, <2>1
    <3>4. PICK a, b \in C : s <= a /\ a < k /\ k < b /\ b <= q /\ a = R!Previous(C, b)
      BY <1>3, <1>5, <1>12, <2>1, <3>2, <3>3, Neighbours
    <3>5. ~R!Walled(all, a, b) BY <1>14, <2>1, <3>2, <3>3, <3>4
    <3>6. a \in Nat /\ b \in Nat BY <1>3
    <3>7. b \notin k..(k + 6) BY <2>2
    <3>8. b > k + 6 BY <2>1, <3>4, <3>6, <3>7
    <3>9. b - a - 1 > 6 BY <2>1, <3>4, <3>6, <3>8
    <3>q. QED BY <3>5, <3>9 DEF R!Walled, R!MaxSpanGapMonths
  <2>q. QED BY <2>2
<1>17. Joined(C, D, m) BY <1>4, <1>5, <1>12, <1>13, <1>15, <1>16 DEF Joined
<1>q. QED BY <1>1, <1>2, <1>17

LEMMA JoinedIsSpan ==
  ASSUME NEW all, R!Confirmed(all) \in SUBSET Nat, IsFiniteSet(R!Confirmed(all)),
         R!Clean(all) \in SUBSET Nat, NEW m \in Nat, Joined(R!Confirmed(all), R!Clean(all), m)
  PROVE  InSpan(all, m)
<1>1. PICK C : C = R!Confirmed(all) OBVIOUS
<1>2. PICK D : D = R!Clean(all) OBVIOUS
<1>3. C \in SUBSET Nat /\ IsFiniteSet(C) /\ D \in SUBSET Nat BY <1>1, <1>2
<1>4. PICK p, q \in C :
        /\ p <= m /\ m <= q
        /\ \A k \in D : ~(p <= k /\ k <= q)
        /\ \A k \in p..(q - 6) : \E j \in k..(k + 6) : j \in C
  BY <1>1, <1>2 DEF Joined
<1>5. p \in Nat /\ q \in Nat /\ p <= q BY <1>3, <1>4
<1>6. PICK S : S = {t \in R!Starts(all) : t <= p} OBVIOUS
<1>7. R!Starts(all) \subseteq C BY <1>1 DEF R!Starts
<1>8. S \subseteq C /\ S \subseteq Int
  <2>1. C \subseteq Int BY <1>3
  <2>2. S \subseteq C BY <1>6, <1>7
  <2>q. QED BY <2>1, <2>2
<1>9. IsFiniteSet(S) BY <1>3, <1>8, FS_Subset
<1>10. S # {}
  <2>1. C # {} /\ C \subseteq Int BY <1>3, <1>4
  <2>2. Min(C) \in C /\ Min(C) <= p BY <1>3, <2>1, MinIsLeast
  <2>3. Min(C) \in R!Starts(all) BY <1>1, <2>2, RetentionNames DEF R!Starts
  <2>q. QED BY <1>6, <2>2, <2>3
<1>11. PICK s : s = Max(S) OBVIOUS
<1>12. s \in S /\ \A t \in S : t <= s BY <1>8, <1>9, <1>10, <1>11, MaxIsGreatest
<1>13. s \in R!Starts(all) /\ s \in Nat /\ s <= p BY <1>3, <1>6, <1>8, <1>12
<1>14. ASSUME NEW t \in R!Starts(all), s < t, t <= q PROVE FALSE
  <2>1. t \in C /\ t \in Nat BY <1>3, <1>7
  <2>2. p < t
    <3>1. t \notin S
      <4>1. ASSUME t \in S PROVE FALSE
        <5>1. t <= s BY <1>12, <4>1
        <5>q. QED BY <1>13, <1>14, <2>1, <5>1
      <4>q. QED BY <4>1
    <3>2. ~(t <= p) BY <1>6, <3>1
    <3>q. QED BY <1>5, <2>1, <3>2
  <2>3. PICK a : a = R!Previous(C, t) OBVIOUS
  <2>4. a \in C /\ p <= a /\ a < t /\ \A x \in C : ~(a < x /\ x < t)
    BY <1>3, <2>1, <2>2, <2>3, PreviousIsBelow
  <2>5. a \in Nat BY <1>3, <2>4
  <2>6. R!Walled(all, a, t)
    <3>1. t # R!Min(C)
      <4>1. C # {} /\ C \subseteq Int BY <1>3, <1>4
      <4>2. Min(C) <= p /\ Min(C) \in C BY <1>3, <4>1, MinIsLeast
      <4>3. Min(C) \in Nat BY <1>3, <4>2
      <4>4. Min(C) # t BY <1>5, <2>1, <2>2, <4>2, <4>3
      <4>q. QED BY <4>4, RetentionNames
    <3>q. QED BY <1>1, <2>3, <3>1 DEF R!Starts
  <2>7. CASE t - a - 1 > 6
    <3>1. a + 1 \in p..(q - 6) BY <1>5, <1>14, <2>1, <2>4, <2>5, <2>7
    <3>2. PICK j \in (a + 1)..((a + 1) + 6) : j \in C BY <1>4, <3>1
    <3>3. a < j /\ j < t BY <2>1, <2>5, <2>7, <3>2
    <3>q. QED BY <2>4, <3>2, <3>3
  <2>8. CASE \E k \in D : a < k /\ k < t
    <3>1. PICK k \in D : a < k /\ k < t BY <2>8
    <3>2. k \in Nat BY <1>3
    <3>3. p <= k /\ k <= q BY <1>5, <3>2, <1>14, <2>1, <2>4, <2>5, <3>1
    <3>q. QED BY <1>4, <3>1, <3>3
  <2>q. QED BY <1>2, <2>6, <2>7, <2>8 DEF R!Walled, R!MaxSpanGapMonths
<1>15. PICK run : run = RunOf(all, s) OBVIOUS
<1>16. q \in run
  <2>1. s <= q BY <1>5, <1>13
  <2>2. \A t \in R!Starts(all) : s < t => q < t
    <3>1. \A t \in R!Starts(all) : t \in Nat BY <1>3, <1>7
    <3>q. QED BY <1>5, <1>14, <3>1
  <2>q. QED BY <1>1, <1>4, <1>15, <2>1, <2>2 DEF RunOf
<1>17. run \subseteq C /\ run \subseteq Int BY <1>1, <1>3, <1>15 DEF RunOf
<1>18. IsFiniteSet(run) BY <1>3, <1>17, FS_Subset
<1>19. Max(run) \in run /\ q <= Max(run) BY <1>16, <1>17, <1>18, MaxIsGreatest
<1>20. Max(run) \in Nat BY <1>3, <1>17, <1>19
<1>21. s <= m /\ m <= Max(run) BY <1>4, <1>5, <1>13, <1>19, <1>20
<1>q. QED BY <1>13, <1>15, <1>21 DEF InSpan

\* The groups of a body: who registered when, on what platform.
GroupsOf(v) == {<<R!Month(p.registered), p.platform>> : p \in DOMAIN v}

MonthsSeen(v) == {R!Month(p.registered) : p \in DOMAIN v}

LEMMA GroupsAreTyped ==
  ASSUME R!Settings, NEW v, IsBag(v)
  PROVE  /\ MonthsSeen(v) \in SUBSET Nat /\ IsFiniteSet(MonthsSeen(v))
         /\ \A g \in GroupsOf(v) : g[1] \in MonthsSeen(v) /\ g[2] \in Platforms
<1>1. \A p \in DOMAIN v : p.registered \in Nat /\ p.platform \in Platforms BY DEF IsBag, R!Player
<1>2. DaysPerMonth \in Nat /\ DaysPerMonth > 0 BY DEF R!Settings
<1>3. \A p \in DOMAIN v : R!Month(p.registered) \in Nat
  <2>1. ASSUME NEW d \in Nat PROVE d \div DaysPerMonth \in Nat
    <3>1. PICK q \in Int, r \in Int : q = d \div DaysPerMonth /\ r = d % DaysPerMonth BY <1>2
    <3>2. d = DaysPerMonth * q + r /\ 0 <= r /\ r < DaysPerMonth BY <1>2, <3>1
    <3>3. ASSUME q < 0 PROVE FALSE
      <4>1. q + 1 <= 0 BY <3>3
      <4>2. DaysPerMonth * (q + 1) <= 0 BY <1>2, <4>1
      <4>3. DaysPerMonth * (q + 1) = DaysPerMonth * q + DaysPerMonth BY <1>2
      <4>q. QED BY <1>2, <3>2, <4>2, <4>3
    <3>q. QED BY <3>1, <3>3
  <2>q. QED BY <1>1, <2>1 DEF R!Month
<1>4. PICK f : f = [p \in DOMAIN v |-> R!Month(p.registered)] OBVIOUS
<1>5. Image(f, DOMAIN v) = MonthsSeen(v) BY <1>4 DEF Image, MonthsSeen
<1>6. IsFiniteSet(MonthsSeen(v)) BY <1>5, ImageIsFinite DEF IsBag
<1>7. MonthsSeen(v) \in SUBSET Nat BY <1>3 DEF MonthsSeen
<1>8. \A g \in GroupsOf(v) : g[1] \in MonthsSeen(v) /\ g[2] \in Platforms
  BY <1>1 DEF GroupsOf, MonthsSeen
<1>q. QED BY <1>6, <1>7, <1>8

\* Whoever is weighed is there.
LEMMA WeighedIsThere ==
  ASSUME NEW v, IsBag(v), NEW m, NEW f, R!Weighed(v, m, f)
  PROVE  <<m, f>> \in GroupsOf(v)
<1>1. PICK members : members = R!Group(v, m, f) OBVIOUS
<1>2. members = { p \in DOMAIN v : R!Month(p.registered) = m /\ p.platform = f }
      /\ members \subseteq DOMAIN v
  BY <1>1, GroupFacts
<1>3. R!Many(members, v) >= 20 BY <1>1 DEF R!Weighed, R!Size
<1>4. members # {}
  <2>1. members = {} => R!Many(members, v) = 0 BY <1>2, ManyNat
  <2>q. QED BY <1>3, <2>1
<1>5. PICK p \in members : TRUE BY <1>4
<1>q. QED BY <1>2, <1>5 DEF GroupsOf

LEMMA CohortsOfGroups ==
  ASSUME NEW v, IsBag(v), NEW t, NEW all, all = R!BuildCohorts(v, t)
  PROVE  /\ \A c \in all : \E g \in GroupsOf(v) : CohortSays(v, g[1], g[2], c)
         /\ \A g \in GroupsOf(v) : \E c \in all : CohortSays(v, g[1], g[2], c)
<1>1. PICK stampDays : stampDays = {s.day : s \in R!StampDays(v)} OBVIOUS
<1>2. all = {R!CohortOf(g[1], g[2], v, stampDays, t) : g \in GroupsOf(v)}
  BY <1>1 DEF R!BuildCohorts, GroupsOf
<1>3. \A g \in GroupsOf(v) : CohortSays(v, g[1], g[2], R!CohortOf(g[1], g[2], v, stampDays, t))
  BY <1>1, CohortFacts
<1>q. QED BY <1>2, <1>3

\* The months the detector confirms and clears are those proven and sound.
LEMMA MonthsAreJudged ==
  ASSUME R!Settings, NEW v, IsBag(v), NEW t, NEW all, all = R!BuildCohorts(v, t)
  PROVE  /\ R!Confirmed(all) = {q \in MonthsSeen(v) : R!Proven(v, q)}
         /\ R!Clean(all) = {q \in MonthsSeen(v) : R!Sound(v, q)}
<1>1. \A g \in GroupsOf(v) : g[1] \in MonthsSeen(v) /\ g[2] \in Platforms BY GroupsAreTyped
<1>2. ASSUME NEW q
      PROVE  q \in R!MonthsOf({c \in all : R!JudgedImplausible(c)}) <=>
               q \in MonthsSeen(v) /\ R!Proven(v, q)
  <2>1. ASSUME q \in R!MonthsOf({c \in all : R!JudgedImplausible(c)})
        PROVE  q \in MonthsSeen(v) /\ R!Proven(v, q)
    <3>1. PICK c \in all : R!JudgedImplausible(c) /\ c.month = q BY <2>1 DEF R!MonthsOf
    <3>2. PICK g \in GroupsOf(v) : CohortSays(v, g[1], g[2], c) BY CohortsOfGroups
    <3>3. g[1] = q /\ R!Weighed(v, q, g[2]) /\ R!KeptEverybody(v, q, g[2])
      BY <3>1, <3>2 DEF CohortSays
    <3>q. QED BY <1>1, <3>3 DEF R!Proven
  <2>2. ASSUME R!Proven(v, q) PROVE q \in R!MonthsOf({c \in all : R!JudgedImplausible(c)})
    <3>1. PICK f \in Platforms : R!Weighed(v, q, f) /\ R!KeptEverybody(v, q, f)
      BY <2>2 DEF R!Proven
    <3>2. PICK g : g = <<q, f>> OBVIOUS
    <3>3. g \in GroupsOf(v) /\ g[1] = q /\ g[2] = f BY <3>1, <3>2, WeighedIsThere
    <3>4. PICK c \in all : CohortSays(v, g[1], g[2], c) BY <3>3, CohortsOfGroups
    <3>5. c.month = q /\ R!JudgedImplausible(c) BY <3>1, <3>3, <3>4 DEF CohortSays
    <3>q. QED BY <3>5 DEF R!MonthsOf
  <2>q. QED BY <2>1, <2>2
<1>3. ASSUME NEW q
      PROVE  q \in R!MonthsOf({c \in all : R!Judgeable(c)}) <=>
               q \in MonthsSeen(v) /\ \E f \in Platforms : R!Weighed(v, q, f)
  <2>1. ASSUME q \in R!MonthsOf({c \in all : R!Judgeable(c)})
        PROVE  q \in MonthsSeen(v) /\ \E f \in Platforms : R!Weighed(v, q, f)
    <3>1. PICK c \in all : R!Judgeable(c) /\ c.month = q BY <2>1 DEF R!MonthsOf
    <3>2. PICK g \in GroupsOf(v) : CohortSays(v, g[1], g[2], c) BY CohortsOfGroups
    <3>3. g[1] = q /\ R!Weighed(v, q, g[2]) BY <3>1, <3>2 DEF CohortSays
    <3>q. QED BY <1>1, <3>3
  <2>2. ASSUME NEW f \in Platforms, R!Weighed(v, q, f)
        PROVE  q \in R!MonthsOf({c \in all : R!Judgeable(c)})
    <3>1. PICK g : g = <<q, f>> OBVIOUS
    <3>2. g \in GroupsOf(v) /\ g[1] = q /\ g[2] = f BY <2>2, <3>1, WeighedIsThere
    <3>3. PICK c \in all : CohortSays(v, g[1], g[2], c) BY <3>2, CohortsOfGroups
    <3>4. c.month = q /\ R!Judgeable(c) BY <2>2, <3>2, <3>3 DEF CohortSays
    <3>q. QED BY <3>4 DEF R!MonthsOf
  <2>q. QED BY <2>1, <2>2
<1>4. R!Confirmed(all) = {q \in MonthsSeen(v) : R!Proven(v, q)} BY <1>2 DEF R!Confirmed
<1>5. ASSUME NEW q PROVE q \in R!Clean(all) <=> q \in MonthsSeen(v) /\ R!Sound(v, q)
  <2>1. q \in R!Clean(all) <=>
          q \in R!MonthsOf({c \in all : R!Judgeable(c)}) /\ q \notin R!Confirmed(all)
    BY DEF R!Clean
  <2>q. QED BY <1>3, <1>4, <2>1 DEF R!Sound
<1>q. QED BY <1>4, <1>5

\* A month lies in a span if and only if it is touched.
LEMMA SpansTouch ==
  ASSUME R!Settings, NEW v, IsBag(v), NEW t, NEW all, all = R!BuildCohorts(v, t), NEW m \in Nat
  PROVE  (\E span \in R!DetectContaminatedSpans(all) : R!Inside(m, span)) <=> R!Touched(v, m)
<1>1. PICK C : C = R!Confirmed(all) OBVIOUS
<1>2. PICK D : D = R!Clean(all) OBVIOUS
<1>3. C = {q \in MonthsSeen(v) : R!Proven(v, q)} /\ D = {q \in MonthsSeen(v) : R!Sound(v, q)}
  BY <1>1, <1>2, MonthsAreJudged
<1>4. MonthsSeen(v) \in SUBSET Nat /\ IsFiniteSet(MonthsSeen(v)) BY GroupsAreTyped
<1>5. C \in SUBSET Nat /\ D \in SUBSET Nat /\ C \subseteq MonthsSeen(v) BY <1>3, <1>4
<1>6. IsFiniteSet(C) BY <1>4, <1>5, FS_Subset
<1>7. InSpan(all, m) <=> Joined(C, D, m)
  BY <1>1, <1>2, <1>5, <1>6, SpanIsJoined, JoinedIsSpan
<1>8. (\E span \in R!DetectContaminatedSpans(all) : R!Inside(m, span)) <=> InSpan(all, m)
  <2> DEFINE span(start) ==
               LET inside == {c \in all : start <= c.month /\ c.month <= R!Max(RunOf(all, start))}
               IN  [ from |-> start, to |-> R!Max(RunOf(all, start)),
                     confirmedMonths |-> RunOf(all, start),
                     confirmedCohorts |-> R!Cardinality({c \in inside : R!JudgedImplausible(c)}),
                     judgedCohorts |-> R!Cardinality({c \in inside : R!Judgeable(c)}) ]
  <2>1. R!DetectContaminatedSpans(all) = {span(start) : start \in R!Starts(all)}
    BY DEF R!DetectContaminatedSpans, RunOf
  <2>2. \A start : span(start).from = start /\ span(start).to = Max(RunOf(all, start))
    BY RetentionNames
  <2> HIDE DEF span
  <2>q. QED BY <2>1, <2>2 DEF R!Inside, InSpan
<1>9. R!Touched(v, m) <=> Joined(C, D, m)
  <2>1. PICK months : months = MonthsSeen(v) OBVIOUS
  <2>2. C = {q \in months : R!Proven(v, q)} BY <1>3, <2>1
  <2>3. R!Touched(v, m) <=>
          \E p, q \in C :
            /\ p <= m /\ m <= q
            /\ \A k \in months : p <= k /\ k <= q => ~R!Sound(v, k)
            /\ \A k \in p..(q - 6) : \E j \in k..(k + 6) : j \in C
    BY <2>1, <2>2 DEF R!Touched, MonthsSeen
  <2>4. \A p, q : (\A k \in months : p <= k /\ k <= q => ~R!Sound(v, k))
                    <=> (\A k \in D : ~(p <= k /\ k <= q))
    BY <1>3, <2>1
  <2>q. QED BY <2>3, <2>4 DEF Joined
<1>q. QED BY <1>7, <1>8, <1>9

\* What is published of a horizon: x of the players v, in month m on platform f.
Shown(v, m, f, h, x) ==
  LET base    == R!Base(v, m, f, h)
      refused == \/ R!Stamped(v, m, f)
                 \/ /\ R!KeptEverybody(v, m, f)
                    /\ R!Size(v, m, f) >= 20 \/ R!Touched(v, m)
  IN  /\ x.n = base
      /\ R!Measured(x) <=> ~refused /\ base > 0
      /\ R!Measured(x) => x.survived = R!Kept(v, m, f, h)

\* What CohortsAreEvidence asks of a report r of some players.
Evidence(r, players) ==
  LET w == r.window
  IN  /\ {<<c.month, c.platform>> : c \in r.cohorts} =
           { g \in GroupsOf(players) :
               w.from <= g[1] /\ g[1] <= w.to /\ w.platform \in {"all", g[2]} }
      /\ \A c \in r.cohorts : \A h \in R!Horizons :
           Shown(players, c.month, c.platform, h, c.measures[h])

LEMMA EvidenceIsOf ==
  R!CohortsAreEvidence <=> (table.source.ok => Evidence(table, R!Rows(body)))
BY DEF R!CohortsAreEvidence, Evidence, Shown, GroupsOf

\* A cohort of the table, after its span has been applied.
LEMMA AppliedSays ==
  ASSUME R!Settings, NEW v, IsBag(v), NEW t, NEW all, all = R!BuildCohorts(v, t),
         NEW spans, spans = R!DetectContaminatedSpans(all),
         NEW g \in GroupsOf(v), NEW c, CohortSays(v, g[1], g[2], c),
         NEW d, d = IF R!Inherits(c, spans)
                    THEN [c EXCEPT !.measures =
                            [h \in R!Horizons |-> R!Blank(c.measures[h], "contaminated_span")]]
                    ELSE c,
         NEW h \in R!Horizons
  PROVE  Shown(v, g[1], g[2], h, d.measures[h])
<1>1. PICK m : m = g[1] OBVIOUS
<1>2. PICK f : f = g[2] OBVIOUS
<1>3. m \in Nat BY <1>1, GroupsAreTyped
<1>4. PICK st \in BOOLEAN : st <=> R!Stamped(v, m, f) OBVIOUS
<1>5. PICK ke \in BOOLEAN : ke <=> R!KeptEverybody(v, m, f) OBVIOUS
<1>6. PICK big \in BOOLEAN : big <=> R!Size(v, m, f) >= 20 OBVIOUS
<1>7. PICK touched \in BOOLEAN : touched <=> R!Touched(v, m) OBVIOUS
<1>8. PICK base : base = R!Base(v, m, f, h) OBVIOUS
<1>9. R!Size(v, m, f) \in Nat
  <2>1. R!Group(v, m, f) \subseteq DOMAIN v BY GroupFacts
  <2>q. QED BY <2>1, ManyNat DEF R!Size
<1>10. big <=> ~(R!Size(v, m, f) < 20) BY <1>6, <1>9
<1>11. /\ c.month = m /\ DOMAIN c.measures = R!Horizons
       /\ c.measures[h].n = base
       /\ R!Measured(c.measures[h]) <=> ~st /\ base > 0 /\ ~(big /\ ke)
       /\ R!Measured(c.measures[h]) => c.measures[h].survived = R!Kept(v, m, f, h)
       /\ R!JudgedImplausible(c) <=> R!Weighed(v, m, f) /\ ke
       /\ R!ReadsImplausible(c.measures) <=> ~st /\ ke /\ ~big
  BY <1>1, <1>2, <1>4, <1>5, <1>6, <1>8, <1>10 DEF CohortSays
<1>12. R!Weighed(v, m, f) => big BY <1>6 DEF R!Weighed
<1>13. (\E span \in spans : R!Inside(m, span)) <=> touched BY <1>3, <1>7, SpansTouch
<1>14. R!Inherits(c, spans) <=> touched /\ ~st /\ ke /\ ~big
  BY <1>11, <1>12, <1>13 DEF R!Inherits
<1>15. /\ d.measures[h].n = base
       /\ R!Measured(d.measures[h]) <=> R!Measured(c.measures[h]) /\ ~R!Inherits(c, spans)
       /\ R!Measured(d.measures[h]) => d.measures[h] = c.measures[h]
  <2>1. CASE R!Inherits(c, spans)
    <3>1. PICK blanked :
            blanked = [k \in R!Horizons |-> R!Blank(c.measures[k], "contaminated_span")]
      OBVIOUS
    <3>2. d = [c EXCEPT !.measures = blanked] BY <2>1, <3>1
    <3>3. "measures" \in DOMAIN c BY DEF CohortSays
    <3>4. d.measures = blanked BY <3>2, <3>3
    <3>5. d.measures[h] = [reason |-> "contaminated_span", n |-> c.measures[h].n]
      BY <3>1, <3>4 DEF R!Blank
    <3>q. QED BY <1>11, <2>1, <3>5 DEF R!Measured
  <2>2. CASE ~R!Inherits(c, spans) BY <1>11, <2>2
  <2>q. QED BY <2>1, <2>2
<1>q. QED BY <1>1, <1>2, <1>4, <1>5, <1>6, <1>7, <1>8, <1>11, <1>14, <1>15 DEF Shown

LEMMA ReportIsEvidence ==
  ASSUME R!Settings, NEW b \in R!Body, NEW w, NEW stale, NEW t,
         NEW r, r = R!ReportOf(w, b, stale, t)
  PROVE  Evidence(r, R!Rows(b))
<1>1. PICK v : v = R!Rows(b) OBVIOUS
<1>2. IsBag(v) BY <1>1, RowsAreBag
<1>3. PICK all : all = R!BuildCohorts(v, t) OBVIOUS
<1>4. PICK spans : spans = R!DetectContaminatedSpans(all) OBVIOUS
<1> DEFINE ap(c) == IF R!Inherits(c, spans)
                    THEN [c EXCEPT !.measures =
                            [h \in R!Horizons |-> R!Blank(c.measures[h], "contaminated_span")]]
                    ELSE c
<1>5. R!ApplyContaminatedSpans(all, spans) = {ap(c) : c \in all} BY DEF R!ApplyContaminatedSpans
<1>6. r.window = w /\ r.cohorts = R!InWindow({ap(c) : c \in all}, w)
  BY <1>1, <1>3, <1>4, <1>5 DEF R!ReportOf
<1>7. ASSUME NEW c \in all, NEW g \in GroupsOf(v), CohortSays(v, g[1], g[2], c)
      PROVE  ap(c).month = g[1] /\ ap(c).platform = g[2]
  <2>1. /\ {"month", "platform", "measures"} \subseteq DOMAIN c
        /\ c.month = g[1] /\ c.platform = g[2]
    BY <1>7 DEF CohortSays
  <2>2. CASE R!Inherits(c, spans)
    <3>1. PICK blanked :
            blanked = [h \in R!Horizons |-> R!Blank(c.measures[h], "contaminated_span")]
      OBVIOUS
    <3>2. ap(c) = [c EXCEPT !.measures = blanked] BY <2>2, <3>1
    <3> HIDE DEF ap
    <3>q. QED BY <2>1, <3>2
  <2>3. CASE ~R!Inherits(c, spans)
    <3>1. ap(c) = c BY <2>3
    <3>q. QED BY <2>1, <3>1
  <2>q. QED BY <2>2, <2>3
<1>8. ASSUME NEW c \in all, NEW g \in GroupsOf(v), CohortSays(v, g[1], g[2], c),
             NEW h \in R!Horizons
      PROVE  Shown(v, g[1], g[2], h, ap(c).measures[h])
  <2>1. PICK d : d = ap(c) OBVIOUS
  <2>2. Shown(v, g[1], g[2], h, d.measures[h]) BY <1>2, <1>3, <1>4, <1>8, <2>1, AppliedSays
  <2>q. QED BY <2>1, <2>2
<1>9. ASSUME NEW d \in r.cohorts
      PROVE  \E c \in all : \E g \in GroupsOf(v) :
               /\ d = ap(c) /\ CohortSays(v, g[1], g[2], c)
               /\ d.month = g[1] /\ d.platform = g[2]
               /\ w.from <= g[1] /\ g[1] <= w.to /\ w.platform \in {"all", g[2]}
  <2> HIDE DEF ap
  <2>1. PICK c \in all : d = ap(c) BY <1>6 DEF R!InWindow
  <2>2. PICK g \in GroupsOf(v) : CohortSays(v, g[1], g[2], c) BY <1>2, <1>3, CohortsOfGroups
  <2>3. d.month = g[1] /\ d.platform = g[2] BY <1>7, <2>1, <2>2
  <2>4. w.from <= d.month /\ d.month <= w.to /\ w.platform \in {"all", d.platform}
    BY <1>6 DEF R!InWindow
  <2>q. QED BY <2>1, <2>2, <2>3, <2>4
<1>10. ASSUME NEW g \in GroupsOf(v), w.from <= g[1], g[1] <= w.to, w.platform \in {"all", g[2]}
       PROVE  \E d \in r.cohorts : d.month = g[1] /\ d.platform = g[2]
  <2> HIDE DEF ap
  <2>1. PICK c \in all : CohortSays(v, g[1], g[2], c) BY <1>2, <1>3, CohortsOfGroups
  <2>2. PICK d : d = ap(c) OBVIOUS
  <2>3. d.month = g[1] /\ d.platform = g[2] BY <1>7, <2>1, <2>2
  <2>4. d \in r.cohorts BY <1>6, <1>10, <2>2, <2>3 DEF R!InWindow
  <2>q. QED BY <2>3, <2>4
<1> HIDE DEF ap
<1>11. \A g \in GroupsOf(v) : g = <<g[1], g[2]>> BY DEF GroupsOf
<1>12. {<<c.month, c.platform>> : c \in r.cohorts} =
         { g \in GroupsOf(v) :
             w.from <= g[1] /\ g[1] <= w.to /\ w.platform \in {"all", g[2]} }
  BY <1>9, <1>10, <1>11
<1>13. ASSUME NEW d \in r.cohorts, NEW h \in R!Horizons
       PROVE  Shown(v, d.month, d.platform, h, d.measures[h])
  <2>1. PICK c \in all, g \in GroupsOf(v) :
          d = ap(c) /\ CohortSays(v, g[1], g[2], c) /\ d.month = g[1] /\ d.platform = g[2]
    BY <1>9
  <2>q. QED BY <1>8, <2>1
<1>q. QED BY <1>1, <1>6, <1>12, <1>13 DEF Evidence

\* Plan's answers, held or read, are bodies.
BodiesOK ==
  /\ known \subseteq Batches /\ lists \in 0..2 /\ torn \in {0, 1}
  /\ held \in R!Body /\ body \in R!Body

LEMMA BodiesInitOK == ASSUME R!Init PROVE BodiesOK
<1>1. R!None \in R!Body BY DEF R!None, R!Body
<1>q. QED BY <1>1 DEF R!Init, BodiesOK

LEMMA BodiesNextOK == ASSUME BodiesOK, [R!Next]_(R!vars) PROVE BodiesOK'
<1>1. R!None \in R!Body BY DEF R!None, R!Body
<1>2. [lists |-> lists, batches |-> known, torn |-> torn] \in R!Body BY DEF BodiesOK, R!Body
<1>3. ASSUME NEW w, R!Fetch(w) PROVE BodiesOK' BY <1>2, <1>3 DEF R!Fetch, BodiesOK
<1>4. ASSUME NEW w, NEW s, R!ServeHeld(w, s) PROVE BodiesOK' BY <1>4 DEF R!ServeHeld, BodiesOK
<1>5. ASSUME NEW w, NEW f, R!Unreachable(w, f) PROVE BodiesOK'
  BY <1>1, <1>5 DEF R!Unreachable, BodiesOK
<1>6. ASSUME NEW batch \in Batches, R!Collect(batch) PROVE BodiesOK'
  BY <1>6 DEF R!Collect, BodiesOK
<1>7. ASSUME NEW n \in {0, 2}, R!ContractMoves(n) PROVE BodiesOK'
  BY <1>7 DEF R!ContractMoves, BodiesOK
<1>8. R!RowUnreadable => BodiesOK' BY DEF R!RowUnreadable, BodiesOK
<1>9. ASSUME NEW d, R!Pass(d) PROVE BodiesOK' BY <1>9 DEF R!Pass, BodiesOK
<1>10. UNCHANGED R!vars => BodiesOK' BY DEF R!vars, BodiesOK
<1>q. QED BY <1>3, <1>4, <1>5, <1>6, <1>7, <1>8, <1>9, <1>10 DEF R!Next

\* Numbers are withheld exactly when there is evidence against them, whatever
\* the payload: however many batches overlap, in whatever months and platforms.
\* Code: retention.service.ts report; retention-math.ts
THEOREM CohortsStandOnEvidence == ReadSpec => []CohortsAreEvidence
<1> DEFINE Inv == BodiesOK /\ ReportIsOf
<1>1. ReadInit => Inv
  BY BodiesInitOK DEF ReadInit, R!Init, R!EmptyReport, R!Failed, ReportIsOf
<1>2. Inv /\ [ReadNext]_readVars => Inv' BY OneTopic, BodiesNextOK, ReportNextOK
<1>3. Inv => CohortsAreEvidence
  <2>1. ASSUME BodiesOK, ReportIsOf, table.source.ok PROVE Evidence(table, R!Rows(body))
    <3>1. PICK stale, t : table = R!ReportOf(table.window, body, stale, t)
      BY <2>1 DEF ReportIsOf
    <3>2. body \in R!Body BY <2>1 DEF BodiesOK
    <3>q. QED BY <3>1, <3>2, ReportIsEvidence, ReadAssumption
  <2>q. QED BY <2>1, EvidenceIsOf DEF CohortsAreEvidence
<1> HIDE DEF Inv
<1>q. QED BY <1>1, <1>2, <1>3, PTL DEF ReadSpec, readVars

-----------------------------------------------------------------------------
(* The health checks: a verdict that says ok stands on a sound reading.    *)

CheckNames ==
  { "plan.collection_alive", "plan.version_divergence", "plan.orphan_instance",
    "platform.offline_account_share", "plan.proxy_registration_alive",
    "funnel.network_to_survival", "funnel.tutorial_entry_rate" }

LEMMA RegistryHolds == H!Range(H!Registry) = CheckNames
<1>1. DOMAIN H!Registry = 1..7 BY DEF H!Registry
<1>2. \A i \in 1..7 : i \in {1, 2, 3, 4, 5, 6, 7} OBVIOUS
<1>q. QED BY <1>1, <1>2 DEF H!Range, H!Registry, CheckNames

LEMMA HealthCardinality == \A S : H!Cardinality(S) = Cardinality(S)
BY DEF H!Cardinality, Cardinality

LEMMA HealthFinite == \A S : H!IsFiniteSet(S) <=> IsFiniteSet(S)
BY DEF H!IsFiniteSet, IsFiniteSet

\* CountOf is the total of the rows.
LEMMA CountIsTotal ==
  ASSUME NEW S, IsFiniteSet(S)
  PROVE  H!CountOf(S) = TotalOf([row \in S |-> row.n], S)
<1> DEFINE v == [row \in S |-> row.n]
           Unfolds(f) == f = [s \in SUBSET S |-> IF s = {} THEN 0 ELSE Picked(s).n + f[Remaining(s)]]
<1>1. H!CountOf(S) = (CHOOSE f : Unfolds(f))[S]
  BY DEF H!CountOf, H!MapThenSumSet, H!MapThenFoldSet, Picked, Remaining
<1>2. ASSUME NEW f PROVE Unfolds(f) <=> IsFold(f, v, S)
  <2>1. \A s \in SUBSET S : s # {} => v[Picked(s)] = Picked(s).n BY PickIsElement
  <2>q. QED BY <2>1 DEF IsFold
<1>3. \E f : Unfolds(f) BY <1>2, FoldExists
<1>4. PICK f : f = CHOOSE g : Unfolds(g) OBVIOUS
<1>5. Unfolds(f) BY <1>3, <1>4
<1>6. IsFold(f, v, S) BY <1>2, <1>5
<1> HIDE DEF v, Unfolds
<1>7. f[S] = TotalOf(v, S) BY <1>6, FoldIsTotal
<1>q. QED BY <1>1, <1>4, <1>7 DEF v

LEMMA ReadingTypes ==
  ASSUME H!Settings, NEW reading \in Readings
  PROVE  /\ \A s \in Servers :
              /\ reading.overview[s].newPlayers \in Nat \cup {H!Null}
              /\ reading.overview[s].uniqueDay \in Nat \cup {H!Null}
              /\ reading.overview[s].online \in Nat \cup {H!Null}
              /\ reading.table[s].players \subseteq H!PlayerRow
              /\ IsFiniteSet(reading.table[s].players)
         /\ reading.users.total \in Nat \cup {H!Null}
         /\ reading.users.silence \in Int
         /\ reading.catalogue.catalogue \subseteq H!PlanServerRow
         /\ IsFiniteSet(reading.catalogue.catalogue)
         /\ reading.tutorial.age \in Int /\ reading.tutorial.entered \in Nat
<1>1. reading \in H!Reading BY DEF H!Settings
<1>2. /\ reading.overview \in [Servers -> H!Overview]
      /\ reading.table \in [Servers -> H!PlayersTable]
      /\ reading.users \in H!PlanUsers /\ reading.catalogue \in H!PlanServers
      /\ reading.tutorial \in H!TutorialCopy
  BY <1>1 DEF H!Reading
<1>3. \A s \in Servers : reading.overview[s] \in H!Overview /\ reading.table[s] \in H!PlayersTable
  BY <1>2
<1>4. /\ \A s \in Servers : H!IsFiniteSet(reading.table[s].players)
      /\ H!IsFiniteSet(reading.catalogue.catalogue)
  BY DEF H!Settings
<1>5. \A s \in Servers :
        /\ reading.overview[s].newPlayers \in Nat \cup {H!Null}
        /\ reading.overview[s].uniqueDay \in Nat \cup {H!Null}
        /\ reading.overview[s].online \in Nat \cup {H!Null}
        /\ reading.table[s].players \subseteq H!PlayerRow
  BY <1>3 DEF H!Overview, H!PlayersTable
<1>6. /\ reading.users.total \in Nat \cup {H!Null}
      /\ reading.users.silence \in Int
      /\ reading.catalogue.catalogue \subseteq H!PlanServerRow
      /\ reading.tutorial.age \in Int /\ reading.tutorial.entered \in Nat
  BY <1>2 DEF H!PlanUsers, H!PlanServers, H!TutorialCopy
<1>q. QED BY <1>4, <1>5, <1>6, HealthFinite

LEMMA CountIsNat ==
  ASSUME NEW S, IsFiniteSet(S), S \subseteq H!PlayerRow
  PROVE  H!CountOf(S) \in Nat
<1> DEFINE v == [row \in S |-> row.n]
<1>1. \A x \in S : v[x] \in Nat BY DEF H!PlayerRow
<1>2. TotalOf(v, S) \in Nat
  <2> HIDE DEF v
  <2>q. QED BY <1>1, TotalNat
<1>q. QED BY <1>2, CountIsTotal

LEMMA CollectionIsSound ==
  ASSUME NEW o, {o.online, o.uniqueDay} \subseteq Nat \cup {H!Null}, H!CollectionAlive(o) = "ok"
  PROVE  /\ o.answer = "ok" /\ {o.online, o.uniqueDay} \subseteq Nat
         /\ o.uniqueDay > 0 \/ o.online = 0
BY DEF H!CollectionAlive, H!Null

LEMMA VersionsAreSound ==
  ASSUME NEW source, source.catalogue \subseteq H!PlanServerRow,
         IsFiniteSet(source.catalogue), H!VersionDivergence(source) = "ok"
  PROVE  \E a, b \in source.catalogue :
           /\ a # b /\ a.version = b.version /\ a.version \in Nat
           /\ \A row \in source.catalogue : row.version \in {H!Null, a.version}
<1> DEFINE versioned == {row \in source.catalogue : row.version # H!Null}
           versions == {row.version : row \in versioned}
<1>1. ~(Cardinality(versioned) < 2) /\ ~(Cardinality(versions) > 1)
  BY HealthCardinality DEF H!VersionDivergence
<1>2. IsFiniteSet(versioned) /\ Cardinality(versioned) \in Nat BY FS_Subset, FS_CardinalityType
<1>3. PICK a : a \in versioned BY <1>1, <1>2, FS_EmptySet
<1>4. \E b \in versioned : b # a
  <2>1. ASSUME \A b \in versioned : b = a PROVE FALSE
    <3>1. versioned = {a} BY <1>3, <2>1
    <3>2. Cardinality(versioned) = 1 BY <3>1, FS_Singleton
    <3>q. QED BY <1>1, <3>2
  <2>q. QED BY <2>1
<1>5. \A b \in versioned : b.version = a.version
  <2> DEFINE f == [row \in versioned |-> row.version]
  <2>1. versions = Image(f, versioned) BY DEF Image
  <2>2. IsFiniteSet(versions)
    <3> HIDE DEF f
    <3>q. QED BY <1>2, <2>1, ImageIsFinite
  <2>3. Cardinality(versions) \in Nat BY <2>2, FS_CardinalityType
  <2>4. Cardinality(versions) <= 1 BY <1>1, <2>3
  <2>5. \A b \in versioned : b.version \in versions OBVIOUS
  <2> HIDE DEF versions
  <2>q. QED BY <1>3, <2>2, <2>4, <2>5, AtMostOne
<1>6. a.version \in Nat BY <1>3 DEF H!PlanServerRow
<1>q. QED BY <1>3, <1>4, <1>5, <1>6

LEMMA OrphansAreSound ==
  ASSUME NEW source, NEW servers, H!OrphanInstance(source, H!Range(servers)) = "ok"
  PROVE  H!Range(servers) = {row.name : row \in source.catalogue} /\ servers # <<>>
<1>1. H!Range(servers) # {} /\ H!Range(servers) = {row.name : row \in source.catalogue}
  BY DEF H!OrphanInstance
<1>2. H!Range(<<>>) = {} BY DEF H!Range
<1>q. QED BY <1>1, <1>2

LEMMA SharesAreSound ==
  ASSUME H!Settings, NEW players, players \subseteq H!PlayerRow, IsFiniteSet(players),
         NEW source, source.players = players, H!PlatformOfflineShare(source) = "ok",
         NEW all, NEW offline,
         all = {row \in players : row.dated /\ OfflineWindow >= row.age /\ row.platform \in H!PlayerPlatforms},
         offline = {row \in players : row.dated /\ OfflineWindow >= row.age /\ row.platform \in {"java_offline"}}
  PROVE  /\ H!CountOf(all) >= MinSample
         /\ H!CountOf(offline) * 1000 <= H!CountOf(all) * MaxOfflineShare
<1>0. OfflineWindow \in Nat /\ MinSample \in Nat /\ MaxOfflineShare \in Nat BY DEF H!Settings
<1>1. \A row \in players : row.age \in Int /\ row.platform \in H!PlayerPlatforms
  BY DEF H!PlayerRow
<1>2. all = {row \in players : row.dated /\ row.age <= OfflineWindow}
  BY <1>0, <1>1
<1>3. offline = {row \in all : row.platform = "java_offline"} BY DEF H!PlayerPlatforms
<1> DEFINE arrivals == {row \in source.players : row.dated /\ row.age <= OfflineWindow}
           others == {row \in arrivals : row.platform = "java_offline"}
<1>4. H!PlatformOfflineShare(source) =
        IF source.answer # "ok" THEN "error"
        ELSE IF H!CountOf(arrivals) < MinSample THEN "no_data"
        ELSE IF 1000 * H!CountOf(others) > MaxOfflineShare * H!CountOf(arrivals) THEN "breached"
        ELSE "ok"
  BY DEF H!PlatformOfflineShare
<1>5. arrivals = all /\ others = offline BY <1>2, <1>3
<1> HIDE DEF arrivals, others
<1>6. /\ ~(H!CountOf(all) < MinSample)
      /\ ~(1000 * H!CountOf(offline) > MaxOfflineShare * H!CountOf(all))
  BY <1>4, <1>5
<1>7. all \subseteq H!PlayerRow /\ offline \subseteq H!PlayerRow
      /\ IsFiniteSet(all) /\ IsFiniteSet(offline)
  BY <1>2, <1>3, FS_Subset
<1>8. H!CountOf(all) \in Nat /\ H!CountOf(offline) \in Nat BY <1>7, CountIsNat
<1>q. QED BY <1>0, <1>6, <1>8

LEMMA RegistrationsAreSound ==
  ASSUME H!Settings, NEW users, users.total \in Nat \cup {H!Null}, users.silence \in Int,
         H!ProxyRegistrationAlive(users) = "ok"
  PROVE  users.total > 0 /\ users.dated /\ (users.silence \in 0..MaxSilence \/ users.silence < 0)
<1>1. MaxSilence \in Nat BY DEF H!Settings
<1>q. QED BY <1>1 DEF H!ProxyRegistrationAlive, H!Null

LEMMA EntryRateIsSound ==
  ASSUME H!Settings, NEW tutorial, tutorial.entered \in Nat,
         NEW o, o.newPlayers \in Nat \cup {H!Null},
         H!TutorialEntryRate(tutorial, o) = "ok"
  PROVE  /\ tutorial.synced /\ tutorial.age \in 0..MaxSyncAge
         /\ o.newPlayers >= MinSample
         /\ tutorial.entered * 1000 >= o.newPlayers * MinEntryRate
<1>1. MinSample \in Nat /\ MinEntryRate \in Nat BY DEF H!Settings
<1>2. /\ H!TutorialFresh(tutorial) /\ o.newPlayers # H!Null
      /\ ~(o.newPlayers < MinSample)
      /\ ~(1000 * tutorial.entered < MinEntryRate * o.newPlayers)
  BY DEF H!TutorialEntryRate
<1>3. o.newPlayers \in Nat BY <1>2
<1>q. QED BY <1>1, <1>2, <1>3 DEF H!TutorialFresh

\* The servers a check is about are configured.
LEMMA TargetsAreServers ==
  ASSUME NEW servers \in Seq(Servers), NEW check \in H!PerBackend,
         NEW target \in H!Targets(check, servers)
  PROVE  target \in Servers
<1>1. target \in H!Range(servers) BY DEF H!Targets, H!Backends
<1>q. QED BY <1>1 DEF H!Range

LEMMA OkIsSound ==
  ASSUME H!Settings, NEW reading \in Readings, NEW servers \in Seq(Servers),
         NEW name \in H!CheckName, H!Observed(name, servers),
         H!Status(name.check, name.target, reading, servers) = "ok"
  PROVE  /\ name.check # "funnel.network_to_survival"
         /\ H!Sound(name, reading, servers) \/ H!Ahead(name, reading)
<1>0. name.check \in CheckNames BY RegistryHolds DEF H!CheckName
<1>1. name.check \in H!PerBackend => name.target \in Servers
  BY TargetsAreServers DEF H!Observed
<1>2. H!PerBackend = CheckNames \ { "plan.version_divergence", "plan.orphan_instance",
                                    "plan.proxy_registration_alive" }
  BY RegistryHolds DEF H!PerBackend
<1>3. name.check # "funnel.network_to_survival" BY DEF H!Status, H!NetworkToSurvival
<1>4. CASE name.check = "plan.collection_alive"
  <2>1. name.target \in Servers BY <1>0, <1>1, <1>2, <1>4
  <2>2. H!CollectionAlive(reading.overview[name.target]) = "ok" BY <1>4 DEF H!Status
  <2>3. {reading.overview[name.target].online, reading.overview[name.target].uniqueDay}
           \subseteq Nat \cup {H!Null}
    BY <2>1, ReadingTypes
  <2>q. QED BY <1>3, <1>4, <2>2, <2>3, CollectionIsSound DEF H!Sound
<1>5. CASE name.check = "plan.version_divergence"
  <2>1. H!VersionDivergence(reading.catalogue) = "ok" BY <1>5 DEF H!Status
  <2>q. QED BY <1>3, <1>5, <2>1, ReadingTypes, VersionsAreSound DEF H!Sound
<1>6. CASE name.check = "plan.orphan_instance"
  <2>1. H!OrphanInstance(reading.catalogue, H!Range(servers)) = "ok" BY <1>6 DEF H!Status
  <2>q. QED BY <1>3, <1>6, <2>1, OrphansAreSound DEF H!Sound
<1>7. CASE name.check = "platform.offline_account_share"
  <2>1. name.target \in Servers BY <1>0, <1>1, <1>2, <1>7
  <2>2. H!PlatformOfflineShare(reading.table[name.target]) = "ok" BY <1>7 DEF H!Status
  <2>3. /\ reading.table[name.target].players \subseteq H!PlayerRow
        /\ IsFiniteSet(reading.table[name.target].players)
    BY <2>1, ReadingTypes
  <2>4. PICK source : source = reading.table[name.target] OBVIOUS
  <2>5. PICK all : all = {row \in source.players :
                            row.dated /\ OfflineWindow >= row.age /\ row.platform \in H!PlayerPlatforms}
    OBVIOUS
  <2>6. PICK offline : offline = {row \in source.players :
                                    row.dated /\ OfflineWindow >= row.age /\ row.platform \in {"java_offline"}}
    OBVIOUS
  <2>7. PICK players : players = source.players OBVIOUS
  <2>8. H!CountOf(all) >= MinSample /\ H!CountOf(offline) * 1000 <= H!CountOf(all) * MaxOfflineShare
    BY <2>2, <2>3, <2>4, <2>5, <2>6, <2>7, SharesAreSound
  <2>q. QED BY <1>3, <1>7, <2>4, <2>5, <2>6, <2>8 DEF H!Sound
<1>8. CASE name.check = "plan.proxy_registration_alive"
  <2>1. H!ProxyRegistrationAlive(reading.users) = "ok" BY <1>8 DEF H!Status
  <2>2. reading.users.total \in Nat \cup {H!Null} /\ reading.users.silence \in Int
    BY ReadingTypes
  <2>3. /\ reading.users.total > 0 /\ reading.users.dated
        /\ reading.users.silence \in 0..MaxSilence \/ reading.users.silence < 0
    BY <2>1, <2>2, RegistrationsAreSound
  <2>q. QED BY <1>3, <1>8, <2>3 DEF H!Sound, H!Ahead
<1>9. CASE name.check = "funnel.tutorial_entry_rate"
  <2>1. name.target \in Servers BY <1>0, <1>1, <1>2, <1>9
  <2>2. H!TutorialEntryRate(reading.tutorial, reading.overview[name.target]) = "ok"
    BY <1>9 DEF H!Status
  <2>3. /\ reading.overview[name.target].newPlayers \in Nat \cup {H!Null}
        /\ reading.tutorial.entered \in Nat
    BY <2>1, ReadingTypes
  <2>q. QED BY <1>3, <1>9, <2>2, <2>3, EntryRateIsSound DEF H!Sound
<1>q. QED BY <1>0, <1>3, <1>4, <1>5, <1>6, <1>7, <1>8, <1>9 DEF CheckNames

LEMMA StatusIsVerdict ==
  ASSUME NEW reading, NEW servers, NEW name \in H!CheckName
  PROVE  H!Status(name.check, name.target, reading, servers) \in H!Verdicts
<1>0. name.check \in CheckNames BY RegistryHolds DEF H!CheckName
<1>1. \A o : H!CollectionAlive(o) \in H!Verdicts BY DEF H!CollectionAlive, H!Verdicts
<1>2. \A s : H!VersionDivergence(s) \in H!Verdicts BY DEF H!VersionDivergence, H!Verdicts
<1>3. \A s, c : H!OrphanInstance(s, c) \in H!Verdicts BY DEF H!OrphanInstance, H!Verdicts
<1>4. \A t : H!PlatformOfflineShare(t) \in H!Verdicts
  BY DEF H!PlatformOfflineShare, H!Verdicts
<1>5. \A u : H!ProxyRegistrationAlive(u) \in H!Verdicts
  BY DEF H!ProxyRegistrationAlive, H!Verdicts
<1>6. \A t, o : H!TutorialEntryRate(t, o) \in H!Verdicts
  BY DEF H!TutorialEntryRate, H!Verdicts
<1>7. H!NetworkToSurvival \in H!Verdicts BY DEF H!NetworkToSurvival, H!Verdicts
<1>q. QED BY <1>0, <1>1, <1>2, <1>3, <1>4, <1>5, <1>6, <1>7 DEF H!Status, CheckNames

-----------------------------------------------------------------------------
(* The health summary.                                                     *)

\* A row that says ok stands on a sound reading, or on a registration ahead of
\* the clock, and is not of a blind check.
HealthRowOK(name) ==
  latest[name].status # "none" =>
    /\ latest[name].status \in H!Verdicts /\ latest[name].at \in Nat
    /\ latest[name].status = "ok" =>
         /\ name.check # "funnel.network_to_survival"
         /\ \/ latest[name].sound = TRUE
            \/ name.check = "plan.proxy_registration_alive" /\ latest[name].ahead = TRUE

HealthIInv ==
  /\ minute \in Nat /\ deployment \in Deployments
  /\ \A name \in H!CheckName : HealthRowOK(name)

LEMMA HealthInitOK == ASSUME H!Init PROVE HealthIInv
<1>1. \A name \in H!CheckName : latest[name].status = "none" BY DEF H!Init, H!NoRow
<1>q. QED BY <1>1 DEF H!Init, HealthIInv, HealthRowOK

LEMMA HealthNextOK ==
  ASSUME H!Settings, HealthIInv, [H!Next]_(H!healthVars) PROVE HealthIInv'
<1>1. CASE \E reading \in Readings : H!Cycle(reading)
  <2>1. PICK reading \in Readings : H!Cycle(reading) BY <1>1
  <2>2. minute' = minute /\ deployment' = deployment BY <2>1 DEF H!Cycle
  <2>3. deployment.servers \in Seq(Servers) BY DEF HealthIInv, H!Settings
  <2>4. ASSUME NEW name \in H!CheckName PROVE HealthRowOK(name)'
    <3>1. CASE H!Observed(name, deployment.servers)
      <4> DEFINE status == H!Status(name.check, name.target, reading, deployment.servers)
                 sound == H!Sound(name, reading, deployment.servers)
                 ahead == H!Ahead(name, reading)
      <4>1. latest'[name] = [status |-> status, at |-> minute, sound |-> sound, ahead |-> ahead]
        BY <2>1, <3>1 DEF H!Cycle
      <4>2. status \in H!Verdicts BY StatusIsVerdict
      <4>a. ahead => name.check = "plan.proxy_registration_alive" BY DEF H!Ahead
      <4>3. status = "ok" => /\ name.check # "funnel.network_to_survival"
                             /\ sound \/ (name.check = "plan.proxy_registration_alive" /\ ahead)
        BY <2>3, <3>1, <4>a, OkIsSound
      <4> HIDE DEF status, sound, ahead
      <4>4. /\ latest'[name].status = status /\ latest'[name].at = minute
            /\ latest'[name].sound = sound /\ latest'[name].ahead = ahead
        BY <4>1
      <4>q. QED BY <4>2, <4>3, <4>4 DEF HealthRowOK, HealthIInv
    <3>2. CASE ~H!Observed(name, deployment.servers)
      <4>1. latest'[name] = latest[name] BY <2>1, <3>2 DEF H!Cycle
      <4>q. QED BY <4>1 DEF HealthRowOK, HealthIInv
    <3>q. QED BY <3>1, <3>2
  <2>q. QED BY <2>2, <2>4 DEF HealthIInv
<1>2. CASE \E to \in Deployments : H!Deploy(to)
  BY <1>2 DEF H!Deploy, HealthIInv, HealthRowOK
<1>3. CASE H!MinutePasses BY <1>3 DEF H!MinutePasses, HealthIInv, HealthRowOK
<1>4. CASE UNCHANGED H!healthVars BY <1>4 DEF H!healthVars, HealthIInv, HealthRowOK
<1>q. QED BY <1>1, <1>2, <1>3, <1>4 DEF H!Next

\* A check and its target: there are finitely many.
LEMMA NamesFinite ==
  ASSUME H!Settings, NEW S, S \subseteq H!CheckName
  PROVE  IsFiniteSet(S) /\ H!Cardinality(S) \in Nat
<1>1. IsFiniteSet(CheckNames)
  <2>1. IsFiniteSet({}) BY FS_EmptySet
  <2> DEFINE one == {"plan.collection_alive"}
             two == one \cup {"plan.version_divergence"}
             three == two \cup {"plan.orphan_instance"}
             four == three \cup {"platform.offline_account_share"}
             five == four \cup {"plan.proxy_registration_alive"}
             six == five \cup {"funnel.network_to_survival"}
             seven == six \cup {"funnel.tutorial_entry_rate"}
  <2>2. IsFiniteSet(one) BY FS_Singleton
  <2> HIDE DEF one
  <2>3. IsFiniteSet(two) BY <2>2, FS_AddElement
  <2> HIDE DEF two
  <2>4. IsFiniteSet(three) BY <2>3, FS_AddElement
  <2> HIDE DEF three
  <2>5. IsFiniteSet(four) BY <2>4, FS_AddElement
  <2> HIDE DEF four
  <2>6. IsFiniteSet(five) BY <2>5, FS_AddElement
  <2> HIDE DEF five
  <2>7. IsFiniteSet(six) BY <2>6, FS_AddElement
  <2> HIDE DEF six
  <2>8. IsFiniteSet(seven) BY <2>7, FS_AddElement
  <2>9. seven = CheckNames BY DEF one, two, three, four, five, six, CheckNames
  <2>q. QED BY <2>8, <2>9
<1>2. IsFiniteSet(Servers \cup {H!Network})
  <2>1. IsFiniteSet(Servers) BY HealthFinite DEF H!Settings
  <2>q. QED BY <2>1, FS_AddElement
<1>3. PICK P : P = CheckNames \X (Servers \cup {H!Network}) OBVIOUS
<1>4. IsFiniteSet(P) BY <1>1, <1>2, <1>3, FS_Product
<1>5. H!CheckName = Image([p \in P |-> [check |-> p[1], target |-> p[2]]], P)
  <2> DEFINE f == [p \in P |-> [check |-> p[1], target |-> p[2]]]
  <2>1. ASSUME NEW name \in H!CheckName PROVE name \in Image(f, P)
    <3>1. name.check \in CheckNames /\ name.target \in Servers \cup {H!Network}
          /\ name = [check |-> name.check, target |-> name.target]
      BY RegistryHolds DEF H!CheckName
    <3>2. <<name.check, name.target>> \in P BY <1>3, <3>1
    <3>3. f[<<name.check, name.target>>] = name BY <3>1, <3>2
    <3> HIDE DEF f
    <3>q. QED BY <3>2, <3>3 DEF Image
  <2>2. ASSUME NEW p \in P PROVE f[p] \in H!CheckName
    <3>1. p[1] \in CheckNames /\ p[2] \in Servers \cup {H!Network} BY <1>3
    <3>q. QED BY <3>1, RegistryHolds DEF H!CheckName
  <2> HIDE DEF f
  <2>3. Image(f, P) \subseteq H!CheckName BY <2>2 DEF Image
  <2>q. QED BY <2>1, <2>3 DEF f
<1>6. IsFiniteSet(H!CheckName) BY <1>4, <1>5, ImageIsFinite
<1>7. IsFiniteSet(S) BY <1>6, FS_Subset
<1>q. QED BY <1>7, FS_CardinalityType, HealthCardinality

\* What is not empty counts at least one.
LEMMA NoneCounted ==
  ASSUME H!Settings, NEW S, S \subseteq H!CheckName, ~(H!Cardinality(S) > 0)
  PROVE  S = {}
<1>1. IsFiniteSet(S) BY NamesFinite
<1>2. H!Cardinality(S) \in Nat BY NamesFinite
<1>3. Cardinality(S) = 0 BY <1>2, HealthCardinality
<1>q. QED BY <1>1, <1>3, FS_EmptySet

LEMMA SummaryIsMeasured ==
  ASSUME H!Settings, HealthIInv PROVE H!OkMeansMeasured
<1> DEFINE measured == {name \in H!CheckName : latest[name].status # "none"}
<1>1. measured = H!Records BY DEF H!Records
<1>2. H!Summary.status = H!ResolveStatus BY DEF H!Summary
<1>3. ASSUME H!ResolveStatus \in {"ok", "degraded"}
      PROVE  /\ H!Measuring # {}
             /\ ~H!AnyStale /\ ~(H!Tally("error") > 0)
  BY <1>3 DEF H!ResolveStatus
<1>4. ASSUME H!ResolveStatus = "ok"
      PROVE  /\ ~(H!Tally("breached") > 0) /\ ~(H!Tally("no_data") > 0)
             /\ H!Missing = {}
  BY <1>4 DEF H!ResolveStatus
<1>5. ASSUME H!ResolveStatus \in {"ok", "degraded"}
      PROVE  /\ deployment.enabled /\ measured # {}
             /\ \A name \in measured : latest[name].at + 2 * Interval >= minute
  <2>1. measured # {} BY <1>1, <1>3, <1>5 DEF H!Measuring
  <2>2. \A name \in measured : ~H!IsStale(latest[name].at) BY <1>1, <1>3, <1>5 DEF H!AnyStale
  <2>3. deployment.enabled BY <2>1, <2>2 DEF H!IsStale
  <2>4. ASSUME NEW name \in measured PROVE latest[name].at + 2 * Interval >= minute
    <3>1. latest[name].at \in Nat BY DEF HealthIInv, HealthRowOK
    <3>2. ~(latest[name].at < minute - Interval * 2)
      BY <2>2 DEF H!IsStale, H!MissedCyclesBeforeStale
    <3>3. Interval \in Nat /\ minute \in Nat BY DEF H!Settings, HealthIInv
    <3>q. QED BY <3>1, <3>2, <3>3
  <2>q. QED BY <2>1, <2>3, <2>4
<1>6. ASSUME H!ResolveStatus = "ok"
      PROVE  {name.check : name \in measured} = H!Range(H!Registry)
  <2>1. H!Range(H!Registry) \ H!Reporting = {} BY <1>4, <1>6 DEF H!Missing
  <2>2. H!Reporting = {name.check : name \in measured} BY <1>1 DEF H!Reporting
  <2>3. \A name \in measured : name.check \in H!Range(H!Registry) BY DEF H!CheckName
  <2>4. H!Reporting \subseteq H!Range(H!Registry) BY <2>2, <2>3
  <2>q. QED BY <2>1, <2>2, <2>4
<1>7. ASSUME H!ResolveStatus = "ok", NEW name \in measured
      PROVE  \/ name.check = "funnel.network_to_survival"
             \/ latest[name].sound
             \/ name.check = "plan.proxy_registration_alive" /\ latest[name].ahead
  <2>1. CASE H!IsBlind(name) BY <2>1 DEF H!IsBlind, H!AcceptedBlindSpots
  <2>2. CASE ~H!IsBlind(name)
    <3>1. name \in H!Measuring BY <1>1, <2>2 DEF H!Measuring
    <3>2. ASSUME NEW s, ~(H!Tally(s) > 0) PROVE latest[name].status # s
      <4> DEFINE S == {n \in H!Measuring : latest[n].status = s}
      <4>1. S \subseteq H!CheckName BY DEF H!Measuring, H!Records
      <4>2. ~(H!Cardinality(S) > 0) BY <3>2 DEF H!Tally
      <4>3. S = {}
        <5> HIDE DEF S
        <5>q. QED BY <4>1, <4>2, NoneCounted
      <4>q. QED BY <3>1, <4>3
    <3>3. latest[name].status \notin {"breached", "no_data", "error"}
      BY <1>3, <1>4, <1>7, <3>2
    <3>4. latest[name].status = "ok" BY <3>3 DEF HealthIInv, HealthRowOK, H!Verdicts
    <3>q. QED BY <3>4 DEF HealthIInv, HealthRowOK
  <2>q. QED BY <2>1, <2>2
<1>q. QED BY <1>2, <1>5, <1>6, <1>7 DEF H!OkMeansMeasured

\* A summary that says ok or degraded is of an instrumentation that runs and of
\* no stale row; one that says ok has every check measured and sound but for
\* the blind one, and for the proxy's while its last registration is ahead of
\* the clock: for any deployments, readings and order of cycles.
\* Code: instrumentation-health.service.ts summary, resolveStatus, missing
THEOREM OkIsMeasured == ReadSpec => []OkMeansMeasured
<1> DEFINE Inv == topic = "health" => HealthIInv
<1>1. ReadInit => Inv BY HealthInitOK DEF ReadInit
<1>2. Inv /\ [ReadNext]_readVars => Inv'
  <2>1. ASSUME Inv, [ReadNext]_readVars, topic' = "health" PROVE HealthIInv'
    <3>1. topic = "health" /\ [H!Next]_healthVars BY <2>1, OneTopic
    <3>2. HealthIInv BY <2>1, <3>1
    <3>3. [H!Next]_(H!healthVars) BY <3>1 DEF healthVars, H!healthVars
    <3>q. QED BY <3>2, <3>3, HealthNextOK, ReadAssumption
  <2>q. QED BY <2>1
<1>3. Inv => OkMeansMeasured BY SummaryIsMeasured, ReadAssumption DEF OkMeansMeasured
<1> HIDE DEF Inv
<1>q. QED BY <1>1, <1>2, <1>3, PTL DEF ReadSpec, readVars

-----------------------------------------------------------------------------
(* The economy's reports: their rows.                                      *)

LEMMA EconomyCardinality == \A S : E!Cardinality(S) = Cardinality(S)
BY DEF E!Cardinality, Cardinality

LEMMA EconomyFinite == \A S : E!IsFiniteSet(S) <=> IsFiniteSet(S)
BY DEF E!IsFiniteSet, IsFiniteSet

LEMMA SumIsTotal == \A v : E!Sum(v) = TotalOf(v, DOMAIN v)
<1>1. ASSUME NEW v PROVE E!Sum(v) = TotalOf(v, DOMAIN v)
  <2>1. PICK S : S = DOMAIN v OBVIOUS
  <2>2. E!Sum(v) = (CHOOSE f : IsFold(f, v, S))[S]
    BY <2>1 DEF E!Sum, E!MapThenSumSet, E!MapThenFoldSet, IsFold, Picked, Remaining
  <2>q. QED BY <2>1, <2>2, TotalIsChosen
<1>q. QED BY <1>1

BuyersIn(w) == {s.buyer : s \in {s \in E!Counted(sales) : E!Within(s, w)}}

SoldTo(p, w) == {s \in E!Counted(sales) : s.buyer = p /\ E!Within(s, w)}

RowFor(p, w) ==
  [ player |-> p, cents |-> E!Cents(SoldTo(p, w)), sales |-> E!Cardinality(SoldTo(p, w)),
    cohort |-> E!CohortOf(p) ]

\* What the tables hold.
TablesOK ==
  /\ ledger \subseteq Ledger
  /\ sales \subseteq Shop /\ \A s \in sales : s.at <= Max(Days)
  /\ lastSeen \in [Buyers -> Nat \cup {E!Absent}]
  /\ positions \in [Buyers -> E!Position]
  /\ \A p \in Buyers : lastSeen[p] # E!Absent => registered[p] <= Max(Days)

LEMMA SalesFinite ==
  ASSUME E!Settings, TablesOK
  PROVE  /\ IsFiniteSet(sales) /\ sales \subseteq E!Sale
         /\ \A sold \in SUBSET sales :
              /\ IsFiniteSet(sold)
              /\ E!Cents(sold) = TotalOf([s \in sold |-> s.cents], sold)
              /\ E!Cents(sold) \in Nat
              /\ E!Cardinality(sold) = Cardinality(sold) /\ Cardinality(sold) \in Nat
<1>1. IsFiniteSet(sales) /\ sales \subseteq E!Sale
  BY FS_Subset, EconomyFinite DEF E!Settings, TablesOK
<1>2. ASSUME NEW sold \in SUBSET sales
      PROVE  /\ IsFiniteSet(sold)
             /\ E!Cents(sold) = TotalOf([s \in sold |-> s.cents], sold)
             /\ E!Cents(sold) \in Nat
             /\ E!Cardinality(sold) = Cardinality(sold) /\ Cardinality(sold) \in Nat
  <2> DEFINE v == [s \in sold |-> s.cents]
  <2>1. IsFiniteSet(sold) BY <1>1, FS_Subset
  <2>2. Cardinality(sold) \in Nat BY <2>1, FS_CardinalityType
  <2>3. E!Cardinality(sold) = Cardinality(sold) BY EconomyCardinality
  <2>4. \A s \in sold : v[s] \in Nat BY <1>1 DEF E!Sale
  <2>5. DOMAIN v = sold OBVIOUS
  <2>6. E!Cents(sold) = E!Sum(v) BY DEF E!Cents
  <2> HIDE DEF v
  <2>7. E!Cents(sold) = TotalOf(v, sold) BY <2>5, <2>6, SumIsTotal
  <2>8. TotalOf(v, sold) \in Nat BY <2>1, <2>4, TotalNat
  <2>q. QED BY <2>1, <2>2, <2>3, <2>7, <2>8 DEF v
<1>q. QED BY <1>1, <1>2

\* A row for each buyer, and no other.
LEMMA BuyerRowsAre ==
  ASSUME E!Settings, TablesOK, NEW w
  PROVE  /\ BuyersIn(w) \subseteq Buyers /\ IsFiniteSet(BuyersIn(w))
         /\ E!BuyerRows(w) = {RowFor(p, w) : p \in BuyersIn(w)}
         /\ IsFiniteSet(E!BuyerRows(w))
         /\ \A r \in E!BuyerRows(w) : r.player \in BuyersIn(w) /\ r = RowFor(r.player, w)
         /\ \A p : RowFor(p, w).player = p /\ RowFor(p, w).cohort = E!CohortOf(p)
<1>1. BuyersIn(w) \subseteq Buyers BY SalesFinite DEF BuyersIn, E!Counted, E!Sale
<1>2. IsFiniteSet(BuyersIn(w)) BY <1>1, FS_Subset, EconomyFinite DEF E!Settings
<1>3. E!BuyerRows(w) = {RowFor(p, w) : p \in BuyersIn(w)}
  BY DEF E!BuyerRows, RowFor, SoldTo, BuyersIn
<1>4. \A p : RowFor(p, w).player = p /\ RowFor(p, w).cohort = E!CohortOf(p) BY DEF RowFor
<1> DEFINE f == [p \in BuyersIn(w) |-> RowFor(p, w)]
<1>5. Image(f, BuyersIn(w)) = E!BuyerRows(w) BY <1>3 DEF Image
<1> HIDE DEF f
<1>6. IsFiniteSet(E!BuyerRows(w)) BY <1>2, <1>5, ImageIsFinite
<1>q. QED BY <1>1, <1>2, <1>3, <1>4, <1>6

LEMMA MonthIsNat ==
  ASSUME E!Settings, NEW p \in Buyers
  PROVE  /\ registered[p] \in Nat /\ E!Month(registered[p]) \in Nat
         /\ E!Month(registered[p]) <= registered[p]
<1>1. registered[p] \in Nat BY DEF E!Settings
<1>2. DaysPerMonth \in Nat /\ DaysPerMonth > 0 BY DEF E!Settings
<1>3. \A a \in Nat, n \in Nat : n > 0 => (a \div n) \in Nat /\ (a \div n) <= a OBVIOUS
<1>q. QED BY <1>1, <1>2, <1>3 DEF E!Month

\* Only that it is later than every day matters of the end of everything.
LEMMA EverythingEnds == E!Everything.from = 0 /\ E!Everything.to \in Nat
BY SMT DEF E!Everything

LEMMA DaysFinite ==
  ASSUME E!Settings
  PROVE  /\ Days \subseteq Int /\ IsFiniteSet(Days) /\ Days # {}
         /\ E!Min(Days) = Min(Days) /\ Min(Days) \in Days /\ Max(Days) \in Days
         /\ \A d \in Days :
              d \in Nat /\ Min(Days) <= d /\ d <= Max(Days) /\ d <= E!Everything.to
<1>1. PICK n \in Nat : n = E!Everything.to BY EverythingEnds
<1>2. Days \subseteq 0..n /\ Days # {} BY <1>1 DEF E!Settings
<1>3. IsFiniteSet(0..n) BY FS_Interval
<1>4. IsFiniteSet(Days) BY <1>2, <1>3, FS_Subset
<1>5. Days \subseteq Int BY <1>2
<1>6. E!Min(Days) = Min(Days) BY DEF E!Min, Min
<1>7. Min(Days) \in Days /\ \A d \in Days : Min(Days) <= d BY <1>2, <1>4, <1>5, MinIsLeast
<1>8. Max(Days) \in Days /\ \A d \in Days : d <= Max(Days) BY <1>2, <1>4, <1>5, MaxIsGreatest
<1>9. \A d \in Days : d \in Nat /\ d <= n BY <1>2
<1>q. QED BY <1>1, <1>2, <1>4, <1>5, <1>6, <1>7, <1>8, <1>9

Key(r) == <<r.cohort, platformOf[r.player]>>
KeysOf(rows) == {Key(r) : r \in rows}

OfKey(rows, g) == {r \in rows : r.cohort = g[1] /\ platformOf[r.player] = g[2]}

CohortRow(rows, g) ==
  [ cohort |-> g[1], platform |-> g[2], revenue |-> E!TotalCents(OfKey(rows, g)),
    sales |-> E!TotalSales(OfKey(rows, g)), buyers |-> E!Cardinality(OfKey(rows, g)) ]

LEMMA ByCohortIs ==
  ASSUME NEW rows
  PROVE  /\ E!ByCohort(rows) = {CohortRow(rows, g) : g \in KeysOf(rows)}
         /\ \A g : CohortRow(rows, g).cohort = g[1] /\ CohortRow(rows, g).platform = g[2]
         /\ \A g \in KeysOf(rows) : g = <<g[1], g[2]>>
<1>1. E!ByCohort(rows) = {CohortRow(rows, g) : g \in KeysOf(rows)}
  BY DEF E!ByCohort, CohortRow, OfKey, KeysOf, Key
<1>2. \A g : CohortRow(rows, g).cohort = g[1] /\ CohortRow(rows, g).platform = g[2]
  BY DEF CohortRow
<1>3. \A g \in KeysOf(rows) : g = <<g[1], g[2]>> BY DEF KeysOf, Key
<1>q. QED BY <1>1, <1>2, <1>3

\* A cohort has one row, or nobody of it bought.
LEMMA BuyersOfCohort ==
  ASSUME E!Settings, TablesOK, NEW w, NEW rows, rows = E!BuyerRows(w), NEW a, NEW b, NEW X,
         X = {y \in E!ByCohort(rows) : y.cohort = a /\ y.platform = b}
  PROVE  /\ E!Sum([y \in X |-> y.buyers]) = Cardinality(OfKey(rows, <<a, b>>))
         /\ IsFiniteSet(OfKey(rows, <<a, b>>))
<1> DEFINE mine == OfKey(rows, <<a, b>>)
           z == CohortRow(rows, <<a, b>>)
           v == [y \in X |-> y.buyers]
<1>1. IsFiniteSet(rows) BY BuyerRowsAre
<1>2. mine \subseteq rows BY DEF OfKey
<1>3. IsFiniteSet(mine) /\ Cardinality(mine) \in Nat BY <1>1, <1>2, FS_Subset, FS_CardinalityType
<1>4. z.buyers = Cardinality(mine) BY EconomyCardinality DEF CohortRow
<1>5. \A y \in X : y = z
  <2>1. TAKE y \in X
  <2>2. PICK g \in KeysOf(rows) : y = CohortRow(rows, g) BY ByCohortIs
  <2>3. g[1] = a /\ g[2] = b BY <2>1, <2>2, ByCohortIs
  <2>4. g = <<a, b>> BY <2>3, ByCohortIs
  <2>q. QED BY <2>2, <2>4
<1>6. DOMAIN v = X OBVIOUS
<1>7. \A y \in X : v[y] = y.buyers OBVIOUS
<1>8. E!Sum(v) = TotalOf(v, X) BY <1>6, SumIsTotal
<1>9. CASE <<a, b>> \in KeysOf(rows)
  <2>1. z \in E!ByCohort(rows) BY <1>9, ByCohortIs
  <2>2. z.cohort = a /\ z.platform = b BY ByCohortIs
  <2>3. z \in X BY <2>1, <2>2
  <2>4. v[z] = Cardinality(mine) BY <1>4, <1>7, <2>3
  <2>5. X = {z} BY <1>5, <2>3
  <2> HIDE DEF v, z, mine
  <2>6. TotalOf(v, {z}) = v[z] BY <1>3, <2>4, TotalOfOne
  <2>q. QED BY <1>3, <1>8, <2>4, <2>5, <2>6 DEF v, mine
<1>10. CASE <<a, b>> \notin KeysOf(rows)
  <2>1. X = {}
    <3>1. ASSUME NEW y \in X PROVE FALSE
      <4>1. PICK g \in KeysOf(rows) : y = CohortRow(rows, g) BY ByCohortIs
      <4>2. g[1] = a /\ g[2] = b BY <3>1, <4>1, ByCohortIs
      <4>q. QED BY <1>10, <4>1, <4>2, ByCohortIs
    <3>q. QED BY <3>1
  <2>2. mine = {} BY <1>10 DEF KeysOf, Key, OfKey
  <2>3. TotalOf(v, X) = 0
    <3> HIDE DEF v
    <3>q. QED BY <2>1, TotalOfNone
  <2>4. Cardinality(mine) = 0 BY <2>2, FS_EmptySet
  <2>q. QED BY <1>3, <1>8, <2>3, <2>4
<1>q. QED BY <1>9, <1>10

\* Some players, each of whom has a row.
Found(S) == S # {} /\ S \subseteq Buyers /\ \A p \in S : lastSeen[p] # E!Absent

\* The players of a platform who are not among them, and the rows with no cohort.
Others(S, f) == {p \in Buyers \ S : platformOf[p] = f}
Unfounded(w, f) ==
  {x \in E!ByCohort(E!BuyerRows(w)) : x.platform = f /\ x.cohort = E!UnknownCohort}

LEMMA RevenueIsFounded ==
  ASSUME E!Settings, TablesOK, NEW S, Found(S), NEW w, NEW f, NEW X, X = Unfounded(w, f)
  PROVE  E!Sum([x \in X |-> x.buyers]) <= E!Cardinality(Others(S, f))
<1> DEFINE rows == E!BuyerRows(w)
           mine == OfKey(rows, <<E!UnknownCohort, f>>)
           T == Others(S, f)
           h == [p \in T |-> RowFor(p, w)]
<1>1. X = {x \in E!ByCohort(rows) : x.cohort = E!UnknownCohort /\ x.platform = f}
  BY DEF Unfounded
<1>2. E!Sum([x \in X |-> x.buyers]) = Cardinality(mine) /\ IsFiniteSet(mine)
  BY <1>1, BuyersOfCohort
<1>3. IsFiniteSet(T) BY FS_Subset, EconomyFinite DEF E!Settings, Others
<1>4. ASSUME NEW r \in mine PROVE r \in Image(h, T)
  <2>1. r \in rows /\ r.cohort = E!UnknownCohort /\ platformOf[r.player] = f BY DEF OfKey
  <2>2. PICK p \in BuyersIn(w) : r = RowFor(p, w) BY <2>1, BuyerRowsAre
  <2>3. p \in Buyers /\ r.player = p /\ r.cohort = E!CohortOf(p) BY <2>2, BuyerRowsAre
  <2>4. lastSeen[p] = E!Absent
    <3>1. E!Month(registered[p]) # E!UnknownCohort BY <2>3, MonthIsNat DEF E!UnknownCohort
    <3>q. QED BY <2>1, <2>3, <3>1 DEF E!CohortOf
  <2>5. p \notin S BY <2>4 DEF Found
  <2>6. p \in T /\ h[p] = r BY <2>1, <2>2, <2>3, <2>5 DEF Others
  <2>q. QED BY <2>6 DEF Image
<1>5. mine \subseteq Image(h, T) BY <1>4
<1> HIDE DEF mine, h, T
<1>6. IsFiniteSet(Image(h, T)) /\ Cardinality(Image(h, T)) <= Cardinality(T)
  BY <1>3, ImageIsFinite
<1>7. Cardinality(mine) <= Cardinality(Image(h, T)) BY <1>5, <1>6, FS_Subset
<1>8. /\ Cardinality(mine) \in Nat /\ Cardinality(T) \in Nat
      /\ Cardinality(Image(h, T)) \in Nat
  BY <1>2, <1>3, <1>6, FS_CardinalityType
<1>9. Cardinality(mine) <= Cardinality(T) BY <1>6, <1>7, <1>8
<1>10. E!Cardinality(T) = Cardinality(T) BY EconomyCardinality
<1>q. QED BY <1>2, <1>9, <1>10 DEF T

MonthOf(p) == <<E!Month(registered[p]), platformOf[p]>>
MonthsOf(rows) == {MonthOf(p) : p \in DOMAIN rows}
OfMonth(rows, g) ==
  {p \in DOMAIN rows : E!Month(registered[p]) = g[1] /\ platformOf[p] = g[2]}
BeforeOf(rows, g) == {p \in OfMonth(rows, g) : rows[p].bought /\ rows[p].days < 0}
DaysOf(rows, g) ==
  [p \in {p \in OfMonth(rows, g) : rows[p].bought} \ BeforeOf(rows, g) |-> rows[p].days]
SpendRow(rows, g) ==
  [ cohort |-> g[1], platform |-> g[2], cohortSize |-> E!Cardinality(OfMonth(rows, g)),
    spenders |-> E!Cardinality(E!Spenders(rows, OfMonth(rows, g))),
    everSpent |-> E!CountShare(E!Cardinality(E!Spenders(rows, OfMonth(rows, g))),
                               E!Cardinality(OfMonth(rows, g))),
    median |-> E!Percentile(DaysOf(rows, g), 500), p90 |-> E!Percentile(DaysOf(rows, g), 900),
    beforeRegistration |-> E!Cardinality(BeforeOf(rows, g)) ]

LEMMA FirstSpendsAre ==
  ASSUME NEW rows
  PROVE  /\ E!CohortFirstSpends(rows) = {SpendRow(rows, g) : g \in MonthsOf(rows)}
         /\ \A g : /\ SpendRow(rows, g).cohort = g[1] /\ SpendRow(rows, g).platform = g[2]
                   /\ SpendRow(rows, g).cohortSize = E!Cardinality(OfMonth(rows, g))
         /\ \A g \in MonthsOf(rows) : g = <<g[1], g[2]>>
<1>1. E!CohortFirstSpends(rows) = {SpendRow(rows, g) : g \in MonthsOf(rows)}
  BY DEF E!CohortFirstSpends, SpendRow, OfMonth, BeforeOf, DaysOf, MonthsOf, MonthOf
<1>2. \A g : /\ SpendRow(rows, g).cohort = g[1] /\ SpendRow(rows, g).platform = g[2]
             /\ SpendRow(rows, g).cohortSize = E!Cardinality(OfMonth(rows, g))
  BY DEF SpendRow
<1>3. \A g \in MonthsOf(rows) : g = <<g[1], g[2]>> BY DEF MonthsOf, MonthOf
<1>q. QED BY <1>1, <1>2, <1>3

\* The months of everything hold every month of a player known.
LEMMA EveryMonth ==
  ASSUME E!Settings, NEW n \in Nat, n <= E!Everything.to
  PROVE  E!Month(E!Everything.from) <= E!Month(n) /\ E!Month(n) <= E!Month(E!Everything.to)
<1>1. DaysPerMonth \in Nat /\ DaysPerMonth > 0 BY DEF E!Settings
<1>2. E!Everything.from \in Nat /\ E!Everything.from <= n BY EverythingEnds
<1>q. QED BY <1>1, <1>2, EverythingEnds, DivGrows DEF E!Month

KnownOf(rows, f) == {p \in DOMAIN rows : platformOf[p] = f}

\* The cohorts of a platform share out whoever is in the rows.
LEMMA SizesAreWhole ==
  ASSUME E!Settings, NEW rows, DOMAIN rows \subseteq Buyers, NEW f, NEW X,
         X = {x \in E!CohortFirstSpends(rows) : x.platform = f}
  PROVE  /\ E!Sum([x \in X |-> x.cohortSize]) = Cardinality(KnownOf(rows, f))
         /\ IsFiniteSet(KnownOf(rows, f))
<1> DEFINE A == KnownOf(rows, f)
           c == [p \in A |-> MonthOf(p)]
           G == {g \in MonthsOf(rows) : g[2] = f}
           rec == [g \in G |-> SpendRow(rows, g)]
           u == [x \in X |-> x.cohortSize]
<1>1. IsFiniteSet(A) BY FS_Subset, EconomyFinite DEF E!Settings, KnownOf
<1>2. \A p \in A : c[p] \in G BY DEF MonthsOf, MonthOf, KnownOf
<1>3. \A g \in G : \E p \in A : c[p] = g BY DEF MonthsOf, MonthOf, KnownOf
<1>4. G = Image(c, A) BY <1>2, <1>3 DEF Image
<1>5. \A g \in G : rec[g] = SpendRow(rows, g) OBVIOUS
<1>6. \A g, k \in G : rec[g] = rec[k] => g = k BY <1>5, FirstSpendsAre
<1>7. X = Image(rec, G)
  <2>1. ASSUME NEW x \in X PROVE x \in Image(rec, G)
    <3>1. PICK g \in MonthsOf(rows) : x = SpendRow(rows, g) BY FirstSpendsAre
    <3>2. g \in G BY <3>1, FirstSpendsAre
    <3>q. QED BY <3>1, <3>2, <1>5 DEF Image
  <2>2. ASSUME NEW x \in Image(rec, G) PROVE x \in X
    <3>1. PICK g \in G : x = rec[g] BY DEF Image
    <3>q. QED BY <3>1, <1>5, FirstSpendsAre
  <2>q. QED BY <2>1, <2>2
<1>8. ASSUME NEW g \in G PROVE u[rec[g]] = Cardinality(ClassOf(A, c, g))
  <2>1. rec[g] \in X BY <1>7 DEF Image
  <2>2. u[rec[g]] = SpendRow(rows, g).cohortSize BY <1>5, <2>1
  <2>3. u[rec[g]] = Cardinality(OfMonth(rows, g)) BY <2>2, FirstSpendsAre, EconomyCardinality
  <2>4. g = <<g[1], g[2]>> /\ g[2] = f BY FirstSpendsAre
  <2>5. ClassOf(A, c, g) = OfMonth(rows, g)
    <3>1. \A p \in A : c[p] = g <=> E!Month(registered[p]) = g[1] /\ platformOf[p] = g[2]
      BY <2>4 DEF MonthOf
    <3>q. QED BY <2>4, <3>1 DEF ClassOf, OfMonth, KnownOf
  <2>q. QED BY <2>3, <2>5
<1>9. DOMAIN u = X OBVIOUS
<1>10. E!Sum(u) = TotalOf(u, X) BY <1>9, SumIsTotal
<1> HIDE DEF A, c, G, rec, u
<1>11. IsFiniteSet(G) BY <1>1, <1>4, ImageIsFinite
<1>12. TotalOf(u, Image(rec, G)) = Cardinality(A) BY <1>1, <1>2, <1>6, <1>8, <1>11, SplitCounts
<1>q. QED BY <1>1, <1>7, <1>10, <1>12 DEF A, u

LEMMA FirstSpendIsFounded ==
  ASSUME E!Settings, TablesOK, NEW S, Found(S), NEW rows,
         rows = E!FirstSpendRows(E!Month(E!Everything.from), E!Month(E!Everything.to)),
         NEW f, NEW X, X = {x \in E!CohortFirstSpends(rows) : x.platform = f}
  PROVE  E!Cardinality({p \in S : platformOf[p] = f})
           <= E!Sum([x \in X |-> x.cohortSize])
<1> DEFINE F == {p \in S : platformOf[p] = f}
<1>1. DOMAIN rows = {p \in Buyers :
        /\ lastSeen[p] # E!Absent
        /\ E!Month(E!Everything.from) <= E!Month(registered[p])
        /\ E!Month(registered[p]) <= E!Month(E!Everything.to)}
  BY DEF E!FirstSpendRows
<1>2. F \subseteq KnownOf(rows, f)
  <2>1. ASSUME NEW p \in F PROVE p \in KnownOf(rows, f)
    <3>1. p \in Buyers /\ lastSeen[p] # E!Absent BY DEF Found
    <3>2. registered[p] \in Nat /\ registered[p] <= Max(Days)
      BY <3>1, MonthIsNat DEF TablesOK
    <3>3. Max(Days) \in Nat /\ Max(Days) <= E!Everything.to /\ E!Everything.to \in Nat
      BY DaysFinite, EverythingEnds
    <3>4. registered[p] <= E!Everything.to BY <3>2, <3>3
    <3>5. platformOf[p] = f OBVIOUS
    <3>q. QED BY <1>1, <3>1, <3>2, <3>4, <3>5, EveryMonth DEF KnownOf
  <2>q. QED BY <2>1
<1>3. DOMAIN rows \subseteq Buyers BY <1>1
<1>4. /\ E!Sum([x \in X |-> x.cohortSize]) = Cardinality(KnownOf(rows, f))
      /\ IsFiniteSet(KnownOf(rows, f))
  BY <1>3, SizesAreWhole
<1> HIDE DEF F
<1>5. Cardinality(F) <= Cardinality(KnownOf(rows, f)) BY <1>2, <1>4, FS_Subset
<1>6. E!Cardinality(F) = Cardinality(F) BY EconomyCardinality
<1>q. QED BY <1>4, <1>5, <1>6 DEF F

EconomyIInv ==
  /\ day \in Days /\ ledger \subseteq Ledger
  /\ sales \subseteq Shop /\ \A s \in sales : s.at <= day
  /\ lastSeen \in [Buyers -> Nat \cup {E!Absent}]
  /\ \A p \in Buyers : lastSeen[p] # E!Absent => registered[p] <= day
  /\ positions \in [Buyers -> E!Position]
  /\ provenance \in [E!Copies -> E!States]
  /\ provenance["dimension"] # "none" => Found(wrote)
  /\ \/ asking = E!Idle
     \/ /\ asking.endpoint \in E!Endpoints
        /\ asking.endpoint \in {"revenue", "first-spend"} /\ asking.source = "ok"
             => Found(asking.asOf)
  /\ E!CohortsAreFounded

LEMMA EconomyInitOK == ASSUME E!Settings, E!Init PROVE EconomyIInv
<1>1. day \in Days BY DaysFinite DEF E!Init
<1>2. sales = {} /\ ledger = {} BY DEF E!Init
<1>3. /\ lastSeen \in [Buyers -> Nat \cup {E!Absent}]
      /\ \A p \in Buyers : lastSeen[p] = E!Absent
  BY DEF E!Init
<1>4. positions \in [Buyers -> E!Position] BY DEF E!Init, E!NoProgress, E!Position
<1>5. provenance \in [E!Copies -> E!States] /\ provenance["dimension"] = "none"
  BY DEF E!Init, E!Copies, E!States
<1>6. asking = E!Idle BY DEF E!Init
<1>7. E!CohortsAreFounded BY DEF E!Init, E!NoAnswer, E!CohortsAreFounded
<1>q. QED BY <1>1, <1>2, <1>3, <1>4, <1>5, <1>6, <1>7 DEF EconomyIInv

LEMMA TablesHold == ASSUME E!Settings, EconomyIInv PROVE TablesOK
<1>1. ASSUME NEW s \in sales PROVE s.at <= Max(Days)
  <2>1. s.at \in Nat BY DEF EconomyIInv, E!Settings, E!Sale
  <2>2. day \in Nat /\ Max(Days) \in Nat /\ day <= Max(Days) BY DaysFinite DEF EconomyIInv
  <2>3. s.at <= day BY DEF EconomyIInv
  <2>q. QED BY <2>1, <2>2, <2>3
<1>2. ASSUME NEW p \in Buyers, lastSeen[p] # E!Absent PROVE registered[p] <= Max(Days)
  <2>1. registered[p] \in Nat BY MonthIsNat
  <2>2. day \in Nat /\ Max(Days) \in Nat /\ day <= Max(Days) BY DaysFinite DEF EconomyIInv
  <2>3. registered[p] <= day BY <1>2 DEF EconomyIInv
  <2>q. QED BY <2>1, <2>2, <2>3
<1>q. QED BY <1>1, <1>2 DEF EconomyIInv, TablesOK

\* A night writes those it found, and nobody loses the row of an earlier one.
LEMMA SyncFills ==
  ASSUME E!Settings, EconomyIInv, NEW found \in SUBSET Buyers, NEW seen,
         E!DimensionSynced(found, seen)
  PROVE  /\ lastSeen' \in [Buyers -> Nat \cup {E!Absent}]
         /\ \A p \in Buyers : p \in found \/ lastSeen[p] # E!Absent => lastSeen'[p] # E!Absent
         /\ \A p \in Buyers : lastSeen'[p] # E!Absent => registered[p] <= day
<1>1. /\ lastSeen' = [p \in Buyers |->
           IF p \notin found THEN lastSeen[p]
           ELSE IF p \in seen THEN day ELSE E!Max({lastSeen[p], registered[p]})]
      /\ \A p \in found : registered[p] <= day
  BY DEF E!DimensionSynced
<1>2. day \in Nat BY DaysFinite DEF EconomyIInv
<1>3. ASSUME NEW p \in Buyers
      PROVE  /\ lastSeen[p] \in Nat \cup {E!Absent}
             /\ registered[p] \in Nat
             /\ E!Max({lastSeen[p], registered[p]}) \in Nat
  <2>1. lastSeen[p] \in Nat \cup {E!Absent} /\ lastSeen[p] \in Int
    BY DEF EconomyIInv, E!Absent
  <2>2. registered[p] \in Nat BY MonthIsNat
  <2>3. PICK S : S = {lastSeen[p], registered[p]} OBVIOUS
  <2>4. S \subseteq Int /\ S # {} /\ registered[p] \in S BY <2>1, <2>2, <2>3
  <2>5. IsFiniteSet({lastSeen[p]}) /\ IsFiniteSet({lastSeen[p]} \cup {registered[p]})
    <3>1. PICK a, b : a = lastSeen[p] /\ b = registered[p] OBVIOUS
    <3>2. IsFiniteSet({a}) BY FS_Singleton
    <3>3. IsFiniteSet({a} \cup {b}) BY <3>2, FS_AddElement
    <3>q. QED BY <3>1, <3>2, <3>3
  <2>6. S = {lastSeen[p]} \cup {registered[p]} BY <2>3
  <2>7. IsFiniteSet(S) BY <2>5, <2>6
  <2>8. Max(S) \in S /\ registered[p] <= Max(S) BY <2>4, <2>7, MaxIsGreatest
  <2>9. E!Max(S) = Max(S) BY DEF E!Max, Max
  <2>q. QED BY <2>1, <2>2, <2>3, <2>4, <2>8, <2>9
<1>4. lastSeen' \in [Buyers -> Nat \cup {E!Absent}] BY <1>1, <1>2, <1>3
<1>5. ASSUME NEW p \in Buyers, p \in found \/ lastSeen[p] # E!Absent
      PROVE  lastSeen'[p] # E!Absent
  <2>1. CASE p \in found
    <3>1. lastSeen'[p] \in Nat BY <1>1, <1>2, <1>3, <2>1
    <3>q. QED BY <3>1 DEF E!Absent
  <2>2. CASE p \notin found BY <1>1, <1>5, <2>2
  <2>q. QED BY <2>1, <2>2
<1>6. ASSUME NEW p \in Buyers, lastSeen'[p] # E!Absent PROVE registered[p] <= day
  <2>1. CASE p \in found BY <1>1, <2>1
  <2>2. CASE p \notin found
    <3>1. lastSeen[p] # E!Absent BY <1>1, <1>6, <2>2
    <3>q. QED BY <3>1 DEF EconomyIInv
  <2>q. QED BY <2>1, <2>2
<1>q. QED BY <1>4, <1>5, <1>6

\* A report asked of a dimension somebody filled.
LEMMA ReportsAreFounded ==
  ASSUME E!Settings, EconomyIInv, NEW limit, NEW fails,
         E!Answer(E!Everything, limit, fails)
  PROVE  E!CohortsAreFounded'
<1>0. TablesOK BY TablesHold
<1>1. PICK S : S = asking.asOf OBVIOUS
<1>2. /\ asking # E!Idle /\ answer' = E!Reply(asking.endpoint, E!Everything, limit, fails)
      /\ asOf' = S
  BY <1>1 DEF E!Answer
<1>3. /\ asking.endpoint \in E!Endpoints
      /\ asking.endpoint \in {"revenue", "first-spend"} /\ asking.source = "ok" => Found(S)
  BY <1>1, <1>2 DEF EconomyIInv
<1>4. CASE asking.endpoint = "revenue"
  <2>1. answer' = E!Revenue(E!Everything, asking.source) BY <1>2, <1>4 DEF E!Reply
  <2>2. answer'.report = "revenue" BY <2>1 DEF E!Revenue
  <2>3. ASSUME answer'.unavailable = "nothing"
        PROVE  Found(S) /\ answer'.byCohort = E!ByCohort(E!BuyerRows(E!Everything))
    <3>1. asking.source = "ok" BY <2>1, <2>3 DEF E!Revenue
    <3>2. answer'.byCohort = E!ByCohort(E!BuyerRows(E!Everything)) BY <2>1, <3>1 DEF E!Revenue
    <3>q. QED BY <1>3, <1>4, <3>1, <3>2
  <2>4. ASSUME answer'.unavailable = "nothing", NEW f \in Platforms
        PROVE  E!Sum([x \in {x \in answer'.byCohort :
                              x.platform = f /\ x.cohort = E!UnknownCohort} |-> x.buyers])
                 <= E!Cardinality({p \in Buyers \ S : platformOf[p] = f})
    <3>1. PICK X : X = {x \in answer'.byCohort : x.platform = f /\ x.cohort = E!UnknownCohort}
      OBVIOUS
    <3>2. PICK w : w = E!Everything OBVIOUS
    <3>3. /\ E!Settings /\ TablesOK /\ Found(S)
          /\ X = Unfounded(w, f)
      BY <1>0, <2>3, <2>4, <3>1, <3>2 DEF Unfounded
    <3>4. E!Sum([x \in X |-> x.buyers]) <= E!Cardinality(Others(S, f))
      BY <3>3, RevenueIsFounded
    <3>q. QED BY <3>1, <3>4 DEF Others
  <2>5. answer'.unavailable = "nothing" => S # {} BY <2>3 DEF Found
  <2>q. QED BY <1>2, <2>2, <2>4, <2>5 DEF E!CohortsAreFounded
<1>5. CASE asking.endpoint = "first-spend"
  <2>0. PICK rows :
          rows = E!FirstSpendRows(E!Month(E!Everything.from), E!Month(E!Everything.to))
    OBVIOUS
  <2>1. answer' = E!FirstSpend(E!Month(E!Everything.from), E!Month(E!Everything.to),
                               asking.source, asking.position)
    BY <1>2, <1>5 DEF E!Reply
  <2>2. answer'.report = "first-spend" BY <2>1 DEF E!FirstSpend
  <2>3. ASSUME answer'.unavailable = "nothing"
        PROVE  Found(S) /\ answer'.byCohort = E!CohortFirstSpends(rows)
    <3>1. asking.source = "ok" BY <2>1, <2>3 DEF E!FirstSpend
    <3>2. answer'.byCohort = E!CohortFirstSpends(rows) BY <2>0, <2>1, <3>1 DEF E!FirstSpend
    <3>q. QED BY <1>3, <1>5, <3>1, <3>2
  <2>4. ASSUME answer'.unavailable = "nothing", NEW f \in Platforms
        PROVE  E!Cardinality({p \in S : platformOf[p] = f})
                 <= E!Sum([x \in {x \in answer'.byCohort : x.platform = f} |-> x.cohortSize])
    <3>1. PICK X : X = {x \in answer'.byCohort : x.platform = f} OBVIOUS
    <3>2. X = {x \in E!CohortFirstSpends(rows) : x.platform = f} BY <2>3, <2>4, <3>1
    <3>3. Found(S) BY <2>3, <2>4
    <3>4. E!Cardinality({p \in S : platformOf[p] = f})
            <= E!Sum([x \in X |-> x.cohortSize])
      BY <1>0, <2>0, <3>2, <3>3, FirstSpendIsFounded
    <3>q. QED BY <3>1, <3>4
  <2>5. answer'.unavailable = "nothing" => S # {} BY <2>3 DEF Found
  <2>q. QED BY <1>2, <2>2, <2>4, <2>5 DEF E!CohortsAreFounded
<1>6. CASE asking.endpoint \notin {"revenue", "first-spend"}
  <2>1. asking.endpoint \in {"social-contact", "feed", "account-creations"}
    BY <1>3, <1>6 DEF E!Endpoints
  <2>2. answer'.report \in {"social-contact", "feed", "account-creations"}
    <3>1. CASE asking.endpoint = "social-contact" BY <1>2, <3>1 DEF E!Reply, E!Contact
    <3>2. CASE asking.endpoint = "feed" BY <1>2, <3>2 DEF E!Reply, E!Feed
    <3>3. CASE asking.endpoint = "account-creations"
      BY <1>2, <3>3 DEF E!Reply, E!AccountCreations
    <3>q. QED BY <2>1, <3>1, <3>2, <3>3
  <2>q. QED BY <2>2 DEF E!CohortsAreFounded
<1>q. QED BY <1>4, <1>5, <1>6

LEMMA EconomyNextOK ==
  ASSUME E!Settings, EconomyIInv, [E!Next]_(E!vars) PROVE EconomyIInv'
<1> DEFINE Asked == \/ asking = E!Idle
                    \/ /\ asking.endpoint \in E!Endpoints
                       /\ asking.endpoint \in {"revenue", "first-spend"} /\ asking.source = "ok"
                            => Found(asking.asOf)
           Old == /\ day \in Days /\ ledger \subseteq Ledger
                  /\ sales \subseteq Shop /\ \A s \in sales : s.at <= day
                  /\ lastSeen \in [Buyers -> Nat \cup {E!Absent}]
                  /\ \A p \in Buyers : lastSeen[p] # E!Absent => registered[p] <= day
                  /\ positions \in [Buyers -> E!Position]
                  /\ provenance \in [E!Copies -> E!States]
                  /\ provenance["dimension"] # "none" => Found(wrote)
                  /\ Asked /\ E!CohortsAreFounded
<1>0. Old BY DEF EconomyIInv
<1>1. ASSUME answer' = answer, asOf' = asOf PROVE E!CohortsAreFounded'
  BY <1>0, <1>1 DEF E!CohortsAreFounded
<1>2. ASSUME lastSeen' = lastSeen
      PROVE  /\ wrote' = wrote => Found(wrote)' = Found(wrote)
             /\ asking' = asking => Found(asking.asOf)' = Found(asking.asOf)
  BY <1>2 DEF Found
<1>3. ASSUME asking' = asking, Found(asking.asOf) => Found(asking.asOf)' PROVE Asked'
  BY <1>0, <1>3
<1>4. ASSUME NEW s \in Shop, E!Sold(s) PROVE EconomyIInv'
  BY <1>0, <1>1, <1>2, <1>3, <1>4 DEF E!Sold, E!Write, EconomyIInv
<1>5. ASSUME NEW found \in SUBSET Buyers, NEW seen \in SUBSET Buyers,
             E!DimensionSynced(found, seen)
      PROVE  EconomyIInv'
  <2>1. /\ UNCHANGED <<day, sales, ledger, positions, asking, answer, asOf>>
        /\ provenance' = [provenance EXCEPT !["dimension"] = "ok"]
        /\ wrote' = found /\ found # {}
    BY <1>5 DEF E!DimensionSynced, E!Write
  <2>2. /\ lastSeen' \in [Buyers -> Nat \cup {E!Absent}]
        /\ \A p \in Buyers : p \in found \/ lastSeen[p] # E!Absent => lastSeen'[p] # E!Absent
        /\ \A p \in Buyers : lastSeen'[p] # E!Absent => registered[p] <= day
    BY <1>5, SyncFills
  <2>3. provenance' \in [E!Copies -> E!States] BY <1>0, <2>1 DEF E!States
  <2>4. Found(wrote)' BY <2>1, <2>2 DEF Found
  <2>5. Found(asking.asOf) => Found(asking.asOf)' BY <2>1, <2>2 DEF Found
  <2>6. Asked' BY <1>3, <2>1, <2>5
  <2>7. E!CohortsAreFounded' BY <1>1, <2>1
  <2>q. QED BY <1>0, <2>1, <2>2, <2>3, <2>4, <2>6, <2>7 DEF EconomyIInv
<1>6. ASSUME NEW rows \in SUBSET Ledger, E!PaymentsSynced(rows) PROVE EconomyIInv'
  <2>1. /\ UNCHANGED <<day, sales, lastSeen, positions, asking, answer, wrote, asOf>>
        /\ ledger' = ledger \cup rows
        /\ provenance' = [provenance EXCEPT !["payments"] = "ok"]
    BY <1>6 DEF E!PaymentsSynced, E!Write
  <2>2. provenance' \in [E!Copies -> E!States] /\ provenance'["dimension"] = provenance["dimension"]
    BY <1>0, <2>1 DEF E!States, E!Copies
  <2>q. QED BY <1>0, <1>1, <1>2, <1>3, <2>1, <2>2 DEF EconomyIInv
<1>7. ASSUME NEW found \in Progress, E!TutorialSynced(found) PROVE EconomyIInv'
  <2>1. /\ UNCHANGED <<day, sales, ledger, lastSeen, asking, answer, wrote, asOf>>
        /\ positions' = found
        /\ provenance' = [provenance EXCEPT !["tutorial"] = "ok"]
    BY <1>7 DEF E!TutorialSynced, E!Write
  <2>2. provenance' \in [E!Copies -> E!States] /\ provenance'["dimension"] = provenance["dimension"]
    BY <1>0, <2>1 DEF E!States, E!Copies
  <2>3. positions' \in [Buyers -> E!Position] BY <2>1 DEF E!Settings
  <2>q. QED BY <1>0, <1>1, <1>2, <1>3, <2>1, <2>2, <2>3 DEF EconomyIInv
<1>8. ASSUME E!TutorialSyncedWithoutPositions PROVE EconomyIInv'
  <2>1. /\ UNCHANGED <<day, sales, ledger, lastSeen, positions, asking, answer, wrote, asOf>>
        /\ provenance' = [provenance EXCEPT !["tutorial"] = "switch_off"]
    BY <1>8 DEF E!TutorialSyncedWithoutPositions, E!Write
  <2>2. provenance' \in [E!Copies -> E!States] /\ provenance'["dimension"] = provenance["dimension"]
    BY <1>0, <2>1 DEF E!States, E!Copies
  <2>q. QED BY <1>0, <1>1, <1>2, <1>3, <2>1, <2>2 DEF EconomyIInv
<1>9. ASSUME E!DayPasses PROVE EconomyIInv'
  <2>1. /\ UNCHANGED <<sales, ledger, lastSeen, positions, provenance, asking, answer, wrote, asOf>>
        /\ day' \in Days /\ day < day'
    BY <1>9 DEF E!DayPasses, E!tables
  <2>2. ASSUME NEW s \in sales PROVE s.at <= day'
    <3>1. s.at \in Nat BY <1>0 DEF E!Settings, E!Sale
    <3>2. day \in Nat /\ day' \in Nat BY <1>0, <2>1, DaysFinite
    <3>q. QED BY <1>0, <2>1, <3>1, <3>2
  <2>3. ASSUME NEW p \in Buyers, lastSeen[p] # E!Absent PROVE registered[p] <= day'
    <3>1. registered[p] \in Nat BY MonthIsNat
    <3>2. day \in Nat /\ day' \in Nat BY <1>0, <2>1, DaysFinite
    <3>q. QED BY <1>0, <2>1, <2>3, <3>1, <3>2
  <2>q. QED BY <1>0, <1>1, <1>2, <1>3, <2>1, <2>2, <2>3 DEF EconomyIInv
<1>10. ASSUME NEW e \in E!Endpoints, NEW failing, E!Ask(e, failing) PROVE EconomyIInv'
  <2>1. /\ UNCHANGED <<day, sales, ledger, lastSeen, positions, provenance, answer, wrote, asOf>>
        /\ asking' = [ endpoint |-> e, source |-> E!StateOf(E!Needs[e], failing),
                       asOf |-> IF /\ "dimension" \in E!Needs[e]
                                   /\ E!StateOf(E!Needs[e], failing) = "ok" THEN wrote ELSE {},
                       tutorial |-> E!TutorialState(failing), position |-> E!NoPosition ]
    BY <1>10 DEF E!Ask, E!tables
  <2>2. /\ asking'.endpoint = e /\ asking'.source = E!StateOf(E!Needs[e], failing)
        /\ "dimension" \in E!Needs[e] /\ asking'.source = "ok" => asking'.asOf = wrote
    BY <2>1
  <2>3. ASSUME e \in {"revenue", "first-spend"}, asking'.source = "ok"
        PROVE  Found(asking.asOf)'
    <3>1. E!Needs[e] = {"dimension"} BY <2>3 DEF E!Needs
    <3>2. E!StateOf({"dimension"}, failing) = "ok" BY <2>2, <2>3, <3>1
    <3>3. provenance["dimension"] # "none" BY <3>2 DEF E!StateOf
    <3>4. asking'.asOf = wrote BY <2>2, <2>3, <3>1
    <3>5. Found(wrote) BY <1>0, <3>3
    <3>q. QED BY <2>1, <3>4, <3>5 DEF Found
  <2>q. QED BY <1>0, <1>1, <1>2, <2>1, <2>2, <2>3 DEF EconomyIInv
<1>11. ASSUME E!ReadPositions PROVE EconomyIInv'
  <2>1. /\ UNCHANGED <<day, sales, ledger, lastSeen, positions, provenance, answer, wrote, asOf>>
        /\ asking.endpoint = "first-spend"
        /\ asking' = [asking EXCEPT !.tutorial = "none",
                        !.position = E!FunnelPosition(asking.tutorial, E!PositionRows)]
    BY <1>11 DEF E!ReadPositions, E!tables
  <2>2. /\ asking'.endpoint = asking.endpoint /\ asking'.source = asking.source
        /\ asking'.asOf = asking.asOf
    <3>1. PICK x : x = E!FunnelPosition(asking.tutorial, E!PositionRows) OBVIOUS
    <3>2. asking' = [asking EXCEPT !.tutorial = "none", !.position = x] BY <2>1, <3>1
    <3>q. QED BY <3>2
  <2>3. asking # E!Idle BY <2>1 DEF E!Idle
  <2>4. Found(asking.asOf) => Found(asking.asOf)' BY <2>1, <2>2 DEF Found
  <2>q. QED BY <1>0, <1>1, <1>2, <2>1, <2>2, <2>3, <2>4 DEF EconomyIInv
<1>12. ASSUME NEW limit, NEW fails, E!Answer(E!Everything, limit, fails) PROVE EconomyIInv'
  <2>1. UNCHANGED <<day, sales, ledger, lastSeen, positions, provenance, wrote>> /\ asking' = E!Idle
    BY <1>12 DEF E!Answer, E!tables
  <2>2. E!CohortsAreFounded' BY <1>12, ReportsAreFounded
  <2>q. QED BY <1>0, <1>2, <2>1, <2>2 DEF EconomyIInv
<1>13. ASSUME E!RequestFails PROVE EconomyIInv'
  <2>1. /\ UNCHANGED <<day, sales, ledger, lastSeen, positions, provenance, answer, wrote, asOf>>
        /\ asking' = E!Idle
    BY <1>13 DEF E!RequestFails, E!tables
  <2>q. QED BY <1>0, <1>1, <1>2, <2>1 DEF EconomyIInv
<1>14. ASSUME UNCHANGED E!vars PROVE EconomyIInv'
  <2>1. UNCHANGED <<day, sales, ledger, lastSeen, positions, provenance, answer, asking, wrote, asOf>>
    BY <1>14 DEF E!vars, E!tables
  <2>q. QED BY <1>0, <1>1, <1>2, <1>3, <2>1 DEF EconomyIInv
<1>q. QED BY <1>4, <1>5, <1>6, <1>7, <1>8, <1>9, <1>10, <1>11, <1>12, <1>13, <1>14 DEF E!Next

AllSold == E!Counted(sales)

LEMMA SoldWithin ==
  ASSUME E!Settings, TablesOK
  PROVE  /\ \A s \in sales : E!Within(s, E!Everything)
         /\ AllSold \subseteq sales /\ IsFiniteSet(AllSold)
         /\ \A s \in AllSold : s.cents \in Nat /\ s.buyer \in Buyers
         /\ \A p : SoldTo(p, E!Everything) = {s \in AllSold : s.buyer = p}
         /\ BuyersIn(E!Everything) = {s.buyer : s \in AllSold}
<1>1. ASSUME NEW s \in sales PROVE E!Within(s, E!Everything)
  <2>1. s.at \in Nat /\ s.at <= Max(Days) BY SalesFinite DEF TablesOK, E!Sale
  <2>2. Max(Days) \in Nat /\ Max(Days) <= E!Everything.to BY DaysFinite
  <2>3. E!Everything.from = 0 /\ E!Everything.to \in Nat BY EverythingEnds
  <2>4. s.at < E!Everything.to + 1 BY <2>1, <2>2, <2>3
  <2>5. E!Everything.from <= s.at BY <2>1, <2>3
  <2>q. QED BY <2>4, <2>5 DEF E!Within
<1>2. AllSold \subseteq sales BY DEF AllSold, E!Counted
<1>3. IsFiniteSet(AllSold) BY <1>2, SalesFinite
<1>4. \A s \in AllSold : s.cents \in Nat /\ s.buyer \in Buyers
  BY <1>2, SalesFinite DEF E!Sale
<1>5. \A p : SoldTo(p, E!Everything) = {s \in AllSold : s.buyer = p}
  BY <1>1, <1>2 DEF SoldTo, AllSold
<1>6. BuyersIn(E!Everything) = {s.buyer : s \in AllSold} BY <1>1, <1>2 DEF BuyersIn, AllSold
<1>q. QED BY <1>1, <1>2, <1>3, <1>4, <1>5, <1>6

\* What a row holds.
LEMMA RowTypes ==
  ASSUME E!Settings, TablesOK, NEW w, NEW r \in E!BuyerRows(w)
  PROVE  r.cents \in Nat /\ r.sales \in Nat
<1>1. PICK p : r = RowFor(p, w) BY BuyerRowsAre
<1>2. SoldTo(p, w) \subseteq sales BY DEF SoldTo, E!Counted
<1>3. E!Cents(SoldTo(p, w)) \in Nat /\ E!Cardinality(SoldTo(p, w)) \in Nat BY <1>2, SalesFinite
<1>q. QED BY <1>1, <1>3 DEF RowFor

\* The rows hold every sale once.
LEMMA RevenueIsAll ==
  ASSUME E!Settings, TablesOK
  PROVE  E!TotalCents(E!BuyerRows(E!Everything)) = E!Cents(AllSold)
<1> DEFINE w == E!Everything
           rows == E!BuyerRows(w)
           c == [s \in AllSold |-> s.buyer]
           v == [s \in AllSold |-> s.cents]
           G == BuyersIn(w)
           rec == [p \in G |-> RowFor(p, w)]
           u == [r \in rows |-> r.cents]
<1>1. \A s \in AllSold : c[s] \in G BY SoldWithin
<1>2. \A s \in AllSold : v[s] \in Int BY SoldWithin
<1>3. \A p \in G : rec[p] = RowFor(p, w) OBVIOUS
<1>4. \A p, q \in G : rec[p] = rec[q] => p = q BY <1>3, BuyerRowsAre
<1>5. Image(rec, G) = rows BY <1>3, BuyerRowsAre DEF Image
<1>6. ASSUME NEW p \in G PROVE u[rec[p]] = TotalOf(v, ClassOf(AllSold, c, p))
  <2>1. rec[p] \in rows BY <1>5 DEF Image
  <2>2. u[rec[p]] = RowFor(p, w).cents BY <1>3, <2>1
  <2>3. u[rec[p]] = E!Cents(SoldTo(p, w)) BY <2>2 DEF RowFor
  <2>4. SoldTo(p, w) = ClassOf(AllSold, c, p) BY SoldWithin DEF ClassOf
  <2>5. PICK mine : mine = SoldTo(p, w) OBVIOUS
  <2>6. mine \subseteq AllSold BY <2>5, SoldWithin
  <2>7. /\ IsFiniteSet(mine)
        /\ E!Cents(mine) = TotalOf([s \in mine |-> s.cents], mine)
    BY <2>6, SoldWithin, SalesFinite
  <2>8. \A s \in mine : [t \in mine |-> t.cents][s] = v[s] BY <2>6
  <2> HIDE DEF v
  <2>9. TotalOf([s \in mine |-> s.cents], mine) = TotalOf(v, mine) BY <2>7, <2>8, TotalSame
  <2>q. QED BY <2>3, <2>4, <2>5, <2>7, <2>9
<1>7. DOMAIN u = rows OBVIOUS
<1>8. E!TotalCents(rows) = E!Sum(u) BY DEF E!TotalCents
<1>9. E!Sum(u) = TotalOf(u, rows) BY <1>7, SumIsTotal
<1>10. E!Cents(AllSold) = TotalOf(v, AllSold) BY SoldWithin, SalesFinite
<1>11. IsFiniteSet(G) /\ IsFiniteSet(AllSold) BY BuyerRowsAre, SoldWithin
<1> HIDE DEF c, v, G, rec, u, rows
<1>12. TotalOf(u, Image(rec, G)) = TotalOf(v, AllSold)
  BY <1>1, <1>2, <1>4, <1>6, <1>11, SplitTotals
<1>q. QED BY <1>5, <1>8, <1>9, <1>10, <1>12 DEF rows

\* And the import's are told apart.
LEMMA CentsOfParts ==
  ASSUME E!Settings, TablesOK, NEW T, T \subseteq sales
  PROVE  E!Cents(sales) = E!Cents(T) + E!Cents(sales \ T)
<1> DEFINE v == [s \in sales |-> s.cents]
<1>1. ASSUME NEW S \in SUBSET sales PROVE IsFiniteSet(S) /\ E!Cents(S) = TotalOf(v, S)
  <2>1. IsFiniteSet(S) /\ E!Cents(S) = TotalOf([s \in S |-> s.cents], S) BY SalesFinite
  <2>2. \A s \in S : [t \in S |-> t.cents][s] = v[s] OBVIOUS
  <2> HIDE DEF v
  <2>3. TotalOf([s \in S |-> s.cents], S) = TotalOf(v, S) BY <2>1, <2>2, TotalSame
  <2>q. QED BY <2>1, <2>3
<1>2. \A s \in sales : v[s] \in Int BY SalesFinite DEF E!Sale
<1>3. sales = T \cup (sales \ T) /\ T \cap (sales \ T) = {} OBVIOUS
<1> HIDE DEF v
<1>4. TotalOf(v, T \cup (sales \ T)) = TotalOf(v, T) + TotalOf(v, sales \ T)
  BY <1>1, <1>2, <1>3, TotalOfUnion
<1>q. QED BY <1>1, <1>3, <1>4

\* A split of the rows by a key loses nothing.
LEMMA SplitOfRows ==
  ASSUME E!Settings, TablesOK, NEW w, NEW rows, rows = E!BuyerRows(w),
         NEW c, NEW G, IsFiniteSet(G), \A r \in rows : c[r] \in G,
         NEW rec, \A g, k \in G : rec[g] = rec[k] => g = k,
         \A g \in G : /\ rec[g].revenue = E!TotalCents(ClassOf(rows, c, g))
                      /\ rec[g].sales = E!TotalSales(ClassOf(rows, c, g))
                      /\ rec[g].buyers = E!Cardinality(ClassOf(rows, c, g)),
         NEW split, split = Image(rec, G)
  PROVE  /\ E!TotalCents(rows) = E!Sum([x \in split |-> x.revenue])
         /\ E!TotalSales(rows) = E!Sum([x \in split |-> x.sales])
         /\ Cardinality(rows) = E!Sum([x \in split |-> x.buyers])
<1> DEFINE cents(S) == [r \in S |-> r.cents]
           number(S) == [r \in S |-> r.sales]
           u1 == [x \in split |-> x.revenue]
           u2 == [x \in split |-> x.sales]
           u3 == [x \in split |-> x.buyers]
<1>1. IsFiniteSet(rows) BY BuyerRowsAre
<1>2. \A r \in rows : cents(rows)[r] \in Int /\ number(rows)[r] \in Int BY RowTypes
<1>3. ASSUME NEW S \in SUBSET rows
      PROVE  /\ E!TotalCents(S) = TotalOf(cents(rows), S)
             /\ E!TotalSales(S) = TotalOf(number(rows), S)
  <2>1. IsFiniteSet(S) BY <1>1, FS_Subset
  <2>2. DOMAIN cents(S) = S /\ DOMAIN number(S) = S OBVIOUS
  <2>3. E!TotalCents(S) = E!Sum(cents(S)) /\ E!TotalSales(S) = E!Sum(number(S))
    BY DEF E!TotalCents, E!TotalSales
  <2>4. \A r \in S : cents(S)[r] = cents(rows)[r] /\ number(S)[r] = number(rows)[r] OBVIOUS
  <2> HIDE DEF cents, number
  <2>5. E!TotalCents(S) = TotalOf(cents(S), S) /\ E!TotalSales(S) = TotalOf(number(S), S)
    BY <2>2, <2>3, SumIsTotal
  <2>6. TotalOf(cents(S), S) = TotalOf(cents(rows), S) BY <2>1, <2>4, TotalSame
  <2>7. TotalOf(number(S), S) = TotalOf(number(rows), S) BY <2>1, <2>4, TotalSame
  <2>q. QED BY <2>5, <2>6, <2>7
<1>4. ASSUME NEW g \in G
      PROVE  /\ u1[rec[g]] = TotalOf(cents(rows), ClassOf(rows, c, g))
             /\ u2[rec[g]] = TotalOf(number(rows), ClassOf(rows, c, g))
             /\ u3[rec[g]] = Cardinality(ClassOf(rows, c, g))
  <2>1. rec[g] \in split BY DEF Image
  <2>2. /\ u1[rec[g]] = rec[g].revenue /\ u2[rec[g]] = rec[g].sales
        /\ u3[rec[g]] = rec[g].buyers
    BY <2>1
  <2>3. ClassOf(rows, c, g) \subseteq rows BY DEF ClassOf
  <2> HIDE DEF u1, u2, u3, cents, number
  <2>q. QED BY <1>3, <2>2, <2>3, EconomyCardinality
<1>5. DOMAIN u1 = split /\ DOMAIN u2 = split /\ DOMAIN u3 = split OBVIOUS
<1> HIDE DEF u1, u2, u3, cents, number
<1>6. TotalOf(u1, Image(rec, G)) = TotalOf(cents(rows), rows) BY <1>1, <1>2, <1>4, SplitTotals
<1>7. TotalOf(u2, Image(rec, G)) = TotalOf(number(rows), rows) BY <1>1, <1>2, <1>4, SplitTotals
<1>8. TotalOf(u3, Image(rec, G)) = Cardinality(rows) BY <1>1, <1>4, SplitCounts
<1>9. /\ E!TotalCents(rows) = TotalOf(cents(rows), rows)
      /\ E!TotalSales(rows) = TotalOf(number(rows), rows)
  BY <1>3
<1>10. E!Sum(u1) = TotalOf(u1, split) /\ E!Sum(u2) = TotalOf(u2, split) /\ E!Sum(u3) = TotalOf(u3, split)
  BY <1>5, SumIsTotal
<1>q. QED BY <1>6, <1>7, <1>8, <1>9, <1>10 DEF u1, u2, u3

PlatformRow(rows, mine, f) ==
  [ platform |-> f, revenue |-> E!TotalCents(mine), sales |-> E!TotalSales(mine),
    buyers |-> E!Cardinality(mine),
    share |-> [ n |-> E!TotalSales(mine),
                percent |-> E!ShareOf(E!TotalCents(mine), E!TotalCents(rows)) ] ]

LEMMA PlatformsAreWhole ==
  ASSUME E!Settings, TablesOK, NEW w, NEW rows, rows = E!BuyerRows(w),
         NEW split, split = E!ByPlatform(rows)
  PROVE  /\ E!TotalCents(rows) = E!Sum([x \in split |-> x.revenue])
         /\ E!TotalSales(rows) = E!Sum([x \in split |-> x.sales])
         /\ Cardinality(rows) = E!Sum([x \in split |-> x.buyers])
<1> DEFINE c == [r \in rows |-> platformOf[r.player]]
           G == Image(c, rows)
           mine(f) == {r \in rows : platformOf[r.player] = f}
           rec == [f \in G |-> PlatformRow(rows, mine(f), f)]
<1>1. IsFiniteSet(rows) BY BuyerRowsAre
<1>2. \A r \in rows : c[r] \in G BY DEF Image
<1>3. G = {platformOf[r.player] : r \in rows} BY DEF Image
<1>4. \A f : mine(f) = ClassOf(rows, c, f) BY DEF ClassOf
<1>5. split = {PlatformRow(rows, mine(f), f) : f \in G}
  BY <1>3 DEF E!ByPlatform, PlatformRow
<1>6. \A f \in G : rec[f] = PlatformRow(rows, mine(f), f) OBVIOUS
<1>7. split = Image(rec, G) BY <1>5, <1>6 DEF Image
<1> HIDE DEF c, G, mine, rec
<1>8. \A f \in G : /\ rec[f].platform = f
                   /\ rec[f].revenue = E!TotalCents(mine(f))
                   /\ rec[f].sales = E!TotalSales(mine(f))
                   /\ rec[f].buyers = E!Cardinality(mine(f))
  <2>1. TAKE f \in G
  <2>2. PICK x : x = PlatformRow(rows, mine(f), f) OBVIOUS
  <2>3. x.platform = f /\ x.revenue = E!TotalCents(mine(f))
    BY <2>2 DEF PlatformRow
  <2>4. x.sales = E!TotalSales(mine(f)) /\ x.buyers = E!Cardinality(mine(f))
    BY <2>2 DEF PlatformRow
  <2>q. QED BY <1>6, <2>2, <2>3, <2>4
<1>9. \A f, g \in G : rec[f] = rec[g] => f = g BY <1>8
<1>10. IsFiniteSet(G) BY <1>1, ImageIsFinite DEF G
<1>11. \A f \in G : /\ rec[f].revenue = E!TotalCents(ClassOf(rows, c, f))
                    /\ rec[f].sales = E!TotalSales(ClassOf(rows, c, f))
                    /\ rec[f].buyers = E!Cardinality(ClassOf(rows, c, f))
  BY <1>4, <1>8
<1>q. QED BY <1>2, <1>7, <1>9, <1>10, <1>11, SplitOfRows

LEMMA CohortsAreWhole ==
  ASSUME E!Settings, TablesOK, NEW w, NEW rows, rows = E!BuyerRows(w),
         NEW split, split = E!ByCohort(rows)
  PROVE  /\ E!TotalCents(rows) = E!Sum([x \in split |-> x.revenue])
         /\ E!TotalSales(rows) = E!Sum([x \in split |-> x.sales])
         /\ Cardinality(rows) = E!Sum([x \in split |-> x.buyers])
<1> DEFINE c == [r \in rows |-> Key(r)]
           G == KeysOf(rows)
           rec == [g \in G |-> CohortRow(rows, g)]
<1>1. IsFiniteSet(rows) BY BuyerRowsAre
<1>2. \A r \in rows : c[r] \in G BY DEF KeysOf
<1>3. G = Image(c, rows) BY DEF Image, KeysOf
<1>4. ASSUME NEW g \in G PROVE OfKey(rows, g) = ClassOf(rows, c, g)
  <2>1. g = <<g[1], g[2]>> BY ByCohortIs
  <2>2. \A r \in rows : c[r] = g <=> r.cohort = g[1] /\ platformOf[r.player] = g[2]
    BY <2>1 DEF Key
  <2>q. QED BY <2>2 DEF OfKey, ClassOf
<1>5. \A g \in G : rec[g] = CohortRow(rows, g) OBVIOUS
<1>6. split = Image(rec, G) BY <1>5, ByCohortIs DEF Image
<1> HIDE DEF c, G, rec
<1>7. \A g \in G : /\ rec[g].cohort = g[1] /\ rec[g].platform = g[2]
                   /\ rec[g].revenue = E!TotalCents(OfKey(rows, g))
                   /\ rec[g].sales = E!TotalSales(OfKey(rows, g))
                   /\ rec[g].buyers = E!Cardinality(OfKey(rows, g))
  <2>1. TAKE g \in G
  <2>2. PICK x : x = CohortRow(rows, g) OBVIOUS
  <2>3. x.cohort = g[1] /\ x.platform = g[2] /\ x.revenue = E!TotalCents(OfKey(rows, g))
    BY <2>2 DEF CohortRow
  <2>4. x.sales = E!TotalSales(OfKey(rows, g)) /\ x.buyers = E!Cardinality(OfKey(rows, g))
    BY <2>2 DEF CohortRow
  <2>q. QED BY <1>5, <2>2, <2>3, <2>4
<1>8. \A g \in G : g = <<g[1], g[2]>> BY ByCohortIs DEF G
<1>9. \A g, k \in G : rec[g] = rec[k] => g = k BY <1>7, <1>8
<1>10. IsFiniteSet(G) BY <1>1, <1>3, ImageIsFinite
<1>11. \A g \in G : /\ rec[g].revenue = E!TotalCents(ClassOf(rows, c, g))
                    /\ rec[g].sales = E!TotalSales(ClassOf(rows, c, g))
                    /\ rec[g].buyers = E!Cardinality(ClassOf(rows, c, g))
  BY <1>4, <1>7
<1>q. QED BY <1>2, <1>6, <1>9, <1>10, <1>11, SplitOfRows

-----------------------------------------------------------------------------
(* Spenders of one report, buyers of the other.                            *)

\* Every player Plan knows has a first-spend row.
LEMMA FirstSpendRowsAre ==
  ASSUME E!Settings, TablesOK, NEW rows, rows = E!FirstSpendRows(0, E!Everything.to)
  PROVE  /\ DOMAIN rows = {p \in Buyers : lastSeen[p] # E!Absent}
         /\ \A p \in DOMAIN rows : rows[p].bought <=> p \in BuyersIn(E!Everything)
<1>1. ASSUME NEW p \in Buyers, lastSeen[p] # E!Absent
      PROVE  0 <= E!Month(registered[p]) /\ E!Month(registered[p]) <= E!Everything.to
  <2>1. /\ registered[p] \in Nat /\ E!Month(registered[p]) \in Nat
        /\ E!Month(registered[p]) <= registered[p]
    BY MonthIsNat
  <2>2. registered[p] <= Max(Days) BY <1>1 DEF TablesOK
  <2>3. Max(Days) \in Nat /\ Max(Days) <= E!Everything.to /\ E!Everything.to \in Nat
    BY DaysFinite, EverythingEnds
  <2>q. QED BY <2>1, <2>2, <2>3
<1>2. DOMAIN rows = {p \in Buyers : lastSeen[p] # E!Absent} BY <1>1 DEF E!FirstSpendRows
<1>3. ASSUME NEW p \in DOMAIN rows PROVE rows[p].bought <=> p \in BuyersIn(E!Everything)
  <2>1. rows[p].bought = (E!PurchasesOf(p) # {}) BY DEF E!FirstSpendRows
  <2>2. E!PurchasesOf(p) # {} <=> \E s \in AllSold : s.buyer = p BY DEF E!PurchasesOf, AllSold
  <2>q. QED BY <2>1, <2>2, SoldWithin
<1>q. QED BY <1>2, <1>3

LEMMA SpendersAreBuyers ==
  ASSUME E!Settings, TablesOK, NEW rows, rows = E!FirstSpendRows(0, E!Everything.to),
         NEW sold, sold = E!BuyerRows(E!Everything), NEW g \in MonthsOf(rows)
  PROVE  /\ Cardinality(E!Spenders(rows, OfMonth(rows, g))) = Cardinality(OfKey(sold, g))
         /\ IsFiniteSet(E!Spenders(rows, OfMonth(rows, g)))
<1> DEFINE w == E!Everything
           spent == E!Spenders(rows, OfMonth(rows, g))
           mine == OfKey(sold, g)
           h == [p \in spent |-> RowFor(p, w)]
           k == [r \in mine |-> r.player]
<1>0. g[1] \in Nat
  <2>1. PICK p \in DOMAIN rows : g = MonthOf(p) BY DEF MonthsOf
  <2>2. p \in Buyers BY <2>1, FirstSpendRowsAre
  <2>q. QED BY <2>1, <2>2, MonthIsNat DEF MonthOf
<1>1. \A p : p \in spent <=> /\ p \in Buyers /\ lastSeen[p] # E!Absent
                             /\ E!Month(registered[p]) = g[1] /\ platformOf[p] = g[2]
                             /\ p \in BuyersIn(w)
  BY FirstSpendRowsAre DEF E!Spenders, OfMonth
<1>2. ASSUME NEW p \in spent PROVE RowFor(p, w) \in mine /\ RowFor(p, w).player = p
  <2>1. RowFor(p, w) \in sold BY <1>1, BuyerRowsAre
  <2>2. RowFor(p, w).player = p /\ RowFor(p, w).cohort = E!CohortOf(p) BY BuyerRowsAre
  <2>3. E!CohortOf(p) = g[1] BY <1>1 DEF E!CohortOf
  <2>q. QED BY <1>1, <2>1, <2>2, <2>3 DEF OfKey
<1>3. ASSUME NEW r \in mine PROVE r.player \in spent /\ r = RowFor(r.player, w)
  <2>1. r \in sold /\ r.cohort = g[1] /\ platformOf[r.player] = g[2] BY DEF OfKey
  <2>2. r.player \in BuyersIn(w) /\ r = RowFor(r.player, w) BY <2>1, BuyerRowsAre
  <2>3. r.player \in Buyers /\ r.cohort = E!CohortOf(r.player) BY <2>2, BuyerRowsAre
  <2>4. /\ lastSeen[r.player] # E!Absent
        /\ E!Month(registered[r.player]) = g[1]
    <3>1. g[1] # E!UnknownCohort BY <1>0 DEF E!UnknownCohort
    <3>q. QED BY <2>1, <2>3, <3>1 DEF E!CohortOf
  <2>q. QED BY <1>1, <2>1, <2>2, <2>3, <2>4
<1>4. mine = Image(h, spent)
  <2>1. \A p \in spent : h[p] = RowFor(p, w) OBVIOUS
  <2>q. QED BY <1>2, <1>3, <2>1 DEF Image
<1>5. spent = Image(k, mine)
  <2>1. \A r \in mine : k[r] = r.player OBVIOUS
  <2>q. QED BY <1>2, <1>3, <2>1 DEF Image
<1>6. spent \subseteq Buyers BY <1>1
<1>7. IsFiniteSet(spent) BY <1>6, FS_Subset, EconomyFinite DEF E!Settings
<1> HIDE DEF spent, mine, h, k
<1>8. Cardinality(spent) = Cardinality(mine) BY <1>4, <1>5, <1>7, SameCardinality
<1>q. QED BY <1>7, <1>8 DEF spent, mine

\* A median is of somebody who bought after registering.
LEMMA MedianHasSpender ==
  ASSUME E!Settings, TablesOK, NEW rows, rows = E!FirstSpendRows(0, E!Everything.to), NEW g,
         IsFiniteSet(E!Spenders(rows, OfMonth(rows, g)))
  PROVE  Cardinality(BeforeOf(rows, g))
           + (IF E!Percentile(DaysOf(rows, g), 500) = E!Undefined THEN 0 ELSE 1)
           <= Cardinality(E!Spenders(rows, OfMonth(rows, g)))
<1> DEFINE spent == E!Spenders(rows, OfMonth(rows, g))
           before == BeforeOf(rows, g)
<1>1. before \subseteq spent BY DEF BeforeOf, E!Spenders
<1>2. DOMAIN DaysOf(rows, g) = spent \ before BY DEF DaysOf, E!Spenders
<1>3. IsFiniteSet(before) /\ Cardinality(before) <= Cardinality(spent) BY <1>1, FS_Subset
<1>4. Cardinality(before) \in Nat /\ Cardinality(spent) \in Nat BY <1>3, FS_CardinalityType
<1>5. CASE E!Percentile(DaysOf(rows, g), 500) = E!Undefined BY <1>3, <1>4, <1>5
<1>6. CASE E!Percentile(DaysOf(rows, g), 500) # E!Undefined
  <2>1. DOMAIN DaysOf(rows, g) # {} BY <1>6 DEF E!Percentile
  <2>2. PICK p : p \in spent /\ p \notin before BY <1>2, <2>1
  <2> HIDE DEF spent, before
  <2>3. Cardinality(before \cup {p}) = Cardinality(before) + 1 BY <1>3, <2>2, FS_AddElement
  <2>4. before \cup {p} \subseteq spent BY <1>1, <2>2
  <2>5. Cardinality(before \cup {p}) <= Cardinality(spent) BY <2>4, FS_Subset DEF spent
  <2>q. QED BY <1>4, <1>6, <2>3, <2>5 DEF spent, before
<1>q. QED BY <1>5, <1>6

AtPosition(rows, group) == {p \in DOMAIN rows : E!PositionOf(rows[p]) = group}

StepsOf(rows, mine) == [p \in {p \in mine : E!Entered(rows[p].at)} |-> rows[p].at.index]

PositionRow(rows, mine, group) ==
  [ position |-> group, players |-> E!Spend(rows, mine).players,
    spenders |-> E!Spend(rows, mine).spenders, everSpent |-> E!Spend(rows, mine).everSpent,
    revenue |-> E!Spend(rows, mine).revenue,
    medianFurthestStep |-> E!Percentile(StepsOf(rows, mine), 500) ]

LEMMA PositionRowIs ==
  ASSUME NEW rows, NEW mine, NEW group
  PROVE  /\ PositionRow(rows, mine, group).position = group
         /\ PositionRow(rows, mine, group).players = E!Cardinality(mine)
         /\ PositionRow(rows, mine, group).revenue = E!Sum([p \in mine |-> rows[p].cents])
<1>1. PICK x : x = E!Spend(rows, mine) OBVIOUS
<1>2. PICK total : total = E!Sum([p \in mine |-> rows[p].cents]) OBVIOUS
<1>3. x.players = E!Cardinality(mine) /\ x.revenue = total BY <1>1, <1>2 DEF E!Spend
<1>4. PICK y : y = PositionRow(rows, mine, group) OBVIOUS
<1>5. y.position = group /\ y.players = x.players /\ y.revenue = x.revenue
  BY <1>1, <1>4 DEF PositionRow
<1>q. QED BY <1>2, <1>3, <1>4, <1>5

\* Everybody known has a position, and their sales.
LEMMA PositionRowsAre ==
  ASSUME E!Settings, TablesOK, NEW rows, rows = E!PositionRows
  PROVE  /\ DOMAIN rows = {p \in Buyers : lastSeen[p] # E!Absent \/ E!Entered(positions[p])}
         /\ \A p \in DOMAIN rows :
              /\ rows[p].cents = E!Cents({s \in AllSold : s.buyer = p})
              /\ rows[p].cents \in Nat
              /\ E!PositionOf(rows[p]) \in E!FunnelPositions
<1>1. DOMAIN rows = {p \in Buyers : lastSeen[p] # E!Absent \/ E!Entered(positions[p])}
  BY DEF E!PositionRows
<1>2. ASSUME NEW p \in DOMAIN rows
      PROVE  /\ rows[p].cents = E!Cents({s \in AllSold : s.buyer = p})
             /\ rows[p].cents \in Nat
             /\ E!PositionOf(rows[p]) \in E!FunnelPositions
  <2>1. PICK sold : sold = {s \in AllSold : s.buyer = p} OBVIOUS
  <2>2. rows[p] = [at |-> positions[p], sales |-> E!Cardinality(sold), cents |-> E!Cents(sold)]
    BY <2>1 DEF E!PositionRows, AllSold
  <2>3. sold \subseteq sales BY <2>1, SoldWithin
  <2>4. E!Cents(sold) \in Nat BY <2>3, SalesFinite
  <2>5. positions[p] \in E!Position BY <1>1 DEF TablesOK
  <2>6. rows[p].at = positions[p] /\ rows[p].cents = E!Cents(sold) BY <2>2
  <2>7. rows[p].at.completed \in BOOLEAN BY <2>5, <2>6 DEF E!Position
  <2>8. PICK row : row = rows[p] OBVIOUS
  <2>9. row.at.completed \in BOOLEAN BY <2>7, <2>8
  <2>10. E!PositionOf(row) \in E!FunnelPositions
    <3>1. CASE ~E!Entered(row.at) BY <3>1 DEF E!PositionOf, E!FunnelPositions
    <3>2. CASE E!Entered(row.at) /\ row.at.completed
      BY <3>2 DEF E!PositionOf, E!FunnelPositions
    <3>3. CASE E!Entered(row.at) /\ ~row.at.completed
      BY <3>3 DEF E!PositionOf, E!FunnelPositions
    <3>q. QED BY <3>1, <3>2, <3>3
  <2>q. QED BY <2>1, <2>4, <2>6, <2>8, <2>10
<1>q. QED BY <1>1, <1>2

\* What those players bought, by player and at once.
LEMMA CentsOfKnown ==
  ASSUME E!Settings, TablesOK, NEW S, S \subseteq Buyers, NEW u,
         \A p \in S : u[p] = E!Cents({s \in AllSold : s.buyer = p})
  PROVE  TotalOf(u, S) = E!Cents({s \in AllSold : s.buyer \in S})
<1> DEFINE sold == {s \in AllSold : s.buyer \in S}
           c == [s \in sold |-> s.buyer]
           v == [s \in sold |-> s.cents]
<1>1. IsFiniteSet(S) BY FS_Subset, EconomyFinite DEF E!Settings
<1>2. sold \subseteq sales BY SoldWithin
<1>3. IsFiniteSet(sold) /\ E!Cents(sold) = TotalOf(v, sold) BY <1>2, SalesFinite
<1>4. \A s \in sold : c[s] \in S /\ v[s] \in Int BY SoldWithin
<1>5. ASSUME NEW p \in S PROVE u[p] = TotalOf(v, ClassOf(sold, c, p))
  <2>1. PICK mine : mine = {s \in AllSold : s.buyer = p} OBVIOUS
  <2>2. mine = ClassOf(sold, c, p) BY <2>1 DEF ClassOf
  <2>3. mine \subseteq sold BY <2>1
  <2>4. mine \subseteq sales BY <1>2, <2>3
  <2>5. IsFiniteSet(mine) /\ E!Cents(mine) = TotalOf([s \in mine |-> s.cents], mine)
    BY <2>4, SalesFinite
  <2>6. \A s \in mine : [t \in mine |-> t.cents][s] = v[s] BY <2>3
  <2> HIDE DEF v
  <2>7. TotalOf([s \in mine |-> s.cents], mine) = TotalOf(v, mine) BY <2>5, <2>6, TotalSame
  <2>q. QED BY <2>1, <2>2, <2>5, <2>7
<1> HIDE DEF sold, c, v
<1>6. TotalOf(v, sold) = TotalOf(u, S) BY <1>1, <1>3, <1>4, <1>5, TotalByClass
<1>q. QED BY <1>3, <1>6 DEF sold

LEMMA PositionsShareOut ==
  ASSUME E!Settings, TablesOK, NEW rows, rows = E!PositionRows,
         NEW split, split = E!ByFunnelPosition(rows)
  PROVE  /\ E!Cardinality(DOMAIN rows) = E!Sum([x \in split |-> x.players])
         /\ E!Sum([x \in split |-> x.revenue])
              = E!Cents({s \in AllSold : s.buyer \in DOMAIN rows})
<1> DEFINE S == DOMAIN rows
           G == E!FunnelPositions
           c == [p \in S |-> E!PositionOf(rows[p])]
           v == [p \in S |-> rows[p].cents]
           rec == [group \in G |-> PositionRow(rows, AtPosition(rows, group), group)]
           u1 == [x \in split |-> x.players]
           u2 == [x \in split |-> x.revenue]
<1>1. S \subseteq Buyers BY PositionRowsAre
<1>2. IsFiniteSet(S) BY <1>1, FS_Subset, EconomyFinite DEF E!Settings
<1>3. IsFiniteSet(G)
  <2>1. IsFiniteSet({}) BY FS_EmptySet
  <2>2. IsFiniteSet({} \cup {"nao_entrou"}) BY <2>1, FS_AddElement
  <2>3. IsFiniteSet(({} \cup {"nao_entrou"}) \cup {"entrou_nao_concluiu"}) BY <2>2, FS_AddElement
  <2>4. IsFiniteSet((({} \cup {"nao_entrou"}) \cup {"entrou_nao_concluiu"}) \cup {"concluiu"})
    BY <2>3, FS_AddElement
  <2>5. (({} \cup {"nao_entrou"}) \cup {"entrou_nao_concluiu"}) \cup {"concluiu"} = G
    BY DEF E!FunnelPositions
  <2>q. QED BY <2>4, <2>5
<1>4. ASSUME NEW p \in S PROVE c[p] \in G /\ v[p] \in Int
  <2>1. c[p] = E!PositionOf(rows[p]) /\ v[p] = rows[p].cents OBVIOUS
  <2>2. E!PositionOf(rows[p]) \in G /\ rows[p].cents \in Nat BY PositionRowsAre
  <2> HIDE DEF c, v
  <2>q. QED BY <2>1, <2>2
<1>5. split = {PositionRow(rows, AtPosition(rows, group), group) : group \in G}
  BY DEF E!ByFunnelPosition, PositionRow, AtPosition, StepsOf
<1>6. \A group \in G : rec[group] = PositionRow(rows, AtPosition(rows, group), group) OBVIOUS
<1>7. split = Image(rec, G) BY <1>5, <1>6 DEF Image
<1>8. ASSUME NEW a \in G, NEW b \in G, rec[a] = rec[b] PROVE a = b
  <2>1. ASSUME NEW k \in G PROVE rec[k].position = k
    <3>1. PICK x : x = PositionRow(rows, AtPosition(rows, k), k) OBVIOUS
    <3>2. x.position = k BY <3>1 DEF PositionRow
    <3>q. QED BY <1>6, <3>1, <3>2
  <2> HIDE DEF rec
  <2>q. QED BY <1>8, <2>1
<1>9. ASSUME NEW group \in G
      PROVE  /\ u1[rec[group]] = Cardinality(ClassOf(S, c, group))
             /\ u2[rec[group]] = TotalOf(v, ClassOf(S, c, group))
  <2>1. PICK mine : mine = AtPosition(rows, group) OBVIOUS
  <2>2. mine = ClassOf(S, c, group) BY <2>1 DEF AtPosition, ClassOf
  <2>3. rec[group] \in split BY <1>7 DEF Image
  <2>4. u1[rec[group]] = rec[group].players /\ u2[rec[group]] = rec[group].revenue BY <2>3
  <2>5. /\ rec[group].players = E!Cardinality(mine)
        /\ rec[group].revenue = E!Sum([p \in mine |-> rows[p].cents])
    BY <1>6, <2>1, PositionRowIs
  <2>6. mine \subseteq S BY <2>1 DEF AtPosition
  <2>7. IsFiniteSet(mine) BY <1>2, <2>6, FS_Subset
  <2> DEFINE m == [p \in mine |-> rows[p].cents]
  <2>8. DOMAIN m = mine /\ \A p \in mine : m[p] = v[p] BY <2>6
  <2> HIDE DEF m, v
  <2>9. E!Sum(m) = TotalOf(m, mine) BY <2>8, SumIsTotal
  <2>10. TotalOf(m, mine) = TotalOf(v, mine) BY <2>7, <2>8, TotalSame
  <2>11. E!Cardinality(mine) = Cardinality(mine) BY EconomyCardinality
  <2>12. u1[rec[group]] = Cardinality(mine) BY <2>4, <2>5, <2>11
  <2>13. u2[rec[group]] = TotalOf(v, mine) BY <2>4, <2>5, <2>9, <2>10 DEF m
  <2>q. QED BY <2>2, <2>12, <2>13
<1>10. DOMAIN u1 = split /\ DOMAIN u2 = split OBVIOUS
<1>11. \A p \in S : v[p] = E!Cents({s \in AllSold : s.buyer = p}) BY PositionRowsAre
<1> HIDE DEF S, G, c, v, rec, u1, u2
<1>12. TotalOf(u1, Image(rec, G)) = Cardinality(S) BY <1>2, <1>3, <1>4, <1>8, <1>9, SplitCounts
<1>13. TotalOf(u2, Image(rec, G)) = TotalOf(v, S) BY <1>2, <1>3, <1>4, <1>8, <1>9, SplitTotals
<1>14. TotalOf(v, S) = E!Cents({s \in AllSold : s.buyer \in S}) BY <1>1, <1>11, CentsOfKnown
<1>15. E!Sum(u1) = TotalOf(u1, split) /\ E!Sum(u2) = TotalOf(u2, split) BY <1>10, SumIsTotal
<1>16. E!Cardinality(S) = Cardinality(S) BY EconomyCardinality
<1>17. E!Cardinality(S) = E!Sum(u1) BY <1>7, <1>12, <1>15, <1>16
<1>18. E!Sum(u2) = E!Cents({s \in AllSold : s.buyer \in S}) BY <1>7, <1>13, <1>14, <1>15
<1>q. QED BY <1>17, <1>18 DEF S, u1, u2

LEMMA RevenueIs ==
  ASSUME NEW w, NEW r, r = E!Revenue(w, "ok")
  PROVE  /\ r.revenue = E!TotalCents(E!BuyerRows(w)) /\ r.sales = E!TotalSales(E!BuyerRows(w))
         /\ r.buyers = E!Cardinality(E!BuyerRows(w))
         /\ r.byPlatform = E!ByPlatform(E!BuyerRows(w))
         /\ r.byCohort = E!ByCohort(E!BuyerRows(w))
         /\ r.excludedRevenue = E!Cents(sales \ AllSold)
BY DEF E!Revenue, AllSold

\* A cohort of the first-spend report, against the revenue report.
LEMMA SpendersAgree ==
  ASSUME E!Settings, TablesOK, NEW rows, rows = E!FirstSpendRows(0, E!Everything.to),
         NEW sold, sold = E!BuyerRows(E!Everything),
         NEW x \in E!CohortFirstSpends(rows)
  PROVE  /\ x.spenders =
              E!Sum([y \in {y \in E!ByCohort(sold) : y.cohort = x.cohort /\ y.platform = x.platform} |->
                       y.buyers])
         /\ x.beforeRegistration + (IF x.median = E!Undefined THEN 0 ELSE 1) <= x.spenders
<1>1. PICK g \in MonthsOf(rows) : x = SpendRow(rows, g) BY FirstSpendsAre
<1>2. g = <<g[1], g[2]>> BY FirstSpendsAre
<1>3. /\ x.cohort = g[1] /\ x.platform = g[2]
      /\ x.spenders = E!Cardinality(E!Spenders(rows, OfMonth(rows, g)))
  BY <1>1 DEF SpendRow
<1>4. /\ x.median = E!Percentile(DaysOf(rows, g), 500)
      /\ x.beforeRegistration = E!Cardinality(BeforeOf(rows, g))
  BY <1>1 DEF SpendRow
<1>5. /\ Cardinality(E!Spenders(rows, OfMonth(rows, g))) = Cardinality(OfKey(sold, g))
      /\ IsFiniteSet(E!Spenders(rows, OfMonth(rows, g)))
  BY SpendersAreBuyers
<1>6. x.spenders = Cardinality(E!Spenders(rows, OfMonth(rows, g)))
  BY <1>3, EconomyCardinality
<1>7. PICK X : X = {y \in E!ByCohort(sold) : y.cohort = x.cohort /\ y.platform = x.platform}
  OBVIOUS
<1>8. E!Sum([y \in X |-> y.buyers]) = Cardinality(OfKey(sold, <<x.cohort, x.platform>>))
  BY <1>7, BuyersOfCohort
<1>9. <<x.cohort, x.platform>> = g BY <1>2, <1>3
<1>10. x.spenders = E!Sum([y \in X |-> y.buyers]) BY <1>5, <1>6, <1>8, <1>9
<1>11. Cardinality(BeforeOf(rows, g))
         + (IF E!Percentile(DaysOf(rows, g), 500) = E!Undefined THEN 0 ELSE 1)
         <= Cardinality(E!Spenders(rows, OfMonth(rows, g)))
  BY <1>5, MedianHasSpender
<1>12. x.beforeRegistration = Cardinality(BeforeOf(rows, g)) BY <1>4, EconomyCardinality
<1>13. x.beforeRegistration + (IF x.median = E!Undefined THEN 0 ELSE 1) <= x.spenders
  BY <1>4, <1>6, <1>11, <1>12
<1>q. QED BY <1>7, <1>10, <1>13

\* A cohort of the revenue report is one of the first-spend report.
LEMMA NoCohortMissing ==
  ASSUME E!Settings, TablesOK, NEW rows, rows = E!FirstSpendRows(0, E!Everything.to),
         NEW sold, sold = E!BuyerRows(E!Everything),
         NEW y \in E!ByCohort(sold), y.cohort # E!UnknownCohort
  PROVE  \E x \in E!CohortFirstSpends(rows) : x.cohort = y.cohort /\ x.platform = y.platform
<1>1. PICK g \in KeysOf(sold) : y = CohortRow(sold, g) BY ByCohortIs
<1>2. y.cohort = g[1] /\ y.platform = g[2] BY <1>1, ByCohortIs
<1>3. PICK r \in sold : g = Key(r) BY DEF KeysOf
<1>4. PICK p \in BuyersIn(E!Everything) : r = RowFor(p, E!Everything) BY BuyerRowsAre
<1>5. p \in Buyers /\ r.player = p /\ r.cohort = E!CohortOf(p) BY <1>4, BuyerRowsAre
<1>6. E!CohortOf(p) # E!UnknownCohort BY <1>2, <1>3, <1>5 DEF Key
<1>7. lastSeen[p] # E!Absent /\ E!CohortOf(p) = E!Month(registered[p])
  BY <1>6 DEF E!CohortOf
<1>8. p \in DOMAIN rows BY <1>5, <1>7, FirstSpendRowsAre
<1>9. MonthOf(p) \in MonthsOf(rows) BY <1>8 DEF MonthsOf
<1>10. SpendRow(rows, MonthOf(p)) \in E!CohortFirstSpends(rows) BY <1>9, FirstSpendsAre
<1>11. PICK x : x = SpendRow(rows, MonthOf(p)) OBVIOUS
<1>12. x.cohort = E!Month(registered[p]) /\ x.platform = platformOf[p]
  BY <1>11, FirstSpendsAre DEF MonthOf
<1>13. g[1] = E!Month(registered[p]) /\ g[2] = platformOf[p] BY <1>3, <1>5, <1>7 DEF Key
<1>q. QED BY <1>2, <1>10, <1>11, <1>12, <1>13

LEMMA TablesAgree == ASSUME E!Settings, TablesOK PROVE E!ReportsAgree
<1>1. PICK r : r = E!Revenue(E!Everything, "ok") OBVIOUS
<1>2. PICK rows : rows = E!FirstSpendRows(0, E!Everything.to) OBVIOUS
<1>3. PICK f : f = E!CohortFirstSpends(rows) OBVIOUS
<1>4. PICK places : places = E!PositionRows OBVIOUS
<1>5. PICK g : g = E!ByFunnelPosition(places) OBVIOUS
<1>6. PICK sold : sold = E!BuyerRows(E!Everything) OBVIOUS
<1>7. /\ r.revenue = E!TotalCents(sold) /\ r.sales = E!TotalSales(sold)
      /\ r.buyers = Cardinality(sold)
      /\ r.byPlatform = E!ByPlatform(sold) /\ r.byCohort = E!ByCohort(sold)
      /\ r.excludedRevenue = E!Cents(sales \ AllSold)
  BY <1>1, <1>6, RevenueIs, EconomyCardinality
<1>8. r.revenue + r.excludedRevenue = E!Cents(sales)
  <2>1. r.revenue = E!Cents(AllSold) BY <1>6, <1>7, RevenueIsAll
  <2>2. E!Cents(sales) = E!Cents(AllSold) + E!Cents(sales \ AllSold)
    BY SoldWithin, CentsOfParts
  <2>q. QED BY <1>7, <2>1, <2>2
<1>9. ASSUME NEW split \in {r.byPlatform, r.byCohort}
      PROVE  /\ r.revenue = E!Sum([x \in split |-> x.revenue])
             /\ r.sales = E!Sum([x \in split |-> x.sales])
             /\ r.buyers = E!Sum([x \in split |-> x.buyers])
  <2>1. CASE split = E!ByPlatform(sold) BY <1>6, <1>7, <2>1, PlatformsAreWhole
  <2>2. CASE split = E!ByCohort(sold) BY <1>6, <1>7, <2>2, CohortsAreWhole
  <2>q. QED BY <1>7, <2>1, <2>2
<1>10. ASSUME NEW x \in f
       PROVE  /\ x.spenders =
                   E!Sum([y \in {y \in r.byCohort : y.cohort = x.cohort /\ y.platform = x.platform} |->
                            y.buyers])
              /\ x.beforeRegistration + (IF x.median = E!Undefined THEN 0 ELSE 1) <= x.spenders
  <2>1. PICK X : X = {y \in E!ByCohort(sold) : y.cohort = x.cohort /\ y.platform = x.platform}
    OBVIOUS
  <2>2. /\ x.spenders = E!Sum([y \in X |-> y.buyers])
        /\ x.beforeRegistration + (IF x.median = E!Undefined THEN 0 ELSE 1) <= x.spenders
    BY <1>2, <1>3, <1>6, <2>1, SpendersAgree
  <2>3. X = {y \in r.byCohort : y.cohort = x.cohort /\ y.platform = x.platform}
    BY <1>7, <2>1
  <2>q. QED BY <2>2, <2>3
<1>11. {y \in r.byCohort : y.cohort # E!UnknownCohort /\ ~\E x \in f :
           x.cohort = y.cohort /\ x.platform = y.platform} = {}
  BY <1>2, <1>3, <1>6, <1>7, NoCohortMissing
<1>12. DOMAIN places = {p \in Buyers : lastSeen[p] # E!Absent \/ E!Entered(positions[p])}
  BY <1>4, PositionRowsAre
<1>13. E!Cardinality(DOMAIN places) = E!Sum([x \in g |-> x.players])
  BY <1>4, <1>5, PositionsShareOut
<1>14. E!Sum([x \in g |-> x.revenue])
         = E!Cents({s \in AllSold : s.buyer \in DOMAIN places})
  BY <1>4, <1>5, PositionsShareOut
<1>15. PICK placed : placed = DOMAIN places OBVIOUS
<1>16. placed = {p \in Buyers : lastSeen[p] # E!Absent \/ E!Entered(positions[p])}
  BY <1>12, <1>15
<1>17. /\ E!Cardinality(placed) = E!Sum([x \in g |-> x.players])
       /\ E!Sum([x \in g |-> x.revenue]) = E!Cents({s \in E!Counted(sales) : s.buyer \in placed})
  BY <1>13, <1>14, <1>15 DEF AllSold
<1>q. QED BY <1>1, <1>2, <1>3, <1>4, <1>5, <1>8, <1>9, <1>10, <1>11, <1>16, <1>17 DEF E!ReportsAgree

\* What is read off a mark.
LEMMA MarksRead ==
  ASSUME NEW holds, NEW flag, NEW observed, NEW threshold, NEW M,
         M = IF holds THEN {[flag |-> flag, observed |-> observed, threshold |-> threshold]} ELSE {}
  PROVE  {<<f.flag, f.observed>> : f \in M} = IF holds THEN {<<flag, observed>>} ELSE {}
<1>1. CASE ~holds
  <2>1. M = {} BY <1>1
  <2>q. QED BY <1>1, <2>1
<1>2. CASE holds
  <2>1. PICK z : z = [flag |-> flag, observed |-> observed, threshold |-> threshold] OBVIOUS
  <2>2. M = {z} BY <1>2, <2>1
  <2>3. z.flag = flag /\ z.observed = observed BY <2>1
  <2>4. {<<f.flag, f.observed>> : f \in {z}} = {<<flag, observed>>} BY <2>3
  <2>q. QED BY <1>2, <2>2, <2>4
<1>q. QED BY <1>1, <1>2

\* The window of every day holds each payment once.
LEMMA WindowIsDeals ==
  ASSUME E!Settings, EconomyIInv
  PROVE  E!FeedWindow(day) = {x \in ledger : x.amount > 0}
<1>1. day \in Nat /\ day - day = 0 BY DaysFinite DEF EconomyIInv
<1>2. ASSUME NEW x \in ledger
      PROVE  x.at \in Nat /\ (x.type = E!CanonicalPaymentType <=> x.amount > 0)
  BY DEF EconomyIInv, E!Settings, E!Payment
<1>3. \A x \in ledger : x.at >= day - day BY <1>1, <1>2
<1>q. QED BY <1>2, <1>3 DEF E!FeedWindow

LEMMA MarksCount ==
  ASSUME E!Settings, EconomyIInv PROVE E!MarksCountPayments
<1> DEFINE deals == {x \in ledger : x.amount > 0}
           dates == E!RegistrationDates(FALSE)
<1>1. ASSUME NEW limit, NEW shown \in E!Marked(E!FeedWindow(day), limit, dates),
             NEW twice, NEW many,
             twice = E!Cardinality({d \in deals : d.from = shown.of.from /\ d.to = shown.of.to}),
             many = E!Cardinality({d.to : d \in {d \in deals : d.from = shown.of.from}})
      PROVE  { <<f.flag, f.observed>> : f \in {f \in shown.flags :
                    f.flag \in {"repeated_pair", "funding_many"}} } =
                (IF twice >= RepeatedPair THEN {<<"repeated_pair", twice>>} ELSE {})
                  \cup (IF many >= FundingMany THEN {<<"funding_many", many>>} ELSE {})
  <2>1. PICK window : window = E!FeedWindow(day) OBVIOUS
  <2>2. PICK p95 : p95 = E!AmountP95(window) OBVIOUS
  <2>3. PICK x \in window : shown = E!ToFeedPayment(x, window, p95, dates)
    BY <1>1, <2>1, <2>2 DEF E!Marked, E!Page
  <2>4. window = deals BY <2>1, WindowIsDeals
  <2>5. PICK outlier : outlier = (p95 # E!Undefined /\ x.amount > p95) OBVIOUS
  <2>6. PICK pairs : pairs = E!Cardinality({y \in window : y.from = x.from /\ y.to = x.to}) OBVIOUS
  <2>7. PICK fanOut : fanOut = E!Cardinality({y.to : y \in {y \in window : y.from = x.from}})
    OBVIOUS
  <2>8. PICK age : age = x.at - registered[x.to] OBVIOUS
  <2>9. PICK M1 : M1 = E!Mark(outlier, "amount_outlier", x.amount, p95) OBVIOUS
  <2>10. PICK M4 : M4 = E!Mark(x.to \in dates /\ outlier /\ age \in 0..NewAccountDays,
                              "new_account_high_value", age, NewAccountDays)
    OBVIOUS
  <2>11. PICK M2 : M2 = E!Mark(pairs >= RepeatedPair, "repeated_pair", pairs, RepeatedPair) OBVIOUS
  <2>12. PICK M3 : M3 = E!Mark(fanOut >= FundingMany, "funding_many", fanOut, FundingMany) OBVIOUS
  <2>13. shown = [of |-> x, flags |-> M1 \cup M2 \cup M3 \cup M4]
    BY <2>3, <2>5, <2>6, <2>7, <2>8, <2>9, <2>10, <2>11, <2>12 DEF E!ToFeedPayment
  <2>14. shown.of = x /\ shown.flags = M1 \cup M2 \cup M3 \cup M4 BY <2>13
  <2>15. pairs = twice /\ fanOut = many BY <1>1, <2>4, <2>6, <2>7, <2>14
  <2>16. M1 \subseteq {[flag |-> "amount_outlier", observed |-> x.amount, threshold |-> p95]}
    BY <2>9 DEF E!Mark
  <2>17. M4 \subseteq {[ flag |-> "new_account_high_value", observed |-> age,
                        threshold |-> NewAccountDays ]}
    BY <2>10 DEF E!Mark
  <2>18. M2 = IF twice >= RepeatedPair
              THEN {[flag |-> "repeated_pair", observed |-> twice, threshold |-> RepeatedPair]} ELSE {}
    BY <2>11, <2>15 DEF E!Mark
  <2>19. M3 = IF many >= FundingMany
              THEN {[flag |-> "funding_many", observed |-> many, threshold |-> FundingMany]} ELSE {}
    BY <2>12, <2>15 DEF E!Mark
  <2>20. {f \in shown.flags : f.flag \in {"repeated_pair", "funding_many"}} = M2 \cup M3
    BY <2>14, <2>16, <2>17, <2>18, <2>19
  <2>21. {<<f.flag, f.observed>> : f \in M2} = IF twice >= RepeatedPair THEN {<<"repeated_pair", twice>>} ELSE {}
    BY <2>18, MarksRead
  <2>22. {<<f.flag, f.observed>> : f \in M3} = IF many >= FundingMany THEN {<<"funding_many", many>>} ELSE {}
    BY <2>19, MarksRead
  <2>23. {<<f.flag, f.observed>> : f \in M2 \cup M3}
           = {<<f.flag, f.observed>> : f \in M2} \cup {<<f.flag, f.observed>> : f \in M3}
    OBVIOUS
  <2>q. QED BY <2>20, <2>21, <2>22, <2>23
<1>q. QED BY <1>1 DEF E!MarksCountPayments

\* The invariant of the tables and of the reports.
LEMMA EconomyHolds == ReadSpec => [](topic = "economy" => EconomyIInv)
<1> DEFINE Inv == topic = "economy" => EconomyIInv
<1>1. ReadInit => Inv BY EconomyInitOK, ReadAssumption DEF ReadInit
<1>2. Inv /\ [ReadNext]_readVars => Inv'
  BY OneTopic, EconomyNextOK, ReadAssumption
<1> HIDE DEF Inv
<1>3. ReadSpec => []Inv BY <1>1, <1>2, PTL DEF ReadSpec, readVars
<1>q. QED BY <1>3 DEF Inv

\* A cohort table that is published is dated by a run that found somebody, and
\* everybody that run wrote has a cohort in it: for any players and months,
\* whomever each night finds or leaves out, and whatever is written between the
\* read of the provenance and that of the rows.
\* Code: economy.service.ts dimensionState, revenue, firstSpend;
\* player-dimension.sync.service.ts run, player-dimension.store.ts upsert
THEOREM FoundedCohorts == ReadSpec => []CohortsAreFounded
<1> DEFINE Inv == topic = "economy" => EconomyIInv
<1>1. Inv => CohortsAreFounded BY DEF EconomyIInv, CohortsAreFounded
<1>2. ReadSpec => []Inv BY EconomyHolds
<1> HIDE DEF Inv
<1>q. QED BY <1>1, <1>2, PTL

\* The reports made of the same tables agree with each other: revenue with its
\* split by platform, by cohort and by position, to the last cent and buyer.
\* Code: economy.service.ts revenue, firstSpend, funnelPosition
THEOREM AgreeingReports == ReadSpec => []ReportsAgree
<1> DEFINE Inv == topic = "economy" => EconomyIInv
<1>1. Inv => ReportsAgree BY TablesHold, TablesAgree, ReadAssumption DEF ReportsAgree
<1>2. ReadSpec => []Inv BY EconomyHolds
<1> HIDE DEF Inv
<1>q. QED BY <1>1, <1>2, PTL

\* A mark on the feed counts the payments themselves, each once, wherever the
\* page of the feed was cut: for any ledger.
\* Code: payments-feed.service.ts feed, toFeedPayment
THEOREM CountedMarks == ReadSpec => []MarksCountPayments
<1> DEFINE Inv == topic = "economy" => EconomyIInv
<1>1. Inv => MarksCountPayments BY MarksCount, ReadAssumption DEF MarksCountPayments
<1>2. ReadSpec => []Inv BY EconomyHolds
<1> HIDE DEF Inv
<1>q. QED BY <1>1, <1>2, PTL
=============================================================================
