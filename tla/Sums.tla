-------------------------------- MODULE Sums --------------------------------
(***************************************************************************)
(* What the folds of the community modules come to when they add integers  *)
(* up, for any finite set: the sum over a set is that of any of its        *)
(* members and of the rest.                                                *)
(*                                                                         *)
(* The folds are recursive functions on subsets that take a member by      *)
(* CHOOSE.  Induction is by contradiction: of the subsets of a finite set  *)
(* for which a claim fails, one has no smaller one for which it does.      *)
(***************************************************************************)
EXTENDS Integers, FiniteSets, FiniteSetsExt, Functions, FiniteSetTheorems,
        WellFoundedInduction, NaturalsInduction, TLAPS

LEMMA LeastOf ==
  ASSUME NEW S, S \subseteq Nat, S # {}
  PROVE  \E x \in S : \A y \in S : x <= y
  <1>1. PICK x \in S : \A y \in S : ~(<<y, x>> \in OpToRel(<, Nat))
    BY WFMin, NatLessThanWellFounded
  <1>2. ASSUME NEW y \in S PROVE x <= y
    <2>1. <<y, x>> \notin OpToRel(<, Nat)
      BY <1>1
    <2>2. ~(y < x)
      BY <2>1 DEF OpToRel
    <2> QED BY <2>2
  <1> QED BY <1>2

(* Of some subsets of a finite set, one has none of the others inside it. *)
LEMMA SmallestOf ==
  ASSUME NEW S, IsFiniteSet(S), NEW B \in SUBSET SUBSET S, B # {}
  PROVE  \E b \in B : \A s \in B : s \subseteq b => s = b
  <1> DEFINE sizes == {Cardinality(b) : b \in B}
  <1>1. \A b \in B : IsFiniteSet(b) /\ Cardinality(b) \in Nat
    BY FS_Subset, FS_CardinalityType
  <1>2. PICK n \in sizes : \A m \in sizes : n <= m
    <2>1. sizes \subseteq Nat /\ sizes # {}
      BY <1>1
    <2> HIDE DEF sizes
    <2> QED BY <2>1, LeastOf
  <1>3. PICK b \in B : Cardinality(b) = n
    BY <1>2
  <1>4. ASSUME NEW s \in B, s \subseteq b PROVE s = b
    <2>1. Cardinality(b) <= Cardinality(s)
      BY <1>2, <1>3
    <2>2. Cardinality(s) <= Cardinality(b)
      BY <1>1, <1>4, FS_Subset
    <2>3. Cardinality(s) = Cardinality(b)
      BY <1>1, <2>1, <2>2
    <2> QED BY <1>1, <1>4, <2>3, FS_Subset
  <1> QED BY <1>4

-----------------------------------------------------------------------------
(* f is what the fold of h iterates over the subsets of S. *)
First(s) == CHOOSE x \in s : TRUE
Tallies(f, h, S) ==
  f = [s \in SUBSET S |-> IF s = {} THEN 0 ELSE h[First(s)] + f[s \ {First(s)}]]
Whole(h, S) == \A x \in S : h[x] \in Int

LEMMA FirstOf ==
  ASSUME NEW s, s # {}
  PROVE  First(s) \in s
  BY DEF First

LEMMA TallyExists ==
  ASSUME NEW S, IsFiniteSet(S), NEW h
  PROVE  \E f : Tallies(f, h, S)
  <1> DEFINE Upto(n) == {s \in SUBSET S : Cardinality(s) <= n}
             TalliesTo(f, n) ==
               f = [s \in Upto(n) |->
                      IF s = {} THEN 0 ELSE h[First(s)] + f[s \ {First(s)}]]
             bad == {n \in Nat : ~\E f : TalliesTo(f, n)}
  <1>1. \A s \in SUBSET S : IsFiniteSet(s) /\ Cardinality(s) \in Nat
    BY FS_Subset, FS_CardinalityType
  <1>2. \A s \in SUBSET S : s # {} => /\ s \ {First(s)} \in SUBSET S
                                      /\ Cardinality(s \ {First(s)}) = Cardinality(s) - 1
    BY <1>1, FS_RemoveElement, FirstOf
  <1>3. 0 \notin bad
    <2> DEFINE f == [s \in Upto(0) |-> 0]
    <2>1. \A s \in Upto(0) : s = {}
      BY <1>1, FS_EmptySet
    <2>2. TalliesTo(f, 0)
      BY <2>1
    <2> QED BY <2>2
  <1>4. ASSUME NEW n \in Nat, n \notin bad PROVE n + 1 \notin bad
    <2>1. PICK f : TalliesTo(f, n)
      BY <1>4
    <2> DEFINE g == [s \in Upto(n + 1) |->
                       IF s = {} THEN 0 ELSE h[First(s)] + f[s \ {First(s)}]]
    <2>2. \A s \in Upto(n) : s \in Upto(n + 1) /\ g[s] = f[s]
      <3>1. \A s \in Upto(n) : s \in Upto(n + 1)
        BY <1>1
      <3> HIDE DEF Upto
      <3> QED BY <2>1, <3>1
    <2>3. \A s \in Upto(n + 1) : s # {} => s \ {First(s)} \in Upto(n)
      BY <1>1, <1>2
    <2>4. \A s \in Upto(n + 1) : s # {} => g[s \ {First(s)}] = f[s \ {First(s)}]
      BY <2>2, <2>3
    <2> HIDE DEF Upto
    <2>5. TalliesTo(g, n + 1)
      BY <2>4
    <2> QED BY <2>5
  <1> HIDE DEF TalliesTo
  <1>5. bad = {}
    <2> SUFFICES ASSUME bad # {} PROVE FALSE
      OBVIOUS
    <2>1. PICK n \in bad : \A m \in bad : n <= m
      BY LeastOf
    <2>2. n \in Nat /\ n # 0
      BY <1>3, <2>1
    <2>3. n - 1 \in Nat /\ n - 1 \notin bad
      BY <2>1, <2>2
    <2> QED BY <1>4, <2>2, <2>3
  <1>6. Cardinality(S) \in Nat /\ Upto(Cardinality(S)) = SUBSET S
    BY <1>1, FS_Subset
  <1>7. PICK f : TalliesTo(f, Cardinality(S))
    BY <1>5, <1>6
  <1>8. Tallies(f, h, S)
    BY <1>6, <1>7 DEF TalliesTo, Tallies
  <1> QED BY <1>8

(* A set's tally is that of any member and of the rest. *)
LEMMA TallyAny ==
  ASSUME NEW S, IsFiniteSet(S), NEW h, Whole(h, S), NEW f, Tallies(f, h, S)
  PROVE  /\ f[{}] = 0
         /\ \A s \in SUBSET S :
              f[s] \in Int /\ \A x \in s : f[s] = h[x] + f[s \ {x}]
  <1> DEFINE good(s) == f[s] \in Int /\ \A x \in s : f[s] = h[x] + f[s \ {x}]
             bad == {s \in SUBSET S : ~good(s)}
  <1>1. f[{}] = 0
    BY DEF Tallies
  <1>2. \A s \in SUBSET S : s # {} => /\ First(s) \in s
                                      /\ f[s] = h[First(s)] + f[s \ {First(s)}]
    BY FirstOf DEF Tallies
  <1>3. bad = {}
    <2> SUFFICES ASSUME bad # {} PROVE FALSE
      OBVIOUS
    <2>1. PICK s \in bad : \A t \in bad : t \subseteq s => t = s
      <3>1. bad \in SUBSET SUBSET S
        OBVIOUS
      <3> HIDE DEF bad
      <3> QED BY <3>1, SmallestOf
    <2>2. \A t \in SUBSET s : t # s => good(t)
      BY <2>1
    <2>3. s # {}
      <3>1. good({})
        BY <1>1
      <3> QED BY <2>1, <3>1
    <2> DEFINE c == First(s)
    <2>4. c \in s /\ f[s] = h[c] + f[s \ {c}]
      BY <1>2, <2>3, <2>1
    <2>5. s \ {c} \in SUBSET s /\ s \ {c} # s
      BY <2>4
    <2>6. h[c] \in Int /\ f[s \ {c}] \in Int
      BY <2>1, <2>2, <2>4, <2>5 DEF Whole
    <2>7. ASSUME NEW x \in s PROVE f[s] = h[x] + f[s \ {x}]
      <3>1. CASE x = c
        BY <2>4, <3>1
      <3>2. CASE x # c
        <4> DEFINE both == s \ {c, x}
        <4>1. /\ s \ {x} \in SUBSET s /\ s \ {x} # s /\ c \in s \ {x}
              /\ (s \ {x}) \ {c} = both
          BY <2>4, <3>2
        <4>2. x \in s \ {c} /\ (s \ {c}) \ {x} = both
          BY <2>7, <3>2
        <4>3. f[s \ {x}] = h[c] + f[both]
          BY <2>2, <4>1
        <4>4. f[s \ {c}] = h[x] + f[both]
          BY <2>2, <2>5, <4>2
        <4>5. both \in SUBSET s /\ both # s
          BY <2>4
        <4>6. f[both] \in Int /\ h[x] \in Int
          BY <2>1, <2>2, <4>5 DEF Whole
        <4> HIDE DEF c, both
        <4> QED BY <2>4, <2>6, <4>3, <4>4, <4>6
      <3> QED BY <3>1, <3>2
    <2>8. good(s)
      BY <2>4, <2>6, <2>7
    <2> QED BY <2>1, <2>8
  <1> QED BY <1>1, <1>3

(* Two tallies agree where what they add up does, whatever else they cover. *)
LEMMA TalliesAgree ==
  ASSUME NEW S, NEW T, IsFiniteSet(T), NEW h, NEW g, NEW f1, NEW f2, T \subseteq S,
         Tallies(f1, h, S), Tallies(f2, g, T), \A x \in T : h[x] = g[x]
  PROVE  f1[T] = f2[T]
  <1> DEFINE bad == {s \in SUBSET T : f1[s] # f2[s]}
  <1>1. \A s \in SUBSET T :
          /\ f1[s] = IF s = {} THEN 0 ELSE h[First(s)] + f1[s \ {First(s)}]
          /\ f2[s] = IF s = {} THEN 0 ELSE g[First(s)] + f2[s \ {First(s)}]
    BY DEF Tallies
  <1>2. bad = {}
    <2> SUFFICES ASSUME bad # {} PROVE FALSE
      OBVIOUS
    <2>1. PICK s \in bad : \A t \in bad : t \subseteq s => t = s
      <3>1. bad \in SUBSET SUBSET T
        OBVIOUS
      <3> HIDE DEF bad
      <3> QED BY <3>1, SmallestOf
    <2>2. s # {}
      BY <1>1, <2>1
    <2> DEFINE c == First(s)
    <2>3. c \in s
      BY <2>2, FirstOf
    <2>4. f1[s \ {c}] = f2[s \ {c}]
      BY <2>1, <2>3
    <2>5. h[c] = g[c]
      BY <2>1, <2>3
    <2>6. f1[s] = h[c] + f1[s \ {c}] /\ f2[s] = g[c] + f2[s \ {c}]
      BY <1>1, <2>1, <2>2
    <2> QED BY <2>1, <2>4, <2>5, <2>6
  <1> QED BY <1>2

-----------------------------------------------------------------------------
(* The sum of a function over a set, as the community modules have it. *)

LEMMA SumIsTally ==
  ASSUME NEW S, IsFiniteSet(S), NEW h
  PROVE  \E f : Tallies(f, h, S) /\ SumFunctionOnSet(h, S) = f[S]
  <1>1. PICK f : Tallies(f, h, S)
    BY TallyExists
  <1> QED BY <1>1 DEF Tallies, First, SumFunctionOnSet, FoldFunctionOnSet, MapThenFoldSet

LEMMA SumNothing ==
  ASSUME NEW h
  PROVE  SumFunctionOnSet(h, {}) = 0
  BY SumIsTally, FS_EmptySet DEF Tallies

LEMMA SumSame ==
  ASSUME NEW S, IsFiniteSet(S), NEW h, NEW g, \A x \in S : h[x] = g[x]
  PROVE  SumFunctionOnSet(h, S) = SumFunctionOnSet(g, S)
  BY SumIsTally, TalliesAgree

(* What is inside a tally is a sum of its own. *)
LEMMA SumInside ==
  ASSUME NEW S, IsFiniteSet(S), NEW h, NEW f, Tallies(f, h, S), NEW T \in SUBSET S
  PROVE  f[T] = SumFunctionOnSet(h, T)
  BY SumIsTally, TalliesAgree, FS_Subset

LEMMA SumAny ==
  ASSUME NEW S, IsFiniteSet(S), NEW h, Whole(h, S)
  PROVE  /\ SumFunctionOnSet(h, S) \in Int
         /\ \A x \in S : SumFunctionOnSet(h, S) = h[x] + SumFunctionOnSet(h, S \ {x})
  <1>1. PICK f : Tallies(f, h, S)
    BY TallyExists
  <1>2. f[S] \in Int /\ \A x \in S : f[S] = h[x] + f[S \ {x}]
    BY <1>1, TallyAny
  <1>3. f[S] = SumFunctionOnSet(h, S)
        /\ \A x \in S : f[S \ {x}] = SumFunctionOnSet(h, S \ {x})
    BY <1>1, SumInside
  <1> QED BY <1>2, <1>3

LEMMA SumWithin ==
  ASSUME NEW S, IsFiniteSet(S), NEW h, Whole(h, S), NEW T \in SUBSET S
  PROVE  IsFiniteSet(T) /\ Whole(h, T) /\ SumFunctionOnSet(h, T) \in Int
  BY FS_Subset, SumAny DEF Whole

(* One more. *)
LEMMA SumMore ==
  ASSUME NEW S, IsFiniteSet(S), NEW h, NEW x, x \notin S, Whole(h, S \cup {x})
  PROVE  SumFunctionOnSet(h, S \cup {x}) = h[x] + SumFunctionOnSet(h, S)
  <1>1. IsFiniteSet(S \cup {x}) /\ (S \cup {x}) \ {x} = S
    BY FS_AddElement
  <1> QED BY <1>1, SumAny

(* What adds nothing may be left out. *)
LEMMA SumOfWhatCounts ==
  ASSUME NEW S, IsFiniteSet(S), NEW h, Whole(h, S), NEW T \in SUBSET S,
         \A x \in S \ T : h[x] = 0
  PROVE  SumFunctionOnSet(h, S) = SumFunctionOnSet(h, T)
  <1> DEFINE bad == {s \in SUBSET S : T \subseteq s
                       /\ SumFunctionOnSet(h, s) # SumFunctionOnSet(h, T)}
  <1>1. bad = {}
    <2> SUFFICES ASSUME bad # {} PROVE FALSE
      OBVIOUS
    <2>1. PICK s \in bad : \A t \in bad : t \subseteq s => t = s
      <3>1. bad \in SUBSET SUBSET S
        OBVIOUS
      <3> HIDE DEF bad
      <3> QED BY <3>1, SmallestOf
    <2>2. s # T
      BY <2>1
    <2>3. PICK x \in s \ T : TRUE
      BY <2>1, <2>2
    <2>4. h[x] = 0
      BY <2>1, <2>3
    <2>5. s \ {x} \in SUBSET S /\ T \subseteq s \ {x} /\ s \ {x} # s
      BY <2>1, <2>3
    <2>6. SumFunctionOnSet(h, s \ {x}) = SumFunctionOnSet(h, T)
      BY <2>1, <2>5
    <2>7. SumFunctionOnSet(h, s) = h[x] + SumFunctionOnSet(h, s \ {x})
      BY <2>1, <2>3, SumWithin, SumAny
    <2>8. SumFunctionOnSet(h, T) \in Int
      BY SumWithin
    <2> QED BY <2>1, <2>4, <2>6, <2>7, <2>8
  <1> QED BY <1>1

(* The sums of two sets that have nothing in common add up. *)
LEMMA SumBoth ==
  ASSUME NEW S, NEW T, IsFiniteSet(S), IsFiniteSet(T), S \cap T = {}, NEW h,
         Whole(h, S \cup T)
  PROVE  SumFunctionOnSet(h, S \cup T) = SumFunctionOnSet(h, S) + SumFunctionOnSet(h, T)
  <1> DEFINE bad == {s \in SUBSET T :
                       SumFunctionOnSet(h, S \cup s)
                         # SumFunctionOnSet(h, S) + SumFunctionOnSet(h, s)}
  <1>1. bad = {}
    <2> SUFFICES ASSUME bad # {} PROVE FALSE
      OBVIOUS
    <2>1. PICK s \in bad : \A t \in bad : t \subseteq s => t = s
      <3>1. bad \in SUBSET SUBSET T
        OBVIOUS
      <3> HIDE DEF bad
      <3> QED BY <3>1, SmallestOf
    <2>2. IsFiniteSet(S \cup T)
      BY FS_Union
    <2>3. SumFunctionOnSet(h, S) \in Int /\ SumFunctionOnSet(h, s) \in Int
      BY <2>1, <2>2, SumWithin
    <2>4. s # {}
      <3>1. S \cup {} = S
        OBVIOUS
      <3>2. SumFunctionOnSet(h, S \cup {})
              = SumFunctionOnSet(h, S) + SumFunctionOnSet(h, {})
        BY <2>3, <3>1, SumNothing
      <3> QED BY <2>1, <3>2
    <2>5. PICK x \in s : TRUE
      BY <2>4
    <2>6. /\ (S \cup s) \ {x} = S \cup (s \ {x})
          /\ s \ {x} \in SUBSET T /\ s \ {x} # s /\ s \ {x} \subseteq s
      BY <2>1, <2>5
    <2>7. SumFunctionOnSet(h, S \cup (s \ {x}))
            = SumFunctionOnSet(h, S) + SumFunctionOnSet(h, s \ {x})
      BY <2>1, <2>6
    <2>8. /\ IsFiniteSet(S \cup s) /\ Whole(h, S \cup s)
          /\ IsFiniteSet(s) /\ Whole(h, s)
      BY <2>1, <2>2, SumWithin
    <2>9. /\ SumFunctionOnSet(h, S \cup s) = h[x] + SumFunctionOnSet(h, (S \cup s) \ {x})
          /\ SumFunctionOnSet(h, s) = h[x] + SumFunctionOnSet(h, s \ {x})
      BY <2>5, <2>8, SumAny
    <2>10. h[x] \in Int /\ SumFunctionOnSet(h, s \ {x}) \in Int
      BY <2>1, <2>2, <2>5, <2>6, SumWithin DEF Whole
    <2> QED BY <2>1, <2>3, <2>6, <2>7, <2>9, <2>10
  <1> QED BY <1>1

-----------------------------------------------------------------------------
(* Sums compared. *)

(* What holds of a set where it holds of the set without any one of its    *)
(* members, holds of every subset of a finite set.                         *)
LEMMA BySubsets ==
  ASSUME NEW S, IsFiniteSet(S), NEW good \in SUBSET SUBSET S, {} \in good,
         \A s \in SUBSET S : \A x \in s : s \ {x} \in good => s \in good
  PROVE  S \in good
  <1> DEFINE bad == (SUBSET S) \ good
  <1>1. bad \in SUBSET SUBSET S
    OBVIOUS
  <1>2. bad = {}
    <2> SUFFICES ASSUME bad # {} PROVE FALSE
      OBVIOUS
    <2>1. PICK s \in bad : \A t \in bad : t \subseteq s => t = s
      <3> HIDE DEF bad
      <3> QED BY <1>1, SmallestOf
    <2>2. PICK x \in s : TRUE
      <3>1. s \notin good /\ s # {}
        BY <2>1
      <3> QED BY <3>1
    <2>3. s \ {x} \in SUBSET S /\ s \ {x} \subseteq s /\ s \ {x} # s
      BY <2>1, <2>2
    <2>4. s \ {x} \in good
      BY <2>1, <2>3
    <2> QED BY <2>1, <2>2, <2>4
  <1> QED BY <1>2

(* What is so of each member, is so of the sums: a multiple of one number  *)
(* that is made up of a multiple of another and of a third.                *)
LEMMA SumBalanced ==
  ASSUME NEW S, IsFiniteSet(S), NEW h, Whole(h, S), NEW f, Whole(f, S), NEW g, Whole(g, S),
         NEW a \in Int, NEW c \in Int, \A x \in S : a * h[x] = c * f[x] + g[x]
  PROVE  a * SumFunctionOnSet(h, S) = c * SumFunctionOnSet(f, S) + SumFunctionOnSet(g, S)
  <1> DEFINE good == {s \in SUBSET S :
                a * SumFunctionOnSet(h, s) = c * SumFunctionOnSet(f, s) + SumFunctionOnSet(g, s)}
  <1>1. {} \in good
    BY SumNothing
  <1>2. ASSUME NEW s \in SUBSET S, NEW x \in s, s \ {x} \in good PROVE s \in good
    <2> DEFINE t == s \ {x}
               H == SumFunctionOnSet(h, t) F == SumFunctionOnSet(f, t) G == SumFunctionOnSet(g, t)
    <2>1. t \in SUBSET S
      OBVIOUS
    <2>2. H \in Int /\ F \in Int /\ G \in Int
      BY <2>1, SumWithin
    <2>3. /\ SumFunctionOnSet(h, s) = h[x] + H /\ SumFunctionOnSet(f, s) = f[x] + F
          /\ SumFunctionOnSet(g, s) = g[x] + G
      BY SumWithin, SumAny
    <2>4. a * H = c * F + G
      BY <1>2
    <2>5. h[x] \in Int /\ f[x] \in Int /\ g[x] \in Int /\ a * h[x] = c * f[x] + g[x]
      BY DEF Whole
    <2> HIDE DEF H, F, G
    <2>6. a * (h[x] + H) = c * (f[x] + F) + (g[x] + G)
      <3> DEFINE hx == h[x]  fx == f[x]  gx == g[x]
      <3>1. hx \in Int /\ fx \in Int /\ gx \in Int /\ a * hx = c * fx + gx
        BY <2>5
      <3> HIDE DEF hx, fx, gx
      <3>2. a * (hx + H) = c * (fx + F) + (gx + G)
        <4>1. a * (hx + H) = a * hx + a * H
          BY <2>2, <3>1
        <4>2. c * (fx + F) = c * fx + c * F
          BY <2>2, <3>1
        <4>3. a * hx \in Int /\ a * H \in Int /\ c * fx \in Int /\ c * F \in Int
          BY <2>2, <3>1
        <4> QED BY <2>2, <2>4, <3>1, <4>1, <4>2, <4>3
      <3> QED BY <3>2 DEF hx, fx, gx
    <2> QED BY <2>3, <2>6
  <1> HIDE DEF good
  <1>3. good \in SUBSET SUBSET S
    BY DEF good
  <1>4. S \in good
    BY <1>1, <1>2, <1>3, BySubsets
  <1> QED BY <1>4 DEF good

(* A sum of numbers that are each no more than c. *)
LEMMA SumAtMost ==
  ASSUME NEW S, IsFiniteSet(S), NEW h, Whole(h, S), NEW c \in Int, \A x \in S : h[x] <= c
  PROVE  SumFunctionOnSet(h, S) <= c * Cardinality(S)
  <1> DEFINE good == {s \in SUBSET S : SumFunctionOnSet(h, s) <= c * Cardinality(s)}
  <1>1. {} \in good
    BY SumNothing, FS_EmptySet
  <1>2. ASSUME NEW s \in SUBSET S, NEW x \in s, s \ {x} \in good PROVE s \in good
    <2> DEFINE t == s \ {x}  H == SumFunctionOnSet(h, t)  n == Cardinality(t)
    <2>1. t \in SUBSET S /\ IsFiniteSet(s) /\ IsFiniteSet(t)
      BY FS_Subset
    <2>2. H \in Int /\ n \in Nat
      BY <2>1, SumWithin, FS_CardinalityType
    <2>3. SumFunctionOnSet(h, s) = h[x] + H
      BY SumWithin, SumAny
    <2>4. Cardinality(s) = n + 1
      BY <2>1, FS_RemoveElement, FS_CardinalityType
    <2>5. H <= c * n /\ h[x] \in Int /\ h[x] <= c
      BY <1>2 DEF Whole
    <2> HIDE DEF H, n
    <2>6. c * (n + 1) = c * n + c /\ c * n \in Int
      BY <2>2
    <2> QED BY <2>2, <2>3, <2>4, <2>5, <2>6
  <1> HIDE DEF good
  <1>3. good \in SUBSET SUBSET S
    BY DEF good
  <1>4. S \in good
    BY <1>1, <1>2, <1>3, BySubsets
  <1> QED BY <1>4 DEF good

(* And at least. *)
LEMMA SumAtLeast ==
  ASSUME NEW S, IsFiniteSet(S), NEW h, Whole(h, S), NEW c \in Int, \A x \in S : h[x] >= c
  PROVE  SumFunctionOnSet(h, S) >= c * Cardinality(S)
  <1> DEFINE m == [x \in S |-> -h[x]]
  <1>1. Whole(m, S) /\ (\A x \in S : m[x] <= -c) /\ \A x \in S : (-1) * h[x] = 0 * h[x] + m[x]
    BY DEF Whole
  <1> DEFINE M == SumFunctionOnSet(m, S)  H == SumFunctionOnSet(h, S)  n == Cardinality(S)
  <1> HIDE DEF m
  <1>2. M <= (-c) * n
    BY <1>1, SumAtMost
  <1>3. (-1) * H = 0 * H + M
    BY <1>1, SumBalanced
  <1>4. H \in Int /\ M \in Int /\ n \in Nat
    BY <1>1, SumAny, FS_CardinalityType
  <1> HIDE DEF M, H, n
  <1>5. (-c) * n = -(c * n) /\ c * n \in Int
    BY <1>4
  <1> QED BY <1>2, <1>3, <1>4, <1>5 DEF H, n

(* Ones are counted. *)
LEMMA SumOfOnes ==
  ASSUME NEW S, IsFiniteSet(S), NEW h, NEW T \in SUBSET S,
         \A x \in T : h[x] = 1, \A x \in S \ T : h[x] = 0
  PROVE  SumFunctionOnSet(h, S) = Cardinality(T)
  <1>1. Whole(h, S) /\ Whole(h, T) /\ IsFiniteSet(T)
    BY FS_Subset DEF Whole
  <1>2. SumFunctionOnSet(h, S) = SumFunctionOnSet(h, T)
    BY <1>1, SumOfWhatCounts
  <1>3. Cardinality(T) \in Nat /\ SumFunctionOnSet(h, T) \in Int
    BY <1>1, FS_CardinalityType, SumAny
  <1>4. SumFunctionOnSet(h, T) <= 1 * Cardinality(T) /\ SumFunctionOnSet(h, T) >= 1 * Cardinality(T)
    BY <1>1, SumAtMost, SumAtLeast
  <1> QED BY <1>2, <1>3, <1>4

(* Sums up to a number. *)
LEMMA SumUpTo ==
  ASSUME NEW n \in Nat, NEW h, Whole(h, 1..n)
  PROVE  /\ SumFunctionOnSet(h, 1..n) \in Int
         /\ n > 0 => /\ Whole(h, 1..(n - 1)) /\ h[n] \in Int
                     /\ SumFunctionOnSet(h, 1..n) = h[n] + SumFunctionOnSet(h, 1..(n - 1))
  <1>1. IsFiniteSet(1..n)
    BY FS_Interval
  <1>2. n > 0 => (1..n) \ {n} = 1..(n - 1) /\ n \in 1..n
    OBVIOUS
  <1> QED BY <1>1, <1>2, SumAny DEF Whole

(* One number is taken out, and those after it move up. *)
LEMMA SumWithoutOne ==
  ASSUME NEW n \in Nat, NEW i \in 1..n, NEW h, NEW g,
         Whole(h, 1..n), Whole(g, 1..(n - 1)),
         \A j \in 1..(n - 1) : g[j] = IF j < i THEN h[j] ELSE h[j + 1]
  PROVE  SumFunctionOnSet(h, 1..n) = h[i] + SumFunctionOnSet(g, 1..(n - 1))
  <1> DEFINE bad == {k \in Nat : k \in (i - 1)..(n - 1)
                 /\ SumFunctionOnSet(h, 1..(k + 1)) # h[i] + SumFunctionOnSet(g, 1..k)}
  <1>1. \A k \in Nat : k <= n => Whole(h, 1..k)
    BY DEF Whole
  <1>2. \A k \in Nat : k <= n - 1 => Whole(g, 1..k)
    BY DEF Whole
  <1>3. bad = {}
    <2> SUFFICES ASSUME bad # {} PROVE FALSE
      OBVIOUS
    <2>1. PICK k \in bad : \A m \in bad : k <= m
      BY LeastOf
    <2> DEFINE H == SumFunctionOnSet(h, 1..k)  G == SumFunctionOnSet(g, 1..(k - 1))
    <2>2. /\ k \in Nat /\ i - 1 <= k /\ k <= n - 1
          /\ Whole(h, 1..k) /\ Whole(h, 1..(k + 1)) /\ Whole(g, 1..k)
      BY <1>1, <1>2, <2>1
    <2>3. SumFunctionOnSet(h, 1..(k + 1)) = h[k + 1] + H /\ h[k + 1] \in Int /\ H \in Int
      <3>1. k + 1 \in Nat /\ k + 1 > 0 /\ (k + 1) - 1 = k
        BY <2>2
      <3> QED BY <2>2, <3>1, SumUpTo
    <2>4. SumFunctionOnSet(h, 1..(k + 1)) # h[i] + SumFunctionOnSet(g, 1..k)
      BY <2>1
    <2>5. CASE k = i - 1
      <3>1. \A j \in 1..k : g[j] = h[j]
        BY <2>2, <2>5
      <3>2. SumFunctionOnSet(g, 1..k) = H
        <4>1. IsFiniteSet(1..k)
          BY <2>2, FS_Interval
        <4> QED BY <3>1, <4>1, SumSame
      <3> QED BY <2>3, <2>5, <2>4, <3>2
    <2>6. CASE k # i - 1
      <3>1. k - 1 \in Nat /\ k > 0 /\ k - 1 \in (i - 1)..(n - 1) /\ (k - 1) + 1 = k
        BY <2>2, <2>6
      <3>2. H = h[i] + G
        BY <2>1, <3>1
      <3>3. SumFunctionOnSet(g, 1..k) = g[k] + G /\ g[k] \in Int /\ G \in Int
        BY <2>2, <3>1, SumUpTo
      <3>4. g[k] = h[k + 1]
        BY <2>2, <3>1
      <3>5. h[i] \in Int
        BY DEF Whole
      <3> HIDE DEF H, G
      <3>6. h[k + 1] + H = h[i] + (g[k] + G)
        <4> DEFINE x == h[k + 1]  y == h[i]  z == g[k]
        <4>1. x \in Int /\ y \in Int /\ z \in Int /\ z = x /\ H = y + G /\ H \in Int /\ G \in Int
          BY <2>3, <3>2, <3>3, <3>4, <3>5
        <4> HIDE DEF x, y, z
        <4>2. x + H = y + (z + G)
          BY <4>1
        <4> QED BY <4>2 DEF x, y, z
      <3> QED BY <2>3, <2>4, <3>3, <3>6
    <2> QED BY <2>5, <2>6
  <1>4. n - 1 \in Nat /\ n - 1 \in (i - 1)..(n - 1) /\ (n - 1) + 1 = n
    OBVIOUS
  <1> QED BY <1>3, <1>4
=============================================================================
