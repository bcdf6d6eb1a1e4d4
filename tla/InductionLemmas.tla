---------------------------- MODULE InductionLemmas ----------------------------
(***************************************************************************)
(* Induction by a least counterexample, and what it shows of the operators *)
(* of the community modules that the models use.                           *)
(*                                                                         *)
(* The induction theorems of the library take a predicate as a parameter.  *)
(* Here the counterexamples are a set instead: a set of naturals that is   *)
(* not empty has a least element.                                          *)
(***************************************************************************)
EXTENDS Ordering, FiniteSetsExt, FiniteSetTheorems, SequenceTheorems, TLAPS

LEMMA LeastNatural ==
  ASSUME NEW S, S \subseteq Nat, S # {}
  PROVE  \E m \in S : \A k \in S : m <= k
<1> DEFINE T == {0..k : k \in S}
<1>1. T \subseteq FiniteSubsetsOf(Nat) /\ T # {}
  <2>1. \A k \in S : 0..k \in SUBSET Nat /\ IsFiniteSet(0..k)
    BY FS_Interval
  <2> QED BY <2>1 DEF FiniteSubsetsOf
<1>2. \E x \in T : \A y \in T : ~(<<y, x>> \in StrictSubsetOrdering(Nat))
  <2> HIDE DEF T
  <2> QED BY <1>1, FS_StrictSubsetOrderingWellFounded, WFMin
<1>3. PICK m \in S : \A y \in T : ~(<<y, 0..m>> \in StrictSubsetOrdering(Nat))
  BY <1>2
<1>4. ASSUME NEW k \in S, ~(m <= k) PROVE FALSE
  <2>1. 0..k \subseteq 0..m /\ 0..k # 0..m /\ 0..k \in SUBSET Nat /\ 0..m \in SUBSET Nat
    <3>1. m \in Nat /\ k \in Nat /\ k < m
      BY <1>4
    <3>2. m \in 0..m /\ m \notin 0..k
      BY <3>1
    <3> QED BY <3>1, <3>2
  <2>2. <<0..k, 0..m>> \in StrictSubsetOrdering(Nat)
    BY <2>1 DEF StrictSubsetOrdering
  <2> QED BY <1>3, <2>2
<1> QED BY <1>4

-----------------------------------------------------------------------------
(* Sums over finite sets. *)

(* The sum of what w assigns to the elements of S.                          *)
SumOf(w, S) == MapThenSumSet(LAMBDA x : w[x], S)

Chosen(s) == CHOOSE x \in s : TRUE
SumStep(w, f, s) == IF s = {} THEN 0 ELSE w[Chosen(s)] + f[s \ {Chosen(s)}]
SumIter(w, S) == CHOOSE f : f = [s \in SUBSET S |-> SumStep(w, f, s)]

LEMMA SumIsIter == \A w, S : SumOf(w, S) = SumIter(w, S)[S]
BY DEF SumOf, SumIter, SumStep, Chosen, MapThenSumSet, MapThenFoldSet

LEMMA ChosenOne ==
  ASSUME NEW s, s # {}, IsFiniteSet(s)
  PROVE  /\ Chosen(s) \in s
         /\ IsFiniteSet(s \ {Chosen(s)})
         /\ Cardinality(s) \in Nat \ {0}
         /\ Cardinality(s \ {Chosen(s)}) = Cardinality(s) - 1
<1>1. Chosen(s) \in s
  BY DEF Chosen
<1>2. Cardinality(s) \in Nat /\ Cardinality(s) # 0
  BY FS_CardinalityType, FS_EmptySet
<1> QED BY <1>1, <1>2, FS_RemoveElement

(* Such a function exists: it is built up to sets of one more element, and  *)
(* there would be a least number of elements that it is not built for.      *)
LEMMA SumIterAt ==
  ASSUME NEW w, NEW S, IsFiniteSet(S)
  PROVE  \A s \in SUBSET S : SumIter(w, S)[s] = SumStep(w, SumIter(w, S), s)
<1> DEFINE Upto(f, k) == \A s \in SUBSET S : Cardinality(s) <= k => f[s] = SumStep(w, f, s)
           Bad == {k \in Nat : ~ \E f : Upto(f, k)}
<1>0. \A s \in SUBSET S : IsFiniteSet(s) /\ Cardinality(s) \in Nat
  BY FS_Subset, FS_CardinalityType
<1>1. 0 \notin Bad
  <2> DEFINE f == [s \in SUBSET S |-> 0]
  <2>1. ASSUME NEW s \in SUBSET S, Cardinality(s) <= 0 PROVE f[s] = SumStep(w, f, s)
    <3>1. s = {}
      BY <1>0, <2>1, FS_EmptySet
    <3> QED BY <3>1 DEF SumStep
  <2> HIDE DEF f
  <2> QED BY <2>1
<1>2. ASSUME NEW m \in Nat, NEW f, Upto(f, m)
      PROVE  \E g : Upto(g, m + 1)
  <2> DEFINE g == [s \in SUBSET S |-> IF Cardinality(s) <= m THEN f[s] ELSE SumStep(w, f, s)]
  <2>1. ASSUME NEW s \in SUBSET S, Cardinality(s) <= m + 1
        PROVE  g[s] = SumStep(w, g, s)
    <3>1. g[s] = SumStep(w, f, s)
      BY <1>2
    <3>2. CASE s = {}
      BY <3>1, <3>2 DEF SumStep
    <3>3. CASE s # {}
      <4>1. /\ s \ {Chosen(s)} \in SUBSET S
            /\ Cardinality(s \ {Chosen(s)}) <= m
        BY <1>0, <2>1, <3>3, ChosenOne
      <4>2. g[s \ {Chosen(s)}] = f[s \ {Chosen(s)}]
        BY <4>1
      <4> QED BY <3>1, <4>2 DEF SumStep
    <3> QED BY <3>2, <3>3
  <2> HIDE DEF g
  <2> QED BY <2>1
<1>3. Bad = {}
  <2> SUFFICES ASSUME Bad # {} PROVE FALSE
    OBVIOUS
  <2>1. PICK m \in Bad : \A k \in Bad : m <= k
    <3> HIDE DEF Bad
    <3>1. Bad \subseteq Nat
      BY DEF Bad
    <3> QED BY <3>1, LeastNatural
  <2>2. m - 1 \in Nat /\ m - 1 \notin Bad
    BY <1>1, <2>1
  <2>3. \E f : Upto(f, m - 1)
    BY <2>2
  <2>4. \E g : Upto(g, (m - 1) + 1)
    <3> HIDE DEF Upto
    <3> QED BY <1>2, <2>2, <2>3
  <2> QED BY <2>1, <2>4
<1>4. PICK f : Upto(f, Cardinality(S))
  BY <1>0, <1>3
<1> DEFINE h == [s \in SUBSET S |-> f[s]]
<1>5. h = [s \in SUBSET S |-> SumStep(w, h, s)]
  <2> SUFFICES ASSUME NEW s \in SUBSET S
               PROVE  f[s] = SumStep(w, h, s)
    OBVIOUS
  <2>1. f[s] = SumStep(w, f, s)
    BY <1>4, FS_Subset
  <2>2. s \ {Chosen(s)} \in SUBSET S
    OBVIOUS
  <2> QED BY <2>1, <2>2 DEF SumStep
<1> HIDE DEF h
<1> DEFINE g == SumIter(w, S)
<1>6. g = [s \in SUBSET S |-> SumStep(w, g, s)]
  BY <1>5 DEF SumIter
<1> HIDE DEF g
<1>7. \A s \in SUBSET S : g[s] = SumStep(w, g, s)
  BY <1>6
<1> QED BY <1>7 DEF g

(* The functions for a set and for a subset of it agree.                    *)
LEMMA SumIterAgrees ==
  ASSUME NEW w, NEW S, IsFiniteSet(S), NEW T \in SUBSET S
  PROVE  \A s \in SUBSET T : SumIter(w, S)[s] = SumIter(w, T)[s]
<1> DEFINE Bad == {Cardinality(s) : s \in {u \in SUBSET T : SumIter(w, S)[u] # SumIter(w, T)[u]}}
<1>0. /\ IsFiniteSet(T)
      /\ \A s \in SUBSET T : IsFiniteSet(s) /\ Cardinality(s) \in Nat
  BY FS_Subset, FS_CardinalityType
<1>1. Bad = {}
  <2> SUFFICES ASSUME Bad # {} PROVE FALSE
    OBVIOUS
  <2>1. PICK m \in Bad : \A k \in Bad : m <= k
    <3>1. Bad \subseteq Nat
      BY <1>0
    <3> HIDE DEF Bad
    <3> QED BY <3>1, LeastNatural
  <2>2. PICK s \in SUBSET T : SumIter(w, S)[s] # SumIter(w, T)[s] /\ m = Cardinality(s)
    BY <2>1
  <2>3. SumIter(w, S)[s] = SumStep(w, SumIter(w, S), s)
        /\ SumIter(w, T)[s] = SumStep(w, SumIter(w, T), s)
    BY <1>0, SumIterAt
  <2>4. s # {}
    BY <2>2, <2>3 DEF SumStep
  <2> DEFINE r == s \ {Chosen(s)}
  <2>5. r \in SUBSET T /\ Cardinality(r) < m /\ Cardinality(r) \in Nat
    BY <1>0, <2>2, <2>4, ChosenOne
  <2>6. SumIter(w, S)[r] = SumIter(w, T)[r]
    <3>1. Cardinality(r) \notin Bad
      <4> HIDE DEF Bad, r
      <4>1. m \in Nat
        BY <1>0, <2>2
      <4> QED BY <2>1, <2>5, <4>1
    <3> HIDE DEF r
    <3> QED BY <2>5, <3>1
  <2> QED BY <2>2, <2>3, <2>4, <2>6 DEF SumStep
<1> QED BY <1>1

(* A sum, taken apart at the element that is chosen first,                  *)
LEMMA SumAtChosen ==
  ASSUME NEW w, NEW S, IsFiniteSet(S)
  PROVE  /\ SumOf(w, {}) = 0
         /\ S # {} => SumOf(w, S) = w[Chosen(S)] + SumOf(w, S \ {Chosen(S)})
<1>1. ASSUME NEW T, IsFiniteSet(T) PROVE SumOf(w, T) = SumStep(w, SumIter(w, T), T)
  <2>1. T \in SUBSET T
    OBVIOUS
  <2> QED BY <1>1, <2>1, SumIterAt, SumIsIter
<1>2. SumOf(w, {}) = 0
  BY <1>1, FS_EmptySet DEF SumStep
<1>3. ASSUME S # {} PROVE SumOf(w, S) = w[Chosen(S)] + SumOf(w, S \ {Chosen(S)})
  <2> DEFINE r == S \ {Chosen(S)}
  <2>1. SumIter(w, S)[r] = SumIter(w, r)[r]
    BY SumIterAgrees
  <2>2. SumIter(w, r)[r] = SumOf(w, r)
    BY SumIsIter
  <2> QED BY <1>1, <1>3, <2>1, <2>2 DEF SumStep
<1> QED BY <1>2, <1>3

(* and at any element; it is an integer, or a natural, if the parts are.    *)
LEMMA SumAtAny ==
  ASSUME NEW S, IsFiniteSet(S), NEW w, \A x \in S : w[x] \in Int
  PROVE  /\ SumOf(w, S) \in Int
         /\ \A x \in S : SumOf(w, S) = w[x] + SumOf(w, S \ {x})
<1> DEFINE Holds(T) == /\ SumOf(w, T) \in Int
                       /\ \A x \in T : SumOf(w, T) = w[x] + SumOf(w, T \ {x})
           Bad == {Cardinality(T) : T \in {u \in SUBSET S : ~Holds(u)}}
<1>0. \A T \in SUBSET S : IsFiniteSet(T) /\ Cardinality(T) \in Nat
  BY FS_Subset, FS_CardinalityType
<1>1. Bad = {}
  <2> SUFFICES ASSUME Bad # {} PROVE FALSE
    OBVIOUS
  <2>1. PICK m \in Bad : \A k \in Bad : m <= k
    <3>1. Bad \subseteq Nat
      BY <1>0
    <3> HIDE DEF Bad
    <3> QED BY <3>1, LeastNatural
  <2>2. PICK T \in SUBSET S : ~Holds(T) /\ m = Cardinality(T)
    BY <2>1
  <2>3. ASSUME NEW U \in SUBSET S, Cardinality(U) < m PROVE Holds(U)
    <3>1. Cardinality(U) \in Nat /\ m \in Nat
      BY <1>0, <2>2
    <3>2. Cardinality(U) \notin Bad
      <4> HIDE DEF Bad
      <4> QED BY <2>1, <2>3, <3>1
    <3> HIDE DEF Holds
    <3> QED BY <3>2
  <2>4. T # {}
    <3>1. SumOf(w, {}) = 0
      BY FS_EmptySet, SumAtChosen
    <3>2. Holds({})
      BY <3>1
    <3> HIDE DEF Holds
    <3> QED BY <2>2, <3>2
  <2> DEFINE c == Chosen(T)
  <2>5. /\ c \in T /\ SumOf(w, T) = w[c] + SumOf(w, T \ {c}) /\ w[c] \in Int
        /\ SumOf(w, T \ {c}) \in Int
    <3>1. c \in T /\ SumOf(w, T) = w[c] + SumOf(w, T \ {c})
      BY <1>0, <2>4, ChosenOne, SumAtChosen
    <3>2. Cardinality(T \ {c}) < m
      BY <1>0, <2>2, <2>4, ChosenOne
    <3> QED BY <2>3, <3>1, <3>2
  <2> HIDE DEF c
  <2>6. ASSUME NEW x \in T PROVE SumOf(w, T) = w[x] + SumOf(w, T \ {x})
    <3>1. CASE x = c
      BY <2>5, <3>1
    <3>2. CASE x # c
      <4>1. \A y \in T : Cardinality(T \ {y}) < m
        BY <1>0, <2>2, FS_RemoveElement
      <4>2. x \in T \ {c} /\ c \in T \ {x}
        BY <2>5, <3>2
      <4>3. Holds(T \ {c}) /\ Holds(T \ {x})
        <5> HIDE DEF Holds
        <5> QED BY <2>3, <2>5, <4>1
      <4>4. (T \ {c}) \ {x} = (T \ {x}) \ {c}
        OBVIOUS
      <4>5. /\ SumOf(w, T \ {c}) = w[x] + SumOf(w, (T \ {x}) \ {c})
            /\ SumOf(w, T \ {x}) = w[c] + SumOf(w, (T \ {x}) \ {c})
        BY <4>2, <4>3, <4>4
      <4>6. w[x] \in Int /\ SumOf(w, (T \ {x}) \ {c}) \in Int
        <5>1. Cardinality((T \ {x}) \ {c}) < m
          <6>1. IsFiniteSet(T \ {x}) /\ Cardinality(T \ {x}) \in Nat
            BY <1>0
          <6>2. Cardinality((T \ {x}) \ {c}) <= Cardinality(T \ {x}) /\ Cardinality((T \ {x}) \ {c}) \in Nat
            BY <1>0, <6>1, FS_Subset
          <6>3. m \in Nat
            BY <1>0, <2>2
          <6> QED BY <4>1, <6>1, <6>2, <6>3
        <5> QED BY <2>3, <5>1
      <4> QED BY <2>5, <4>5, <4>6
    <3> QED BY <3>1, <3>2
  <2>7. SumOf(w, T) \in Int
    BY <2>5
  <2> QED BY <2>2, <2>6, <2>7
<1> QED BY <1>1, FS_CardinalityType

(* Induction over the subsets of a finite set: what holds of the empty set  *)
(* and stays true with one more element holds of the whole set.             *)
LEMMA ByElements ==
  ASSUME NEW S, IsFiniteSet(S), NEW Good, {} \in Good,
         \A T \in SUBSET S : \A x \in S \ T : T \in Good => T \cup {x} \in Good
  PROVE  S \in Good
<1> DEFINE Bad == {Cardinality(T) : T \in {u \in SUBSET S : u \notin Good}}
<1>0. \A T \in SUBSET S : IsFiniteSet(T) /\ Cardinality(T) \in Nat
  BY FS_Subset, FS_CardinalityType
<1> SUFFICES ASSUME S \notin Good PROVE FALSE
  OBVIOUS
<1>1. PICK m \in Bad : \A k \in Bad : m <= k
  <2>1. Bad \subseteq Nat /\ Bad # {}
    BY <1>0
  <2> HIDE DEF Bad
  <2> QED BY <2>1, LeastNatural
<1>2. PICK T \in SUBSET S : T \notin Good /\ m = Cardinality(T)
  BY <1>1
<1>3. PICK x \in T : TRUE
  BY <1>2
<1> DEFINE U == T \ {x}
<1>4. U \in SUBSET S /\ x \in S \ U /\ U \cup {x} = T
  BY <1>3
<1>5. Cardinality(U) < m
  <2>1. Cardinality(U) = Cardinality(T) - 1 /\ Cardinality(T) \in Nat
    BY <1>0, <1>3, FS_RemoveElement
  <2> QED BY <1>2, <2>1
<1>6. U \in Good
  <2>1. Cardinality(U) \in Nat /\ m \in Nat
    BY <1>0, <1>2, <1>4
  <2>2. Cardinality(U) \notin Bad
    <3> HIDE DEF Bad, U
    <3> QED BY <1>1, <1>5, <2>1
  <2> HIDE DEF U
  <2> QED BY <1>4, <2>2
<1> HIDE DEF U
<1> QED BY <1>2, <1>4, <1>6

(* A sum over one more element,                                             *)
LEMMA SumOneMore ==
  ASSUME NEW S, IsFiniteSet(S), NEW x, x \notin S, NEW w, \A y \in S \cup {x} : w[y] \in Int
  PROVE  SumOf(w, S \cup {x}) = SumOf(w, S) + w[x] /\ SumOf(w, S) \in Int
<1>1. IsFiniteSet(S \cup {x}) /\ (S \cup {x}) \ {x} = S
  BY FS_AddElement
<1>2. SumOf(w, S) \in Int
  BY SumAtAny
<1>3. SumOf(w, S \cup {x}) = w[x] + SumOf(w, (S \cup {x}) \ {x})
  <2>1. \A y \in S \cup {x} : SumOf(w, S \cup {x}) = w[y] + SumOf(w, (S \cup {x}) \ {y})
    BY <1>1, SumAtAny
  <2> QED BY <2>1
<1>4. w[x] \in Int
  OBVIOUS
<1>5. SumOf(w, S \cup {x}) = w[x] + SumOf(w, S)
  BY <1>1, <1>3
<1> QED BY <1>2, <1>4, <1>5

(* of equal parts,                                                          *)
LEMMA SumOfEqual ==
  ASSUME NEW S, IsFiniteSet(S), NEW w, NEW v, \A x \in S : w[x] \in Int /\ v[x] = w[x]
  PROVE  SumOf(v, S) = SumOf(w, S)
<1> DEFINE Good == {T \in SUBSET S : SumOf(v, T) = SumOf(w, T)}
<1>1. {} \in Good
  BY FS_EmptySet, SumAtChosen
<1>2. ASSUME NEW T \in SUBSET S, NEW x \in S \ T, SumOf(v, T) = SumOf(w, T)
      PROVE  SumOf(v, T \cup {x}) = SumOf(w, T \cup {x})
  <2>1. /\ IsFiniteSet(T) /\ x \notin T
        /\ \A y \in T \cup {x} : w[y] \in Int /\ v[y] \in Int
    BY FS_Subset
  <2>2. SumOf(w, T \cup {x}) = SumOf(w, T) + w[x]
    BY <2>1, SumOneMore
  <2>3. SumOf(v, T \cup {x}) = SumOf(v, T) + v[x]
    BY <2>1, SumOneMore
  <2> QED BY <1>2, <2>2, <2>3
<1>3. S \in Good
  <2>1. \A T \in SUBSET S : \A x \in S \ T : T \in Good => T \cup {x} \in Good
    BY <1>2
  <2> HIDE DEF Good
  <2> QED BY <1>1, <2>1, ByElements
<1> QED BY <1>3

(* of the same number,                                                    *)
LEMMA SumConstant ==
  ASSUME NEW S, IsFiniteSet(S), NEW w, NEW c \in Int, \A x \in S : w[x] = c
  PROVE  SumOf(w, S) = Cardinality(S) * c /\ Cardinality(S) \in Nat
<1> DEFINE Good == {T \in SUBSET S : SumOf(w, T) = Cardinality(T) * c}
<1>1. {} \in Good
  <2>1. SumOf(w, {}) = 0 /\ Cardinality({}) = 0
    BY FS_EmptySet, SumAtChosen
  <2> QED BY <2>1
<1>2. ASSUME NEW T \in SUBSET S, NEW x \in S \ T, T \in Good PROVE T \cup {x} \in Good
  <2>1. IsFiniteSet(T) /\ Cardinality(T) \in Nat
    BY FS_Subset, FS_CardinalityType
  <2>2. Cardinality(T \cup {x}) = Cardinality(T) + 1
    BY <2>1, FS_AddElement
  <2>3. SumOf(w, T \cup {x}) = SumOf(w, T) + w[x]
    <3>1. \A y \in T \cup {x} : w[y] \in Int
      OBVIOUS
    <3> HIDE DEF Good
    <3> QED BY <2>1, <3>1, SumOneMore
  <2>4. SumOf(w, T \cup {x}) = Cardinality(T) * c + c
    BY <1>2, <2>3
  <2>5. Cardinality(T) * c + c = (Cardinality(T) + 1) * c
    BY <2>1
  <2> QED BY <2>2, <2>4, <2>5
<1>3. S \in Good
  <2> HIDE DEF Good
  <2> QED BY <1>1, <1>2, ByElements
<1> QED BY <1>3, FS_CardinalityType

(* and with one part replaced.                                              *)
LEMMA SumWithOther ==
  ASSUME NEW S, IsFiniteSet(S), NEW x \in S, NEW w, NEW v,
         \A y \in S : w[y] \in Int /\ v[y] \in Int,
         \A y \in S \ {x} : v[y] = w[y]
  PROVE  /\ SumOf(v, S) = (SumOf(w, S) - w[x]) + v[x]
         /\ SumOf(w, S) \in Int /\ SumOf(v, S) \in Int
<1>1. IsFiniteSet(S \ {x})
  BY FS_RemoveElement
<1>2. SumOf(v, S \ {x}) = SumOf(w, S \ {x})
  BY <1>1, SumOfEqual
<1>3. SumOf(w, S \ {x}) \in Int
  BY <1>1, SumAtAny
<1>4. SumOf(w, S) = w[x] + SumOf(w, S \ {x}) /\ SumOf(w, S) \in Int
  BY SumAtAny
<1>5. SumOf(v, S) = v[x] + SumOf(v, S \ {x}) /\ SumOf(v, S) \in Int
  BY SumAtAny
<1> QED BY <1>2, <1>3, <1>4, <1>5

(* A sum in two parts, and of positive parts.                               *)
LEMMA SumParts ==
  ASSUME NEW S, IsFiniteSet(S), NEW w, \A x \in S : w[x] \in Int, NEW T \in SUBSET S
  PROVE  /\ SumOf(w, S) = SumOf(w, T) + SumOf(w, S \ T)
         /\ SumOf(w, T) \in Int /\ SumOf(w, S \ T) \in Int
<1> DEFINE Good == {U \in SUBSET (S \ T) : SumOf(w, T \cup U) = SumOf(w, T) + SumOf(w, U)}
<1>1. IsFiniteSet(T) /\ IsFiniteSet(S \ T)
  BY FS_Subset
<1>2. SumOf(w, T) \in Int /\ SumOf(w, S \ T) \in Int
  BY <1>1, SumAtAny
<1>3. {} \in Good
  <2>1. SumOf(w, {}) = 0 /\ T \cup {} = T
    BY FS_EmptySet, SumAtChosen
  <2> QED BY <1>2, <2>1
<1>4. ASSUME NEW U \in SUBSET (S \ T), NEW x \in (S \ T) \ U, U \in Good
      PROVE  U \cup {x} \in Good
  <2>1. /\ IsFiniteSet(U) /\ IsFiniteSet(T \cup U) /\ x \notin T \cup U
        /\ T \cup U \cup {x} \subseteq S
    BY <1>1, FS_Subset
  <2>2. SumOf(w, U \cup {x}) = SumOf(w, U) + w[x] /\ SumOf(w, U) \in Int
    <3>1. \A y \in U \cup {x} : w[y] \in Int
      OBVIOUS
    <3> HIDE DEF Good
    <3> QED BY <2>1, <3>1, SumOneMore
  <2>3. SumOf(w, (T \cup U) \cup {x}) = SumOf(w, T \cup U) + w[x]
    <3>1. \A y \in (T \cup U) \cup {x} : w[y] \in Int
      BY <2>1
    <3> HIDE DEF Good
    <3> QED BY <2>1, <3>1, SumOneMore
  <2>4. T \cup (U \cup {x}) = (T \cup U) \cup {x} /\ w[x] \in Int
    OBVIOUS
  <2>5. SumOf(w, T \cup (U \cup {x})) = SumOf(w, T) + SumOf(w, U \cup {x})
    <3>1. SumOf(w, T \cup U) = SumOf(w, T) + SumOf(w, U)
      BY <1>4
    <3> HIDE DEF Good
    <3>2. SumOf(w, T \cup (U \cup {x})) = (SumOf(w, T) + SumOf(w, U)) + w[x]
      BY <2>3, <2>4, <3>1
    <3>3. w[x] \in Int
      BY <2>4
    <3> QED BY <1>2, <2>2, <3>2, <3>3
  <2> QED BY <2>5
<1>5. S \ T \in Good
  <2> HIDE DEF Good
  <2> QED BY <1>1, <1>3, <1>4, ByElements
<1>6. T \cup (S \ T) = S
  OBVIOUS
<1> QED BY <1>2, <1>5, <1>6

LEMMA SumPositive ==
  ASSUME NEW S, IsFiniteSet(S), NEW w, \A x \in S : w[x] \in Nat \ {0}
  PROVE  SumOf(w, S) \in Nat /\ (S # {} => SumOf(w, S) > 0) /\ (S = {} => SumOf(w, S) = 0)
<1> DEFINE Good == {T \in SUBSET S : SumOf(w, T) >= 0 /\ (T # {} => SumOf(w, T) > 0)}
<1>1. SumOf(w, {}) = 0
  BY FS_EmptySet, SumAtChosen
<1>2. ASSUME NEW T \in SUBSET S, NEW x \in S \ T, T \in Good PROVE T \cup {x} \in Good
  <2>1. SumOf(w, T \cup {x}) = SumOf(w, T) + w[x] /\ SumOf(w, T) \in Int
    <3>1. IsFiniteSet(T) /\ \A y \in T \cup {x} : w[y] \in Int
      BY FS_Subset
    <3> HIDE DEF Good
    <3> QED BY <3>1, SumOneMore
  <2> QED BY <1>2, <2>1
<1>3. S \in Good
  <2>1. {} \in Good
    BY <1>1
  <2> HIDE DEF Good
  <2> QED BY <1>2, <2>1, ByElements
<1>4. SumOf(w, S) \in Int
  BY SumAtAny
<1> QED BY <1>1, <1>3, <1>4

LEMMA SumGrows ==
  ASSUME NEW S, IsFiniteSet(S), NEW w, \A x \in S : w[x] \in Nat \ {0}, NEW T \in SUBSET S
  PROVE  SumOf(w, T) \in Nat /\ SumOf(w, S) \in Nat /\ SumOf(w, T) <= SumOf(w, S)
<1>1. SumOf(w, S) = SumOf(w, T) + SumOf(w, S \ T)
  BY SumParts
<1>2. SumOf(w, T) \in Nat /\ SumOf(w, S) \in Nat /\ SumOf(w, S \ T) \in Nat
  BY FS_Subset, SumPositive
<1> QED BY <1>1, <1>2

(* A finite set that is not empty has a least element in a total order.     *)
LEMMA LeastOf ==
  ASSUME NEW S, IsFiniteSet(S), S # {}, NEW R,
         \A x, y \in S : <<x, y>> \in R \/ <<y, x>> \in R,
         \A x, y, z \in S : <<x, y>> \in R /\ <<y, z>> \in R => <<x, z>> \in R
  PROVE  \E m \in S : \A x \in S : <<m, x>> \in R
<1> DEFINE Good == {T \in SUBSET S : T # {} => \E m \in T : \A x \in T : <<m, x>> \in R}
<1>1. ASSUME NEW T \in SUBSET S, NEW y \in S \ T, T \in Good PROVE T \cup {y} \in Good
  <2>1. CASE T = {}
    BY <2>1
  <2>2. CASE T # {}
    <3>1. PICK m \in T : \A x \in T : <<m, x>> \in R
      BY <1>1, <2>2
    <3>2. CASE <<m, y>> \in R
      BY <3>1, <3>2
    <3>3. CASE <<y, m>> \in R
      <4>1. \A x \in T \cup {y} : <<y, x>> \in R
        BY <3>1, <3>3
      <4> QED BY <4>1
    <3> QED BY <3>2, <3>3
  <2> QED BY <2>1, <2>2
<1>2. S \in Good
  <2>1. {} \in Good
    OBVIOUS
  <2> HIDE DEF Good
  <2> QED BY <1>1, <2>1, ByElements
<1> QED BY <1>2

(* The greatest and the least of finitely many naturals.                    *)
LEMMA MaxMinOfNaturals ==
  ASSUME NEW S \in SUBSET Nat, S # {}
  PROVE  /\ Min(S) \in S /\ \A x \in S : Min(S) <= x
         /\ IsFiniteSet(S) => Max(S) \in S /\ \A x \in S : x <= Max(S)
<1>1. Min(S) \in S /\ \A x \in S : Min(S) <= x
  <2>1. \E m \in S : \A x \in S : m <= x
    BY LeastNatural
  <2> QED BY <2>1 DEF Min
<1>2. ASSUME IsFiniteSet(S) PROVE Max(S) \in S /\ \A x \in S : x <= Max(S)
  <2> DEFINE R == {p \in S \X S : p[1] >= p[2]}
  <2>1. \A x, y \in S : <<x, y>> \in R <=> x >= y
    OBVIOUS
  <2> HIDE DEF R
  <2>2. /\ \A x, y \in S : <<x, y>> \in R \/ <<y, x>> \in R
        /\ \A x, y, z \in S : <<x, y>> \in R /\ <<y, z>> \in R => <<x, z>> \in R
    BY <2>1
  <2>3. \E m \in S : \A x \in S : <<m, x>> \in R
    BY <1>2, <2>2, LeastOf
  <2>4. \E m \in S : \A x \in S : m >= x
    BY <2>1, <2>3
  <2>5. Max(S) \in S /\ \A x \in S : Max(S) >= x
    BY <2>4 DEF Max
  <2> QED BY <2>5
<1> QED BY <1>1, <1>2

(* The greater and the lesser of two integers.                              *)
LEMMA MaxMinOfTwo ==
  \A a, b \in Int :
    /\ Max({a, b}) = IF a >= b THEN a ELSE b
    /\ Min({a, b}) = IF a <= b THEN a ELSE b
<1> SUFFICES ASSUME NEW a \in Int, NEW b \in Int
             PROVE  /\ Max({a, b}) = IF a >= b THEN a ELSE b
                    /\ Min({a, b}) = IF a <= b THEN a ELSE b
  OBVIOUS
<1>1. Max({a, b}) \in {a, b} /\ \A y \in {a, b} : Max({a, b}) >= y
  <2>1. \E x \in {a, b} : \A y \in {a, b} : x >= y
    OBVIOUS
  <2> QED BY <2>1 DEF Max
<1>2. Min({a, b}) \in {a, b} /\ \A y \in {a, b} : Min({a, b}) =< y
  <2>1. \E x \in {a, b} : \A y \in {a, b} : x =< y
    OBVIOUS
  <2> QED BY <2>1 DEF Min
<1> QED BY <1>1, <1>2

-----------------------------------------------------------------------------
(* Finite sets of integers in order: each element has a place of its own.   *)
LEMMA PlaceRises ==
  ASSUME NEW K, K \subseteq Int, IsFiniteSet(K)
  PROVE  /\ Cardinality(K) \in Nat
         /\ \A i \in K : Place(K, i) \in 1..Cardinality(K)
         /\ \A i, j \in K : i < j => Place(K, i) < Place(K, j)
<1> DEFINE Upto(i) == {j \in K : j <= i}
<1>1. ASSUME NEW i \in K
      PROVE  /\ IsFiniteSet(Upto(i)) /\ Cardinality(Upto(i)) \in Nat /\ Cardinality(Upto(i)) # 0
             /\ Cardinality(Upto(i)) <= Cardinality(K)
  <2>1. i \in Upto(i)
    OBVIOUS
  <2>2. Upto(i) \in SUBSET K
    OBVIOUS
  <2> HIDE DEF Upto
  <2> QED BY <2>1, <2>2, FS_Subset, FS_CardinalityType, FS_EmptySet
<1>2. ASSUME NEW i \in K, NEW j \in K, i < j
      PROVE  Cardinality(Upto(i)) < Cardinality(Upto(j))
  <2>0. i \in Int /\ j \in Int
    OBVIOUS
  <2>a. \A k \in K : k <= i => k <= j
    BY <1>2, <2>0
  <2>b. j <= j /\ ~(j <= i)
    BY <1>2, <2>0
  <2>1. Upto(i) \in SUBSET Upto(j) /\ j \in Upto(j) /\ j \notin Upto(i)
    BY <2>a, <2>b
  <2>2. /\ IsFiniteSet(Upto(j)) /\ Cardinality(Upto(i)) \in Nat /\ Cardinality(Upto(j)) \in Nat
    BY <1>1
  <2> HIDE DEF Upto
  <2>3. Cardinality(Upto(i)) <= Cardinality(Upto(j)) /\ Cardinality(Upto(j)) # Cardinality(Upto(i))
    BY <2>1, <2>2, FS_Subset
  <2> QED BY <2>2, <2>3
<1>3. \A i : Place(K, i) = Cardinality(Upto(i))
  BY DEF Place
<1>4. Cardinality(K) \in Nat
  BY FS_CardinalityType
<1> HIDE DEF Upto
<1>5. ASSUME NEW i \in K PROVE Place(K, i) \in 1..Cardinality(K)
  BY <1>1, <1>3, <1>4
<1> QED BY <1>2, <1>3, <1>4, <1>5

LEMMA NthPlace ==
  ASSUME NEW K, K \subseteq Int, IsFiniteSet(K)
  PROVE  /\ Cardinality(K) \in Nat
         /\ \A n \in 1..Cardinality(K) : Nth(K, n) \in K /\ Place(K, Nth(K, n)) = n
         /\ \A i \in K : Place(K, i) \in 1..Cardinality(K) /\ Nth(K, Place(K, i)) = i
         /\ \A m, n \in 1..Cardinality(K) : m < n => Nth(K, m) < Nth(K, n)
<1> DEFINE N == Cardinality(K)
           f == [i \in K |-> Place(K, i)]
<1>1. /\ N \in Nat
      /\ \A i \in K : Place(K, i) \in 1..N
      /\ \A i, j \in K : i < j => Place(K, i) < Place(K, j)
  BY PlaceRises
<1>2. \A i, j \in K : Place(K, i) = Place(K, j) => i = j
  <2> SUFFICES ASSUME NEW i \in K, NEW j \in K, i # j PROVE Place(K, i) # Place(K, j)
    OBVIOUS
  <2>1. i < j \/ j < i
    OBVIOUS
  <2>2. Place(K, i) \in Nat /\ Place(K, j) \in Nat
    BY <1>1
  <2> QED BY <1>1, <2>1, <2>2
<1>3. IsFiniteSet(1..N) /\ Cardinality(1..N) = N
  BY <1>1, FS_Interval
<1>4. f \in Injection(K, 1..N)
  <2>1. f \in [K -> 1..N]
    BY <1>1
  <2>2. \A i, j \in K : f[i] = f[j] => i = j
    BY <1>2
  <2> HIDE DEF f, N
  <2> QED BY <2>1, <2>2 DEF Injection, IsInjective
<1>5. \A n \in 1..N : \E i \in K : Place(K, i) = n
  <2>1. f \in Surjection(K, 1..N)
    <3> HIDE DEF f
    <3> QED BY <1>3, <1>4, FS_Injection
  <2>2. \A n \in 1..N : \E i \in K : f[i] = n
    <3> HIDE DEF f
    <3> QED BY <2>1 DEF Surjection
  <2> QED BY <2>2
<1>6. ASSUME NEW n \in 1..N PROVE Nth(K, n) \in K /\ Place(K, Nth(K, n)) = n
  <2>1. \E i \in K : Place(K, i) = n
    BY <1>5
  <2> QED BY <2>1 DEF Nth
<1>7. ASSUME NEW i \in K PROVE Nth(K, Place(K, i)) = i
  <2>1. Place(K, i) \in 1..N
    BY <1>1
  <2>2. Nth(K, Place(K, i)) \in K /\ Place(K, Nth(K, Place(K, i))) = Place(K, i)
    BY <1>6, <2>1
  <2> QED BY <1>2, <2>2
<1>8. ASSUME NEW m \in 1..N, NEW n \in 1..N, m < n PROVE Nth(K, m) < Nth(K, n)
  <2>1. /\ Nth(K, m) \in K /\ Place(K, Nth(K, m)) = m
        /\ Nth(K, n) \in K /\ Place(K, Nth(K, n)) = n
    BY <1>6
  <2>2. Nth(K, m) \in Int /\ Nth(K, n) \in Int
    BY <2>1
  <2>a. m \in Nat /\ n \in Nat
    <3> HIDE DEF f
    <3> QED BY <1>1
  <2>3. CASE Nth(K, n) < Nth(K, m)
    <3>1. n < m
      BY <1>1, <2>1, <2>3
    <3> QED BY <1>8, <2>a, <3>1
  <2>4. CASE Nth(K, n) = Nth(K, m)
    BY <1>8, <2>1, <2>a, <2>4
  <2> QED BY <2>2, <2>3, <2>4
<1> QED BY <1>1, <1>6, <1>7, <1>8

(* What a sequence holds at some of its places.                             *)
LEMMA AtPlaces ==
  ASSUME NEW K, K \subseteq Int, IsFiniteSet(K), NEW s
  PROVE  /\ Cardinality(K) \in Nat /\ DOMAIN At(s, K) = 1..Cardinality(K) /\ Len(At(s, K)) = Cardinality(K)
         /\ \A S : (\A i \in K : s[i] \in S) => At(s, K) \in Seq(S)
         /\ \A n \in 1..Cardinality(K) : Nth(K, n) \in K /\ At(s, K)[n] = s[Nth(K, n)]
         /\ \A i \in K : Place(K, i) \in 1..Cardinality(K) /\ At(s, K)[Place(K, i)] = s[i]
         /\ (\A i, j \in K : s[i] = s[j] => i = j) =>
              \A m, n \in 1..Cardinality(K) : At(s, K)[m] = At(s, K)[n] => m = n
<1>1. /\ Cardinality(K) \in Nat
      /\ \A n \in 1..Cardinality(K) : Nth(K, n) \in K /\ Place(K, Nth(K, n)) = n
      /\ \A i \in K : Place(K, i) \in 1..Cardinality(K) /\ Nth(K, Place(K, i)) = i
  BY NthPlace
<1>2. At(s, K) = [n \in 1..Cardinality(K) |-> s[Nth(K, n)]]
  BY DEF At
<1>3. DOMAIN At(s, K) = 1..Cardinality(K) /\ \A n \in 1..Cardinality(K) : At(s, K)[n] = s[Nth(K, n)]
  BY <1>2
<1>4. Len(At(s, K)) = Cardinality(K)
  BY <1>1, <1>2
<1>5. ASSUME NEW S, \A i \in K : s[i] \in S PROVE At(s, K) \in Seq(S)
  <2>1. At(s, K) \in [1..Cardinality(K) -> S]
    BY <1>1, <1>2, <1>5
  <2> QED BY <1>1, <2>1
<1>6. ASSUME \A i, j \in K : s[i] = s[j] => i = j, NEW m \in 1..Cardinality(K), NEW n \in 1..Cardinality(K),
             At(s, K)[m] = At(s, K)[n]
      PROVE  m = n
  <2>1. Nth(K, m) = Nth(K, n)
    BY <1>1, <1>3, <1>6
  <2> QED BY <1>1, <2>1
<1> QED BY <1>1, <1>3, <1>4, <1>5, <1>6

-----------------------------------------------------------------------------
(* A function that is iterated on the naturals exists: the approximations   *)
(* to any length agree as far as they go.                                   *)
Iterates(g, a, f) == g[0] = a /\ \A n \in Nat : g[n + 1] = f[g[n]]

LEMMA Iterated ==
  ASSUME NEW S, NEW a \in S, NEW f \in [S -> S]
  PROVE  \E g \in [Nat -> S] : Iterates(g, a, f)
<1> DEFINE Upto(g, k) == g \in [Nat -> S] /\ g[0] = a /\ \A n \in Nat : n < k => g[n + 1] = f[g[n]]
           Bad == {k \in Nat : ~ \E g : Upto(g, k)}
<1>1. 0 \notin Bad
  <2> DEFINE g == [n \in Nat |-> a]
  <2>1. g \in [Nat -> S] /\ g[0] = a
    OBVIOUS
  <2>2. \A n \in Nat : ~(n < 0)
    OBVIOUS
  <2> HIDE DEF g
  <2> QED
    BY <2>1, <2>2
<1>2. ASSUME NEW k \in Nat, NEW g, Upto(g, k) PROVE \E h : Upto(h, k + 1)
  <2> DEFINE h == [n \in Nat |-> IF n = k + 1 THEN f[g[k]] ELSE g[n]]
  <2>1. h \in [Nat -> S] /\ h[0] = a
    BY <1>2
  <2>2. ASSUME NEW n \in Nat, n < k + 1 PROVE h[n + 1] = f[h[n]]
    <3>1. h[n] = g[n] /\ n + 1 \in Nat
      BY <2>2
    <3>2. CASE n = k
      BY <3>1, <3>2
    <3>3. CASE n # k
      <4>1. n < k /\ n + 1 # k + 1
        BY <2>2, <3>3
      <4>2. h[n + 1] = g[n + 1]
        BY <3>1, <4>1
      <4> QED
        BY <1>2, <3>1, <4>1, <4>2
    <3> QED
      BY <3>2, <3>3
  <2> HIDE DEF h
  <2> QED
    BY <2>1, <2>2
<1>3. Bad = {}
  <2> SUFFICES ASSUME Bad # {} PROVE FALSE
    OBVIOUS
  <2>0. Bad \subseteq Nat
    OBVIOUS
  <2>1. PICK m \in Bad : \A k \in Bad : m <= k
    <3> HIDE DEF Bad
    <3> QED
      BY <2>0, LeastNatural
  <2>2. m - 1 \in Nat /\ m - 1 \notin Bad /\ (m - 1) + 1 = m
    <3> HIDE DEF Bad
    <3> QED
      BY <1>1, <2>0, <2>1
  <2>3. \E g : Upto(g, m - 1)
    BY <2>2
  <2> HIDE DEF Upto
  <2>4. \E g : Upto(g, (m - 1) + 1)
    BY <1>2, <2>2, <2>3
  <2> QED
    BY <2>1, <2>2, <2>4
<1>4. ASSUME NEW j \in Nat, NEW k \in Nat, NEW g, Upto(g, j), NEW h, Upto(h, k)
      PROVE  \A n \in Nat : n <= j /\ n <= k => g[n] = h[n]
  <2> DEFINE Diff == {n \in Nat : n <= j /\ n <= k /\ g[n] # h[n]}
  <2> SUFFICES ASSUME Diff # {} PROVE FALSE
    OBVIOUS
  <2>0. Diff \subseteq Nat /\ 0 \notin Diff
    BY <1>4
  <2>1. PICK m \in Diff : \A n \in Diff : m <= n
    <3> HIDE DEF Diff
    <3> QED
      BY <2>0, LeastNatural
  <2>2. m \in Nat /\ m <= j /\ m <= k /\ g[m] # h[m] /\ m # 0
    BY <2>0, <2>1
  <2>3. m - 1 \in Nat /\ m - 1 < j /\ m - 1 < k /\ (m - 1) + 1 = m /\ ~(m <= m - 1)
    BY <2>2
  <2>4. g[m - 1] = h[m - 1]
    BY <2>1, <2>3
  <2> QED
    BY <1>4, <2>2, <2>3, <2>4
<1>5. \A k \in Nat : \E g : Upto(g, k)
  BY <1>3
<1> DEFINE G == [n \in Nat |-> (CHOOSE g : Upto(g, n))[n]]
<1>6. \A n \in Nat : \E g : Upto(g, n) /\ G[n] = g[n]
  <2> HIDE DEF Upto
  <2> QED
    BY <1>5
<1>7. G \in [Nat -> S] /\ G[0] = a
  <2>1. \A n \in Nat : G[n] \in S
    <3> HIDE DEF G
    <3> QED
      BY <1>6
  <2>2. G[0] = a
    <3> HIDE DEF G
    <3> QED
      BY <1>6
  <2> QED
    BY <2>1, <2>2
<1>8. ASSUME NEW n \in Nat PROVE G[n + 1] = f[G[n]]
  <2> HIDE DEF G
  <2>1. n + 1 \in Nat /\ n <= n + 1 /\ n < n + 1 /\ n <= n
    OBVIOUS
  <2>2. PICK g : Upto(g, n) /\ G[n] = g[n]
    BY <1>6
  <2>3. PICK h : Upto(h, n + 1) /\ G[n + 1] = h[n + 1]
    BY <1>6, <2>1
  <2>4. g[n] = h[n]
    <3> HIDE DEF Upto
    <3> QED
      BY <1>4, <2>1, <2>2, <2>3
  <2>5. h[n + 1] = f[h[n]]
    BY <2>1, <2>3
  <2> QED
    BY <2>2, <2>3, <2>4, <2>5
<1> HIDE DEF G
<1> QED
  BY <1>7, <1>8 DEF Iterates

-----------------------------------------------------------------------------
(* Sorting by insertion.  The comparison is a relation R here.              *)

LEMMA PutBeforeIs ==
  ASSUME NEW S, NEW q \in Seq(S), NEW e \in S, NEW K \in SUBSET DOMAIN q
  PROVE  \E p \in 1 .. Len(q) + 1 :
           /\ p \in K \/ p = Len(q) + 1
           /\ \A j \in K : p <= j
           /\ PutBefore(q, K, e)
                = [n \in 1 .. Len(q) + 1 |-> IF n < p THEN q[n] ELSE IF n = p THEN e ELSE q[n - 1]]
<1> DEFINE T == K \cup {Len(q) + 1}
           p == CHOOSE k \in T : \A j \in K : k <= j
<1>1. Len(q) \in Nat /\ K \subseteq 1..Len(q)
  BY LenProperties
<1>2. \E k \in T : \A j \in K : k <= j
  <2>1. CASE K = {}
    BY <2>1
  <2>2. CASE K # {}
    <3>1. K \subseteq Nat
      BY <1>1
    <3> QED BY <2>2, <3>1, LeastNatural
  <2> QED BY <2>1, <2>2
<1>3. p \in T /\ \A j \in K : p <= j
  BY <1>2
<1>4. PutBefore(q, K, e)
        = [n \in 1 .. Len(q) + 1 |-> IF n < p THEN q[n] ELSE IF n = p THEN e ELSE q[n - 1]]
  BY DEF PutBefore
<1>5. p \in 1 .. Len(q) + 1 /\ (p \in K \/ p = Len(q) + 1)
  <2> HIDE DEF p
  <2> QED BY <1>1, <1>3
<1> HIDE DEF p
<1> QED BY <1>3, <1>4, <1>5

(* What one insertion leaves: the elements, each once if they were, and in  *)
(* order if they were.                                                      *)
LEMMA PutBeforeKeeps ==
  ASSUME NEW S, NEW q \in Seq(S), NEW e \in S, NEW K \in SUBSET DOMAIN q
  PROVE  LET r == PutBefore(q, K, e)
         IN  /\ r \in Seq(S) /\ Len(r) = Len(q) + 1 /\ DOMAIN r = 1 .. Len(q) + 1
             /\ Range(r) = Range(q) \cup {e}
             /\ IsInjective(q) /\ e \notin Range(q) => IsInjective(r)
<1>1. Len(q) \in Nat /\ DOMAIN q = 1..Len(q) /\ \A n \in 1..Len(q) : q[n] \in S
  BY LenProperties, ElementOfSeq
<1>2. PICK p \in 1 .. Len(q) + 1 : PutBefore(q, K, e)
        = [n \in 1 .. Len(q) + 1 |-> IF n < p THEN q[n] ELSE IF n = p THEN e ELSE q[n - 1]]
  BY PutBeforeIs
<1> DEFINE r == PutBefore(q, K, e)
<1>3. /\ DOMAIN r = 1 .. Len(q) + 1
      /\ \A n \in 1 .. Len(q) + 1 :
           r[n] = IF n < p THEN q[n] ELSE IF n = p THEN e ELSE q[n - 1]
  BY <1>2
<1>a. /\ \A n \in 1 .. Len(q) + 1 : n < p => n \in 1..Len(q)
      /\ \A n \in 1 .. Len(q) + 1 : ~(n < p) /\ n # p => n - 1 \in 1..Len(q)
      /\ \A n \in 1..Len(q) : n \in 1 .. Len(q) + 1 /\ n + 1 \in 1 .. Len(q) + 1
      /\ \A n \in 1..Len(q) : n < p \/ (~(n + 1 < p) /\ n + 1 # p /\ (n + 1) - 1 = n)
  BY <1>1
<1>4. \A n \in 1 .. Len(q) + 1 : r[n] \in S
  BY <1>1, <1>3, <1>a
<1>5. r \in Seq(S) /\ Len(r) = Len(q) + 1
  <2>1. r \in [1 .. Len(q) + 1 -> S] /\ Len(q) + 1 \in Nat
    <3>1. r = [n \in 1 .. Len(q) + 1 |-> r[n]]
      BY <1>2
    <3> HIDE DEF r
    <3> QED BY <1>1, <1>4, <3>1
  <2> HIDE DEF r
  <2>2. r \in Seq(S)
    BY <2>1
  <2> QED BY <1>3, <2>1, <2>2, LenProperties
<1>6. {r[n] : n \in DOMAIN r} = {q[n] : n \in DOMAIN q} \cup {e}
  <2>1. \A n \in DOMAIN r : r[n] \in {q[m] : m \in DOMAIN q} \cup {e}
    BY <1>1, <1>3, <1>a
  <2>2. \A n \in DOMAIN q : \E m \in DOMAIN r : r[m] = q[n]
    <3> SUFFICES ASSUME NEW n \in 1..Len(q) PROVE \E m \in 1 .. Len(q) + 1 : r[m] = q[n]
      BY <1>1, <1>3
    <3>1. CASE n < p
      BY <1>3, <1>a, <3>1
    <3>2. CASE ~(n < p)
      BY <1>3, <1>a, <3>2
    <3> QED BY <3>1, <3>2
  <2>3. r[p] = e /\ p \in DOMAIN r
    BY <1>1, <1>3
  <2> HIDE DEF r
  <2> QED BY <2>1, <2>2, <2>3
<1>7. ASSUME \A m, n \in DOMAIN q : q[m] = q[n] => m = n, \A n \in DOMAIN q : q[n] # e,
             NEW m \in DOMAIN r, NEW n \in DOMAIN r, r[m] = r[n]
      PROVE  m = n
  <2> DEFINE From(k) == IF k < p THEN k ELSE k - 1
  <2>1. m \in 1 .. Len(q) + 1 /\ n \in 1 .. Len(q) + 1
    BY <1>3, <1>7
  <2>a. /\ \A k \in 1 .. Len(q) + 1 : k # p => r[k] # e
        /\ r[p] = e
    <3>1. \A k \in 1 .. Len(q) + 1 : k # p => r[k] \in {q[i] : i \in 1..Len(q)}
      BY <1>3, <1>a
    <3>2. e \notin {q[i] : i \in 1..Len(q)}
      BY <1>1, <1>7
    <3>3. r[p] = e
      BY <1>3
    <3> HIDE DEF r
    <3> QED BY <3>1, <3>2, <3>3
  <2>2. CASE m = p
    <3> HIDE DEF r
    <3> QED BY <1>7, <2>1, <2>2, <2>a
  <2>3. CASE n = p
    <3> HIDE DEF r
    <3> QED BY <1>7, <2>1, <2>3, <2>a
  <2>4. CASE m # p /\ n # p
    <3>1. /\ r[m] = q[From(m)] /\ From(m) \in DOMAIN q
          /\ r[n] = q[From(n)] /\ From(n) \in DOMAIN q
      BY <1>1, <1>3, <1>a, <2>1, <2>4
    <3>2. From(m) = From(n)
      <4> HIDE DEF r, From
      <4> QED BY <1>7, <3>1
    <3> QED BY <1>1, <2>1, <2>4, <3>2
  <2> QED BY <2>2, <2>3, <2>4
<1> QED BY <1>3, <1>5, <1>6, <1>7 DEF Range, IsInjective

-----------------------------------------------------------------------------
(* The elements of q come one before the next in the order R.               *)
Transitive(R, S) == \A x, y, z \in S : <<x, y>> \in R /\ <<y, z>> \in R => <<x, z>> \in R
PlacesAfter(q, e, R) == {k \in DOMAIN q : <<e, q[k]>> \in R}
Comparable(q, e, R) == \A n \in DOMAIN q : <<q[n], e>> \in R \/ <<e, q[n]>> \in R
InOrder(q, R) == \A m, n \in DOMAIN q : m < n => <<q[m], q[n]>> \in R

LEMMA PutBeforeOrders ==
  ASSUME NEW S, NEW q \in Seq(S), NEW e \in S, NEW R,
         Transitive(R, S), Comparable(q, e, R), InOrder(q, R)
  PROVE  InOrder(PutBefore(q, PlacesAfter(q, e, R), e), R)
<1> USE DEF Transitive, Comparable, PlacesAfter
<1> DEFINE K == PlacesAfter(q, e, R)
           r == PutBefore(q, K, e)
<1>1. Len(q) \in Nat /\ DOMAIN q = 1..Len(q) /\ \A n \in 1..Len(q) : q[n] \in S
  BY LenProperties, ElementOfSeq
<1>0. K \in SUBSET DOMAIN q
  OBVIOUS
<1> HIDE DEF K
<1>2. PICK p \in 1 .. Len(q) + 1 :
        /\ p \in K \/ p = Len(q) + 1
        /\ \A j \in K : p <= j
        /\ r = [n \in 1 .. Len(q) + 1 |-> IF n < p THEN q[n] ELSE IF n = p THEN e ELSE q[n - 1]]
  BY <1>0, PutBeforeIs
<1>3. /\ DOMAIN r = 1 .. Len(q) + 1 /\ r[p] = e
      /\ \A n \in 1 .. Len(q) + 1 : n < p => n \in 1..Len(q) /\ r[n] = q[n]
      /\ \A n \in 1 .. Len(q) + 1 : p < n => n - 1 \in 1..Len(q) /\ r[n] = q[n - 1]
  BY <1>1, <1>2
<1> HIDE DEF r
<1>4. \A n \in 1..Len(q) : n < p => <<q[n], e>> \in R
  <2> SUFFICES ASSUME NEW n \in 1..Len(q), n < p PROVE <<q[n], e>> \in R
    OBVIOUS
  <2>1. n \notin K
    <3>1. n \in Nat /\ p \in Nat /\ ~(p <= n)
      BY <1>1
    <3> QED BY <1>2, <3>1
  <2> QED BY <1>1, <2>1 DEF K
<1>5. \A n \in 1..Len(q) : p <= n => <<e, q[n]>> \in R
  <2> SUFFICES ASSUME NEW n \in 1..Len(q), p <= n PROVE <<e, q[n]>> \in R
    OBVIOUS
  <2>1. p \in K
    BY <1>1, <1>2
  <2>2. p \in DOMAIN q /\ <<e, q[p]>> \in R
    BY <2>1 DEF K
  <2>3. CASE n = p
    BY <2>2, <2>3
  <2>4. CASE n # p
    <3>1. p < n
      BY <1>1, <2>4
    <3>2. <<q[p], q[n]>> \in R
      BY <1>1, <2>2, <3>1 DEF InOrder
    <3> QED BY <1>1, <2>2, <3>2
  <2> QED BY <2>3, <2>4
<1>6. ASSUME NEW m \in 1 .. Len(q) + 1, NEW n \in 1 .. Len(q) + 1, m < n
      PROVE  <<r[m], r[n]>> \in R
  <2>0. m \in Nat /\ n \in Nat /\ p \in Nat
    BY <1>1
  <2>1. CASE n < p
    <3>1. m < p
      BY <1>6, <2>0, <2>1
    <3> QED BY <1>1, <1>3, <1>6, <2>1, <3>1 DEF InOrder
  <2>2. CASE n = p
    BY <1>3, <1>4, <1>6, <2>2
  <2>3. CASE p < n
    <3>1. n - 1 \in 1..Len(q) /\ r[n] = q[n - 1] /\ p <= n - 1
      BY <1>3, <2>0, <2>3
    <3>2. CASE m < p
      <4>1. m \in 1..Len(q) /\ r[m] = q[m] /\ m < n - 1
        BY <1>3, <2>0, <2>3, <3>1, <3>2
      <4> QED BY <1>1, <3>1, <4>1 DEF InOrder
    <3>3. CASE m = p
      BY <1>3, <1>5, <3>1, <3>3
    <3>4. CASE p < m
      <4>1. m - 1 \in 1..Len(q) /\ r[m] = q[m - 1] /\ m - 1 < n - 1
        BY <1>3, <1>6, <2>0, <3>4
      <4> QED BY <1>1, <3>1, <4>1 DEF InOrder
    <3> QED BY <2>0, <3>2, <3>3, <3>4
  <2> QED BY <2>0, <2>1, <2>2, <2>3
<1> QED BY <1>3, <1>6 DEF InOrder, K, r

(* The range of a function is what its arguments are taken to.              *)
LEMMA InItsRange ==
  ASSUME NEW f
  PROVE  /\ \A k \in DOMAIN f : f[k] \in Range(f)
         /\ \A x \in Range(f) : \E k \in DOMAIN f : x = f[k]
  BY Zenon DEF Range

(* Only one sequence has given elements in a given order.                   *)
LEMMA OneOrder ==
  ASSUME NEW S, NEW R, NEW s \in Seq(S), NEW t \in Seq(S),
         \A x \in S : <<x, x>> \notin R,
         Transitive(R, S), InOrder(s, R), InOrder(t, R),
         Range(s) = Range(t)
  PROVE  s = t
<1> USE DEF Transitive
<1>1. /\ Len(s) \in Nat /\ DOMAIN s = 1..Len(s) /\ \A n \in 1..Len(s) : s[n] \in S
      /\ Len(t) \in Nat /\ DOMAIN t = 1..Len(t) /\ \A n \in 1..Len(t) : t[n] \in S
  BY LenProperties, ElementOfSeq
<1>2. /\ \A m, n \in 1..Len(s) : m < n => <<s[m], s[n]>> \in R
      /\ \A m, n \in 1..Len(t) : m < n => <<t[m], t[n]>> \in R
  BY <1>1 DEF InOrder
<1>3. /\ \A n \in 1..Len(s) : \E m \in 1..Len(t) : s[n] = t[m]
      /\ \A n \in 1..Len(t) : \E m \in 1..Len(s) : t[n] = s[m]
  <2>1. ASSUME NEW n \in 1..Len(s) PROVE \E m \in 1..Len(t) : s[n] = t[m]
    <3>1. s[n] \in Range(s)
      BY <1>1, InItsRange
    <3>2. PICK m \in DOMAIN t : s[n] = t[m]
      BY <3>1, InItsRange
    <3> QED BY <1>1, <3>2
  <2>2. ASSUME NEW n \in 1..Len(t) PROVE \E m \in 1..Len(s) : t[n] = s[m]
    <3>1. t[n] \in Range(t)
      BY <1>1, InItsRange
    <3>2. PICK m \in DOMAIN s : t[n] = s[m]
      BY <3>1, InItsRange
    <3> QED BY <1>1, <3>2
  <2> QED BY <2>1, <2>2
<1> DEFINE Diff == {n \in Nat : n \in 1..Len(s) /\ n \in 1..Len(t) /\ s[n] # t[n]}
<1>4. Diff = {}
  <2> SUFFICES ASSUME Diff # {} PROVE FALSE
    OBVIOUS
  <2>1. Diff \subseteq Nat
    OBVIOUS
  <2>2. PICK k \in Diff : \A n \in Diff : k <= n
    <3> HIDE DEF Diff
    <3> QED BY <2>1, LeastNatural
  <2>3. k \in Nat /\ k \in 1..Len(s) /\ k \in 1..Len(t) /\ s[k] # t[k]
    BY <2>2
  <2>4. \A n \in 1 .. k - 1 : n \in 1..Len(s) /\ n \in 1..Len(t) /\ n < k /\ s[n] = t[n]
    <3> SUFFICES ASSUME NEW n \in 1 .. k - 1
                 PROVE  n \in 1..Len(s) /\ n \in 1..Len(t) /\ n < k /\ s[n] = t[n]
      OBVIOUS
    <3>1. n \in Nat /\ n \in 1..Len(s) /\ n \in 1..Len(t) /\ n < k /\ ~(k <= n)
      BY <1>1, <2>3
    <3>2. n \notin Diff
      <4> HIDE DEF Diff
      <4> QED BY <2>2, <3>1
    <3> QED BY <3>1, <3>2
  <2> HIDE DEF Diff
  <2>5. <<s[k], t[k]>> \in R
    <3>1. PICK l \in 1..Len(s) : t[k] = s[l]
      BY <1>3, <2>3
    <3>2. CASE l < k
      <4>1. l \in 1 .. k - 1
        BY <1>1, <2>3, <3>2
      <4> QED BY <1>1, <1>2, <2>3, <2>4, <3>1, <3>2, <4>1
    <3>3. CASE k < l
      BY <1>2, <2>3, <3>1, <3>3
    <3> QED BY <1>1, <2>3, <3>1, <3>2, <3>3
  <2>6. <<t[k], s[k]>> \in R
    <3>1. PICK l \in 1..Len(t) : s[k] = t[l]
      BY <1>3, <2>3
    <3>2. CASE l < k
      <4>1. l \in 1 .. k - 1
        BY <1>1, <2>3, <3>2
      <4> QED BY <1>1, <1>2, <2>3, <2>4, <3>1, <3>2, <4>1
    <3>3. CASE k < l
      BY <1>2, <2>3, <3>1, <3>3
    <3> QED BY <1>1, <2>3, <3>1, <3>2, <3>3
  <2> QED BY <1>1, <2>3, <2>5, <2>6
<1>5. \A n \in 1..Len(s) : n \in 1..Len(t) => s[n] = t[n]
  BY <1>1, <1>4
<1> HIDE DEF Diff
<1>6. ASSUME Len(s) < Len(t) PROVE FALSE
  <2> DEFINE k == Len(s) + 1
  <2>1. k \in 1..Len(t)
    BY <1>1, <1>6
  <2>2. PICK l \in 1..Len(s) : t[k] = s[l]
    BY <1>3, <2>1
  <2>3. l \in 1..Len(t) /\ l < k
    BY <1>1, <1>6
  <2> HIDE DEF k
  <2> QED BY <1>1, <1>2, <1>5, <2>1, <2>2, <2>3
<1>7. ASSUME Len(t) < Len(s) PROVE FALSE
  <2> DEFINE k == Len(t) + 1
  <2>1. k \in 1..Len(s)
    BY <1>1, <1>7
  <2>2. PICK l \in 1..Len(t) : s[k] = t[l]
    BY <1>3, <2>1
  <2>3. l \in 1..Len(s) /\ l < k
    BY <1>1, <1>7
  <2> HIDE DEF k
  <2> QED BY <1>1, <1>2, <1>5, <2>1, <2>2, <2>3
<1>8. Len(s) = Len(t)
  <2>1. ~(Len(s) < Len(t)) /\ ~(Len(t) < Len(s))
    BY <1>6, <1>7
  <2>2. Len(s) \in Nat /\ Len(t) \in Nat
    BY <1>1
  <2> QED BY <2>1, <2>2
<1> QED BY <1>1, <1>5, <1>8, SeqEqual

(* Induction up to a bound.                                                 *)
LEMMA BySteps ==
  ASSUME NEW N \in Nat, NEW Good, 0 \in Good,
         \A n \in 1..N : n - 1 \in Good => n \in Good
  PROVE  \A n \in 0..N : n \in Good
<1> DEFINE Bad == {n \in 0..N : n \notin Good}
<1>1. Bad \subseteq Nat
  OBVIOUS
<1>2. ASSUME NEW m \in Bad, \A k \in Bad : m <= k PROVE FALSE
  <2>1. m \in 1..N /\ m - 1 \in 0..N /\ ~(m <= m - 1)
    BY <1>2
  <2>2. m - 1 \notin Bad
    BY <1>2, <2>1
  <2> QED BY <2>1, <2>2
<1> HIDE DEF Bad
<1>3. Bad = {}
  BY <1>1, <1>2, LeastNatural
<1> QED BY <1>3 DEF Bad

(* A function that is defined from one number to the next up to a bound.    *)
Steps(F, N, T) == \A n \in 1..N : \A x \in T : F[n][x] \in T
Follows(h, a, F, N) == h[0] = a /\ \A n \in 1..N : h[n] = F[n][h[n - 1]]

LEMMA Recursion ==
  ASSUME NEW T, NEW a \in T, NEW N \in Nat, NEW F, Steps(F, N, T)
  PROVE  \E h \in [0..N -> T] : Follows(h, a, F, N)
<1> DEFINE S == [n : Nat, at : T]
           Step(x) == IF x.n + 1 \in 1..N THEN [n |-> x.n + 1, at |-> F[x.n + 1][x.at]] ELSE x
           f == [x \in S |-> Step(x)]
<1>1. f \in [S -> S] /\ [n |-> 0, at |-> a] \in S
  <2>1. ASSUME NEW x \in S PROVE Step(x) \in S
    <3>1. x.n \in Nat /\ x.at \in T
      OBVIOUS
    <3>2. CASE x.n + 1 \in 1..N
      <4>1. F[x.n + 1][x.at] \in T /\ x.n + 1 \in Nat
        BY <3>1, <3>2 DEF Steps
      <4> QED BY <3>2, <4>1
    <3>3. CASE x.n + 1 \notin 1..N
      BY <3>3
    <3> QED BY <3>2, <3>3
  <2>2. f \in [S -> S]
    <3> HIDE DEF S, Step
    <3> QED BY <2>1
  <2> QED BY <2>2
<1>2. PICK g \in [Nat -> S] : g[0] = [n |-> 0, at |-> a] /\ \A n \in Nat : g[n + 1] = f[g[n]]
  <2> DEFINE c == [n |-> 0, at |-> a]
  <2>1. c \in S /\ f \in [S -> S]
    BY <1>1
  <2> HIDE DEF S, f, c, Step
  <2>2. \E g \in [Nat -> S] : Iterates(g, c, f)
    BY <2>1, Iterated
  <2> QED BY <2>2 DEF c, Iterates
<1>3. \A n \in Nat : g[n] \in S /\ g[n + 1] = Step(g[n])
  <2> HIDE DEF S, Step
  <2> QED BY <1>2
<1> HIDE DEF f
<1> DEFINE Good == {n \in Nat : g[n].n = n}
<1>4. \A n \in 0..N : n \in Good
  <2>1. 0 \in Good
    BY <1>2
  <2>2. ASSUME NEW n \in 1..N, n - 1 \in Good PROVE n \in Good
    <3>1. n - 1 \in Nat /\ (n - 1) + 1 = n /\ n \in Nat /\ g[n - 1].n = n - 1
      BY <2>2
    <3>2. g[n] = Step(g[n - 1])
      <4> HIDE DEF Step, S
      <4> QED BY <1>3, <3>1
    <3>3. g[n].n = n
      BY <3>1, <3>2
    <3> QED BY <3>1, <3>3
  <2> HIDE DEF Good
  <2> QED BY <2>1, <2>2, BySteps
<1> DEFINE h == [n \in 0..N |-> g[n].at]
<1>5. h \in [0..N -> T] /\ h[0] = a
  <2>1. \A n \in 0..N : g[n].at \in T
    BY <1>3
  <2>2. h \in [0..N -> T]
    BY <2>1
  <2> QED BY <1>2, <2>2
<1>6. ASSUME NEW n \in 1..N PROVE h[n] = F[n][h[n - 1]]
  <2>1. n - 1 \in 0..N /\ n \in 0..N /\ n - 1 \in Nat /\ (n - 1) + 1 = n
    OBVIOUS
  <2>2. g[n - 1].n = n - 1
    BY <1>4, <2>1
  <2>3. g[n] = Step(g[n - 1])
    <3> HIDE DEF Step, S
    <3> QED BY <1>3, <2>1
  <2>4. g[n].at = F[n][g[n - 1].at]
    BY <2>1, <2>2, <2>3
  <2> QED BY <2>1, <2>4
<1> HIDE DEF h
<1> QED BY <1>5, <1>6 DEF Follows

(* There is only one.                                                       *)
LEMMA SameRecursion ==
  ASSUME NEW N \in Nat, NEW g, NEW h, DOMAIN g = 0..N, DOMAIN h = 0..N,
         g = [n \in 0..N |-> g[n]], h = [n \in 0..N |-> h[n]],
         g[0] = h[0], \A n \in 1..N : g[n - 1] = h[n - 1] => g[n] = h[n]
  PROVE  g = h
<1> DEFINE Good == {n \in 0..N : g[n] = h[n]}
<1>1. \A n \in 0..N : n \in Good
  <2>1. 0 \in Good
    OBVIOUS
  <2>2. ASSUME NEW n \in 1..N, n - 1 \in Good PROVE n \in Good
    <3>1. n \in 0..N /\ g[n - 1] = h[n - 1]
      BY <2>2
    <3> QED BY <3>1
  <2> HIDE DEF Good
  <2> QED BY <2>1, <2>2, BySteps
<1>2. \A n \in 0..N : g[n] = h[n]
  BY <1>1
<1> HIDE DEF Good
<1> QED BY <1>2

(* What one insertion after the other leaves of a sequence: its elements,   *)
(* each once if they were, and in the order of the comparison if that tells *)
(* any two of them apart.                                                   *)
Inserts(h, s, R) ==
  /\ h[0] = <<>>
  /\ \A n \in 1..Len(s) : h[n] = PutBefore(h[n - 1], PlacesAfter(h[n - 1], s[n], R), s[n])
Apart(s, R) == \A m, n \in DOMAIN s : m # n => <<s[m], s[n]>> \in R \/ <<s[n], s[m]>> \in R

LEMMA InsertionSorts ==
  ASSUME NEW S, NEW s \in Seq(S), NEW R
  PROVE  \E h \in [0..Len(s) -> Seq(S)] :
           /\ Inserts(h, s, R)
           /\ Len(h[Len(s)]) = Len(s) /\ Range(h[Len(s)]) = Range(s)
           /\ IsInjective(s) => IsInjective(h[Len(s)])
           /\ Apart(s, R) /\ Transitive(R, S) => InOrder(h[Len(s)], R)
<1> DEFINE N == Len(s)
           Put(n, q) == PutBefore(q, PlacesAfter(q, s[n], R), s[n])
           F == [n \in 1..N |-> [q \in Seq(S) |-> Put(n, q)]]
<1>1. N \in Nat /\ DOMAIN s = 1..N /\ \A n \in 1..N : s[n] \in S
  BY LenProperties, ElementOfSeq
<1>2. ASSUME NEW n \in 1..N, NEW q \in Seq(S)
      PROVE  /\ Put(n, q) \in Seq(S) /\ Len(Put(n, q)) = Len(q) + 1 /\ DOMAIN Put(n, q) = 1 .. Len(q) + 1
             /\ Range(Put(n, q)) = Range(q) \cup {s[n]}
             /\ IsInjective(q) /\ s[n] \notin Range(q) => IsInjective(Put(n, q))
  <2>1. PlacesAfter(q, s[n], R) \in SUBSET DOMAIN q /\ s[n] \in S
    BY <1>1 DEF PlacesAfter
  <2> QED BY <2>1, PutBeforeKeeps, Z3
<1> HIDE DEF Put
<1>3. Steps(F, N, Seq(S)) /\ <<>> \in Seq(S)
  <2> HIDE DEF N
  <2> QED BY <1>2, EmptySeq DEF Steps
<1> HIDE DEF F
<1>4. PICK h \in [0..N -> Seq(S)] : Follows(h, <<>>, F, N)
  <2> HIDE DEF N
  <2> QED BY <1>1, <1>3, Recursion
<1>5. \A n \in 1..N : n - 1 \in 0..N /\ n \in 0..N /\ h[n - 1] \in Seq(S) /\ h[n] = Put(n, h[n - 1])
  <2> SUFFICES ASSUME NEW n \in 1..N
               PROVE  n - 1 \in 0..N /\ n \in 0..N /\ h[n - 1] \in Seq(S) /\ h[n] = Put(n, h[n - 1])
    OBVIOUS
  <2>1. n - 1 \in 0..N /\ n \in 0..N
    BY <1>1
  <2>2. h[n - 1] \in Seq(S)
    BY <1>4, <2>1
  <2>3. h[n] = F[n][h[n - 1]]
    BY <1>4, <2>2 DEF Follows
  <2> HIDE DEF N
  <2> QED BY <2>1, <2>2, <2>3 DEF F
<1> DEFINE Good == {n \in 0..N :
                      /\ Len(h[n]) = n
                      /\ Range(h[n]) = {s[k] : k \in 1..n}
                      /\ IsInjective(s) => IsInjective(h[n])
                      /\ Apart(s, R) /\ Transitive(R, S) => InOrder(h[n], R)}
<1>6. \A n \in 0..N : n \in Good
  <2>1. 0 \in Good
    <3>1. h[0] = <<>> /\ Len(h[0]) = 0 /\ DOMAIN h[0] = {}
      BY <1>4, EmptySeq DEF Follows
    <3>2. Range(h[0]) = {s[k] : k \in 1..0} /\ 0 \in 0..N
      BY <1>1, <3>1 DEF Range
    <3>3. IsInjective(h[0]) /\ InOrder(h[0], R)
      BY <3>1 DEF InOrder, IsInjective
    <3> QED BY <3>1, <3>2, <3>3
  <2>2. ASSUME NEW n \in 1..N, n - 1 \in Good PROVE n \in Good
    <3> DEFINE q == h[n - 1]
    <3>1. q \in Seq(S) /\ h[n] = Put(n, q) /\ n \in 0..N
      BY <1>5
    <3>2. /\ Len(q) = n - 1 /\ Range(q) = {s[k] : k \in 1..(n - 1)}
          /\ IsInjective(s) => IsInjective(q)
          /\ Apart(s, R) /\ Transitive(R, S) => InOrder(q, R)
      BY <2>2
    <3> HIDE DEF q
    <3>3. Len(h[n]) = n
      BY <1>1, <1>2, <3>1, <3>2
    <3>4. Range(h[n]) = {s[k] : k \in 1..n}
      <4>1. Range(h[n]) = Range(q) \cup {s[n]}
        BY <1>2, <3>1
      <4>2. 1..n = 1..(n - 1) \cup {n}
        BY <1>1
      <4>3. {s[k] : k \in 1..n} = {s[k] : k \in 1..(n - 1)} \cup {s[n]}
        BY <4>2
      <4> QED BY <3>2, <4>1, <4>3
    <3>5. ASSUME IsInjective(s) PROVE IsInjective(h[n])
      <4>1. s[n] \notin Range(q)
        <5> SUFFICES ASSUME s[n] \in Range(q) PROVE FALSE
          OBVIOUS
        <5>1. PICK m \in 1..(n - 1) : s[m] = s[n]
          BY <3>2
        <5>2. m \in 1..N /\ m # n
          BY <1>1
        <5> QED BY <1>1, <3>5, <5>1, <5>2 DEF IsInjective
      <4> QED BY <1>2, <3>1, <3>2, <3>5, <4>1
    <3>6. ASSUME Apart(s, R), Transitive(R, S) PROVE InOrder(h[n], R)
      <4>1. InOrder(q, R) /\ DOMAIN q = 1..Len(q)
        BY <3>1, <3>2, <3>6, LenProperties
      <4>2. Comparable(q, s[n], R)
        <5> SUFFICES ASSUME NEW k \in DOMAIN q PROVE <<q[k], s[n]>> \in R \/ <<s[n], q[k]>> \in R
          BY DEF Comparable
        <5>1. q[k] \in {s[m] : m \in 1..(n - 1)}
          BY <3>2 DEF Range
        <5>2. PICK m \in 1..(n - 1) : q[k] = s[m]
          BY <5>1
        <5>3. m \in 1..N /\ m # n
          BY <1>1
        <5> QED BY <1>1, <3>6, <5>2, <5>3 DEF Apart
      <4>3. s[n] \in S
        BY <1>1
      <4>4. InOrder(Put(n, q), R)
        BY <3>1, <3>6, <4>1, <4>2, <4>3, PutBeforeOrders DEF Put
      <4> QED BY <3>1, <4>4
    <3> QED BY <3>1, <3>3, <3>4, <3>5, <3>6
  <2> HIDE DEF Good
  <2> QED BY <1>1, <2>1, <2>2, BySteps
<1>7. N \in Good
  <2> HIDE DEF Good
  <2> QED BY <1>1, <1>6
<1>8. \A n \in 1..N : h[n] = PutBefore(h[n - 1], PlacesAfter(h[n - 1], s[n], R), s[n])
  BY <1>5 DEF Put
<1>9. {s[k] : k \in 1..N} = Range(s)
  BY <1>1 DEF Range
<1>10. /\ Len(h[N]) = N /\ Range(h[N]) = Range(s)
       /\ IsInjective(s) => IsInjective(h[N])
       /\ Apart(s, R) /\ Transitive(R, S) => InOrder(h[N], R)
  BY <1>7, <1>9
<1> HIDE DEF Good
<1> QED BY <1>4, <1>8, <1>10 DEF Follows, Inserts

(* One list after another. *)
LEMMA ConcatIs ==
  ASSUME NEW S, NEW s \in Seq(S), NEW t \in Seq(S)
  PROVE  /\ s \o t \in Seq(S) /\ Len(s \o t) = Len(s) + Len(t)
         /\ Range(s \o t) = Range(s) \cup Range(t)
         /\ IsInjective(s) /\ IsInjective(t) /\ Range(s) \cap Range(t) = {} => IsInjective(s \o t)
<1> DEFINE u == s \o t
<1>1. /\ Len(s) \in Nat /\ DOMAIN s = 1..Len(s) /\ Len(t) \in Nat /\ DOMAIN t = 1..Len(t)
  BY LenProperties
<1>2. /\ u \in Seq(S) /\ Len(u) = Len(s) + Len(t)
      /\ \A i \in 1 .. Len(s) + Len(t) : u[i] = IF i <= Len(s) THEN s[i] ELSE t[i - Len(s)]
  BY ConcatProperties
<1>3. DOMAIN u = 1 .. Len(s) + Len(t)
  <2> HIDE DEF u
  <2> QED BY <1>2, LenProperties
<1> HIDE DEF u
<1>4. /\ \A i \in 1..Len(s) : i \in DOMAIN u /\ u[i] = s[i]
      /\ \A i \in 1..Len(t) : i + Len(s) \in DOMAIN u /\ u[i + Len(s)] = t[i]
  <2>1. ASSUME NEW i \in 1..Len(s) PROVE i \in DOMAIN u /\ u[i] = s[i]
    <3>1. i \in 1 .. Len(s) + Len(t) /\ i <= Len(s)
      BY <1>1
    <3> QED BY <1>2, <1>3, <3>1
  <2>2. ASSUME NEW i \in 1..Len(t) PROVE i + Len(s) \in DOMAIN u /\ u[i + Len(s)] = t[i]
    <3>1. i + Len(s) \in 1 .. Len(s) + Len(t) /\ ~(i + Len(s) <= Len(s)) /\ (i + Len(s)) - Len(s) = i
      BY <1>1
    <3> QED BY <1>2, <1>3, <3>1
  <2> QED BY <2>1, <2>2
<1>5. \A i \in DOMAIN u :
        \/ i \in 1..Len(s) /\ u[i] = s[i]
        \/ i - Len(s) \in 1..Len(t) /\ u[i] = t[i - Len(s)]
  <2> SUFFICES ASSUME NEW i \in DOMAIN u
      PROVE  \/ i \in 1..Len(s) /\ u[i] = s[i]
             \/ i - Len(s) \in 1..Len(t) /\ u[i] = t[i - Len(s)]
    OBVIOUS
  <2>1. i \in 1 .. Len(s) + Len(t)
    BY <1>3
  <2>2. CASE i <= Len(s)
    <3>1. i \in 1..Len(s)
      BY <1>1, <2>1, <2>2
    <3> QED BY <1>2, <2>1, <2>2, <3>1
  <2>3. CASE ~(i <= Len(s))
    <3>1. i - Len(s) \in 1..Len(t)
      BY <1>1, <2>1, <2>3
    <3> QED BY <1>2, <2>1, <2>3, <3>1
  <2> QED BY <2>2, <2>3
<1>6. Range(u) = Range(s) \cup Range(t)
  <2>1. \A x \in Range(u) : x \in Range(s) \cup Range(t)
    BY <1>1, <1>5 DEF Range
  <2>2. \A x \in Range(s) : x \in Range(u)
    BY <1>1, <1>4 DEF Range
  <2>3. \A x \in Range(t) : x \in Range(u)
    BY <1>1, <1>4 DEF Range
  <2> QED BY <2>1, <2>2, <2>3
<1>7. ASSUME IsInjective(s), IsInjective(t), Range(s) \cap Range(t) = {} PROVE IsInjective(u)
  <2>1. \A i \in 1..Len(s), j \in 1..Len(t) : s[i] # t[j]
    BY <1>1, <1>7 DEF Range
  <2> SUFFICES ASSUME NEW i \in DOMAIN u, NEW j \in DOMAIN u, u[i] = u[j] PROVE i = j
    BY DEF IsInjective
  <2>2. i \in Int /\ j \in Int
    BY <1>3
  <2>3. CASE i \in 1..Len(s) /\ u[i] = s[i] /\ j \in 1..Len(s) /\ u[j] = s[j]
    BY <1>1, <1>7, <2>3 DEF IsInjective
  <2>4. CASE /\ i - Len(s) \in 1..Len(t) /\ u[i] = t[i - Len(s)]
             /\ j - Len(s) \in 1..Len(t) /\ u[j] = t[j - Len(s)]
    <3>1. i - Len(s) = j - Len(s)
      BY <1>1, <1>7, <2>4 DEF IsInjective
    <3> QED BY <1>1, <2>2, <3>1
  <2> QED BY <1>5, <2>1, <2>3, <2>4
<1> QED BY <1>2, <1>6, <1>7 DEF u
=============================================================================
