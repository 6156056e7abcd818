------------------------------ MODULE SumTheorems ------------------------------
(***************************************************************************)
(* What a sum over a finite set is: the fold of the community modules picks *)
(* the elements in an order of its own, and these lemmas show that the      *)
(* order does not matter. The induction is on the sets themselves, as the   *)
(* choice of a smallest counterexample.  And that the recursion behind a    *)
(* fold of a sequence has a solution, so that it goes step by step.         *)
(***************************************************************************)
EXTENDS Integers, Functions, FiniteSets, FiniteSetTheorems, WellFoundedInduction, TLAPS

(* Of any subsets of a finite set, one contains no other of them.           *)
LEMMA SmallestSubset ==
  ASSUME NEW S, IsFiniteSet(S), NEW T, T \subseteq SUBSET S, T # {}
  PROVE  \E s \in T : \A t \in T : t \subseteq s => t = s
<1>1. T \subseteq FiniteSubsetsOf(S)
  BY FS_FiniteSubsetsOfFinite
<1>2. IsWellFoundedOn(StrictSubsetOrdering(S), FiniteSubsetsOf(S))
  BY FS_StrictSubsetOrderingWellFounded
<1>3. PICK s \in T : \A t \in T : ~ (<<t, s>> \in StrictSubsetOrdering(S))
  BY <1>1, <1>2, WFMin
<1>4. \A t \in T : t \subseteq s => t = s
  BY <1>3 DEF StrictSubsetOrdering
<1> QED
  BY <1>3, <1>4

(* The recursion behind a sum: one element is taken out at a time.          *)
Pick(s) == CHOOSE x \in s : TRUE

Adds(f, g, S) ==
  g = [s \in SUBSET S |-> IF s = {} THEN 0 ELSE f[Pick(s)] + g[s \ {Pick(s)}]]

Adder(f, S) == CHOOSE g : Adds(f, g, S)

(* The sum of the community modules, as the recursion it is.                *)
LEMMA SumIsAdder ==
  ASSUME NEW f, NEW S
  PROVE  SumFunctionOnSet(f, S) = Adder(f, S)[S]
  BY DEF SumFunctionOnSet, FoldFunctionOnSet, MapThenFoldSet, Adder, Adds, Pick
(* The recursion has a solution, and it is the same function on every set.  *)
Solved(f, S) ==
  /\ Adds(f, Adder(f, S), S)
  /\ \A s \in SUBSET S : Adder(f, S)[s] = Adder(f, s)[s]

(* Pick takes an element.                                                   *)
LEMMA PickIsElement ==
  ASSUME NEW s, s # {}
  PROVE  Pick(s) \in s
  BY DEF Pick

(* A set is solved when all smaller ones are.                               *)
LEMMA SolvedFromBelow ==
  ASSUME NEW f, NEW T, IsFiniteSet(T), \A U \in SUBSET T : U # T => Solved(f, U)
  PROVE  Solved(f, T)
<1> DEFINE Less(s) == s \ {Pick(s)}
           Value(s) == IF s = {} THEN 0 ELSE f[Pick(s)] + Adder(f, Less(s))[Less(s)]
           g == [s \in SUBSET T |-> Value(s)]
           h == Adder(f, T)
<1>1. ASSUME NEW s \in SUBSET T, s # {}
      PROVE  Less(s) \in SUBSET T /\ Less(s) \in SUBSET s /\ Less(s) # T /\ Less(s) # s
  BY <1>1, PickIsElement
<1>2. ASSUME NEW U \in SUBSET T, U # T
      PROVE  Adder(f, U)[U] = Value(U)
  <2>1. Solved(f, U)
    BY <1>2
  <2>2. Adder(f, U)[U] = IF U = {} THEN 0 ELSE f[Pick(U)] + Adder(f, U)[Less(U)]
    BY <2>1 DEF Solved, Adds
  <2>3. U # {} => Adder(f, U)[Less(U)] = Adder(f, Less(U))[Less(U)]
    BY <2>1 DEF Solved
  <2> QED
    BY <2>2, <2>3
<1>3. Adds(f, g, T)
  <2>1. ASSUME NEW s \in SUBSET T
        PROVE  g[s] = IF s = {} THEN 0 ELSE f[Pick(s)] + g[Less(s)]
    <3>1. s # {} => g[Less(s)] = Adder(f, Less(s))[Less(s)]
      BY <1>1, <1>2
    <3> QED
      BY <3>1
  <2>2. g = [s \in SUBSET T |-> IF s = {} THEN 0 ELSE f[Pick(s)] + g[Less(s)]]
    BY <2>1
  <2> QED
    BY <2>2 DEF Adds
<1>4. Adds(f, h, T)
  BY <1>3 DEF Adder
<1>5. \A s \in SUBSET T : h[s] = Adder(f, s)[s]
  <2> DEFINE Wrong == {s \in SUBSET T : h[s] # Adder(f, s)[s]}
  <2> SUFFICES ASSUME Wrong # {}
               PROVE  FALSE
    OBVIOUS
  <2>1. PICK s \in Wrong : \A t \in Wrong : t \subseteq s => t = s
    <3>1. Wrong \subseteq SUBSET T
      OBVIOUS
    <3> HIDE DEF Wrong
    <3> QED
      BY <3>1, SmallestSubset
  <2>2. s \in SUBSET T /\ s # T
    OBVIOUS
  <2>3. h[s] = IF s = {} THEN 0 ELSE f[Pick(s)] + h[Less(s)]
    BY <1>4, <2>2 DEF Adds
  <2>4. s # {} => h[Less(s)] = Adder(f, Less(s))[Less(s)]
    BY <1>1, <2>1, <2>2
  <2>5. h[s] = Adder(f, s)[s]
    BY <1>2, <2>2, <2>3, <2>4
  <2> QED
    BY <2>5
<1> QED
  BY <1>4, <1>5 DEF Solved

(* The recursion has a solution for every finite set.                       *)
LEMMA AlwaysSolved ==
  ASSUME NEW f, NEW S, IsFiniteSet(S)
  PROVE  Solved(f, S)
<1> DEFINE Wrong == {s \in SUBSET S : ~ Solved(f, s)}
<1> SUFFICES ASSUME Wrong # {}
             PROVE  FALSE
  OBVIOUS
<1>1. PICK s \in Wrong : \A t \in Wrong : t \subseteq s => t = s
  <2>1. Wrong \subseteq SUBSET S
    OBVIOUS
  <2> HIDE DEF Wrong
  <2> QED
    BY <2>1, SmallestSubset
<1>2. IsFiniteSet(s)
  BY FS_Subset
<1>3. \A U \in SUBSET s : U # s => Solved(f, U)
  BY <1>1
<1> QED
  BY <1>2, <1>3, SolvedFromBelow

-----------------------------------------------------------------------------
(* Sums                                                                     *)

(* A sum is that of the element picked and of the others.                   *)
LEMMA SumRecursion ==
  ASSUME NEW f, NEW S, IsFiniteSet(S)
  PROVE  SumFunctionOnSet(f, S) =
           IF S = {} THEN 0
           ELSE f[Pick(S)] + SumFunctionOnSet(f, S \ {Pick(S)})
<1>1. Solved(f, S)
  BY AlwaysSolved
<1>2. Adder(f, S)[S] = IF S = {} THEN 0 ELSE f[Pick(S)] + Adder(f, S)[S \ {Pick(S)}]
  BY <1>1 DEF Solved, Adds
<1>3. S # {} => Adder(f, S)[S \ {Pick(S)}] = Adder(f, S \ {Pick(S)})[S \ {Pick(S)}]
  BY <1>1 DEF Solved
<1> QED
  BY <1>2, <1>3, SumIsAdder

(* A sum of integers is one, and any element may be taken out first.        *)
THEOREM SumOfElements ==
  ASSUME NEW S, IsFiniteSet(S), NEW f, \A x \in S : f[x] \in Int
  PROVE  /\ SumFunctionOnSet(f, S) \in Int
         /\ S = {} => SumFunctionOnSet(f, S) = 0
         /\ \A x \in S : SumFunctionOnSet(f, S) = f[x] + SumFunctionOnSet(f, S \ {x})
<1> DEFINE Sum(s) == SumFunctionOnSet(f, s)
           Fine(s) == /\ Sum(s) \in Int
                      /\ \A x \in s : Sum(s) = f[x] + Sum(s \ {x})
           Wrong == {s \in SUBSET S : ~ Fine(s)}
<1>1. ASSUME NEW s \in SUBSET S, \A t \in SUBSET s : t # s => Fine(t)
      PROVE  Fine(s)
  <2> DEFINE p == Pick(s)
  <2> HIDE DEF Sum
  <2>1. IsFiniteSet(s)
    BY FS_Subset
  <2>2. Sum(s) = IF s = {} THEN 0 ELSE f[p] + Sum(s \ {p})
    BY <2>1, SumRecursion DEF Sum
  <2>3. s # {} => p \in s /\ f[p] \in Int /\ Sum(s \ {p}) \in Int
    BY <1>1, PickIsElement
  <2>4. Sum(s) \in Int
    BY <2>2, <2>3
  <2>5. ASSUME NEW x \in s, x # p
        PROVE  Sum(s) = f[x] + Sum(s \ {x})
    <3> DEFINE rest == (s \ {p}) \ {x}
    <3>1. Sum(s \ {p}) = f[x] + Sum(rest)
      BY <1>1, <2>3, <2>5
    <3>2. Sum(s \ {x}) = f[p] + Sum((s \ {x}) \ {p})
      BY <1>1, <2>3, <2>5
    <3>3. rest = (s \ {x}) \ {p}
      OBVIOUS
    <3>4. Sum(rest) \in Int /\ f[x] \in Int /\ f[p] \in Int
      BY <1>1, <2>3, <2>5
    <3> HIDE DEF rest
    <3> QED
      BY <2>2, <2>5, <3>1, <3>2, <3>3, <3>4
  <2> QED
    BY <2>2, <2>3, <2>4, <2>5
<1>2. Wrong = {}
  <2> SUFFICES ASSUME Wrong # {}
               PROVE  FALSE
    OBVIOUS
  <2>1. PICK s \in Wrong : \A t \in Wrong : t \subseteq s => t = s
    <3>1. Wrong \subseteq SUBSET S
      OBVIOUS
    <3> HIDE DEF Wrong
    <3> QED
      BY <3>1, SmallestSubset
  <2>2. \A t \in SUBSET s : t # s => Fine(t)
    BY <2>1
  <2> QED
    BY <1>1, <2>2
<1>3. S = {} => Sum(S) = 0
  BY SumRecursion
<1> QED
  BY <1>2, <1>3

(* One element more.                                                        *)
THEOREM SumWithElement ==
  ASSUME NEW S, IsFiniteSet(S), NEW a, a \notin S,
         NEW f, f[a] \in Int, \A x \in S : f[x] \in Int
  PROVE  SumFunctionOnSet(f, S \cup {a}) = f[a] + SumFunctionOnSet(f, S)
<1>1. IsFiniteSet(S \cup {a}) /\ (S \cup {a}) \ {a} = S
  BY FS_AddElement
<1>2. \A x \in S \cup {a} : f[x] \in Int
  OBVIOUS
<1>3. SumFunctionOnSet(f, S \cup {a}) = f[a] + SumFunctionOnSet(f, (S \cup {a}) \ {a})
  BY <1>1, <1>2, SumOfElements
<1> QED
  BY <1>1, <1>3

(* A sum of nothing but zeros is zero.                                      *)
THEOREM SumOfZeros ==
  ASSUME NEW S, IsFiniteSet(S), NEW f, \A x \in S : f[x] = 0
  PROVE  SumFunctionOnSet(f, S) = 0
<1> DEFINE F(s) == SumFunctionOnSet(f, s)
           Wrong == {s \in SUBSET S : F(s) # 0}
<1> SUFFICES ASSUME Wrong # {}
             PROVE  FALSE
  OBVIOUS
<1>1. PICK s \in Wrong : \A t \in Wrong : t \subseteq s => t = s
  <2>1. Wrong \subseteq SUBSET S
    OBVIOUS
  <2> HIDE DEF Wrong
  <2> QED
    BY <2>1, SmallestSubset
<1>2. s \in SUBSET S /\ F(s) # 0 /\ IsFiniteSet(s)
  BY FS_Subset
<1>3. F(s) = IF s = {} THEN 0 ELSE f[Pick(s)] + F(s \ {Pick(s)})
  BY <1>2, SumRecursion
<1>4. s # {} => f[Pick(s)] = 0 /\ F(s \ {Pick(s)}) = 0
  BY <1>1, PickIsElement
<1> HIDE DEF F
<1> QED
  BY <1>2, <1>3, <1>4

(* The sum of the opposites is the opposite of the sum.                     *)
THEOREM SumOfOpposites ==
  ASSUME NEW S, IsFiniteSet(S), NEW f, NEW g,
         \A x \in S : f[x] \in Int /\ g[x] = -f[x]
  PROVE  SumFunctionOnSet(g, S) = -SumFunctionOnSet(f, S)
<1> DEFINE F(s) == SumFunctionOnSet(f, s)
           G(s) == SumFunctionOnSet(g, s)
           Wrong == {s \in SUBSET S : ~ (G(s) = -F(s))}
<1> SUFFICES ASSUME Wrong # {}
             PROVE  FALSE
  OBVIOUS
<1>1. PICK s \in Wrong : \A t \in Wrong : t \subseteq s => t = s
  <2>1. Wrong \subseteq SUBSET S
    OBVIOUS
  <2> HIDE DEF Wrong
  <2> QED
    BY <2>1, SmallestSubset
<1>2. s \in SUBSET S /\ ~ (G(s) = -F(s)) /\ IsFiniteSet(s)
  BY FS_Subset
<1>3. s = {} => F(s) = 0 /\ G(s) = 0
  BY <1>2, SumRecursion
<1>4. ASSUME NEW x \in s
      PROVE  G(s) = -F(s)
  <2>1. \A y \in s : f[y] \in Int /\ g[y] \in Int /\ g[y] = -f[y]
    OBVIOUS
  <2>2. F(s) = f[x] + F(s \ {x}) /\ G(s) = g[x] + G(s \ {x})
    BY <1>2, <2>1, SumOfElements
  <2>3. IsFiniteSet(s \ {x}) /\ \A y \in s \ {x} : f[y] \in Int /\ g[y] \in Int
    BY <1>2, <2>1, FS_RemoveElement
  <2>4. F(s \ {x}) \in Int /\ G(s \ {x}) \in Int
    BY <2>3, SumOfElements
  <2>5. G(s \ {x}) = -F(s \ {x})
    BY <1>1
  <2> HIDE DEF F, G
  <2> QED
    BY <2>1, <2>2, <2>4, <2>5
<1> HIDE DEF F, G
<1> QED
  BY <1>2, <1>3, <1>4

(* The greater its elements, the greater the sum.                           *)
THEOREM SumMonotone ==
  ASSUME NEW S, IsFiniteSet(S), NEW f, NEW g,
         \A x \in S : f[x] \in Int /\ g[x] \in Int /\ f[x] <= g[x]
  PROVE  SumFunctionOnSet(f, S) <= SumFunctionOnSet(g, S)
<1> DEFINE F(s) == SumFunctionOnSet(f, s)
           G(s) == SumFunctionOnSet(g, s)
           Wrong == {s \in SUBSET S : ~ (F(s) <= G(s))}
<1> SUFFICES ASSUME Wrong # {}
             PROVE  FALSE
  OBVIOUS
<1>1. PICK s \in Wrong : \A t \in Wrong : t \subseteq s => t = s
  <2>1. Wrong \subseteq SUBSET S
    OBVIOUS
  <2> HIDE DEF Wrong
  <2> QED
    BY <2>1, SmallestSubset
<1>2. s \in SUBSET S /\ ~ (F(s) <= G(s)) /\ IsFiniteSet(s)
  BY FS_Subset
<1>3. s = {} => F(s) = 0 /\ G(s) = 0
  BY <1>2, SumRecursion
<1>4. ASSUME NEW x \in s
      PROVE  F(s) <= G(s)
  <2>1. F(s) = f[x] + F(s \ {x}) /\ G(s) = g[x] + G(s \ {x})
    BY <1>2, SumOfElements
  <2>2. IsFiniteSet(s \ {x}) /\ \A y \in s \ {x} : f[y] \in Int /\ g[y] \in Int
    BY <1>2, FS_RemoveElement
  <2>3. F(s \ {x}) \in Int /\ G(s \ {x}) \in Int
    BY <2>2, SumOfElements
  <2>4. F(s \ {x}) <= G(s \ {x})
    BY <1>1
  <2>5. f[x] \in Int /\ g[x] \in Int /\ f[x] <= g[x]
    OBVIOUS
  <2> HIDE DEF F, G
  <2> QED
    BY <2>1, <2>3, <2>4, <2>5
<1> HIDE DEF F, G
<1> QED
  BY <1>2, <1>3, <1>4

(* Where two functions agree, so do their sums.                             *)
THEOREM SumsAgree ==
  ASSUME NEW S, IsFiniteSet(S), NEW f, NEW g,
         \A x \in S : f[x] \in Int /\ f[x] = g[x]
  PROVE  SumFunctionOnSet(f, S) = SumFunctionOnSet(g, S)
<1>1. \A x \in S : f[x] \in Int /\ g[x] \in Int /\ f[x] <= g[x] /\ g[x] <= f[x]
  OBVIOUS
<1>2. SumFunctionOnSet(f, S) <= SumFunctionOnSet(g, S)
  BY <1>1, SumMonotone
<1>3. SumFunctionOnSet(g, S) <= SumFunctionOnSet(f, S)
  BY <1>1, SumMonotone
<1>4. SumFunctionOnSet(f, S) \in Int /\ SumFunctionOnSet(g, S) \in Int
  BY <1>1, SumOfElements
<1> QED
  BY <1>2, <1>3, <1>4

(* A difference in one place is the difference of the sums.                 *)
LEMMA SumsDiffer ==
  ASSUME NEW S, IsFiniteSet(S), NEW f, NEW g, NEW a \in S,
         \A x \in S : f[x] \in Int /\ g[x] \in Int,
         \A x \in S \ {a} : f[x] = g[x]
  PROVE  SumFunctionOnSet(f, S) - SumFunctionOnSet(g, S) = f[a] - g[a]
<1> DEFINE F(s) == SumFunctionOnSet(f, s)
           G(s) == SumFunctionOnSet(g, s)
<1>1. F(S) = f[a] + F(S \ {a}) /\ G(S) = g[a] + G(S \ {a})
  BY SumOfElements
<1>2. IsFiniteSet(S \ {a})
  BY FS_RemoveElement
<1>3. F(S \ {a}) = G(S \ {a})
  BY <1>2, SumsAgree
<1>4. G(S \ {a}) \in Int
  BY <1>2, SumOfElements
<1>5. F(S) - G(S) = f[a] - g[a]
  <2> HIDE DEF F, G
  <2> QED
    BY <1>1, <1>3, <1>4
<1> QED
  BY <1>5

(* The sum of two functions, place by place, is the sum of their sums.      *)
THEOREM SumsAdd ==
  ASSUME NEW S, IsFiniteSet(S), NEW f, NEW g, NEW h,
         \A x \in S : f[x] \in Int /\ g[x] \in Int /\ h[x] = f[x] + g[x]
  PROVE  SumFunctionOnSet(h, S) = SumFunctionOnSet(f, S) + SumFunctionOnSet(g, S)
<1> DEFINE F(s) == SumFunctionOnSet(f, s)
           G(s) == SumFunctionOnSet(g, s)
           H(s) == SumFunctionOnSet(h, s)
           Wrong == {s \in SUBSET S : H(s) # F(s) + G(s)}
<1> SUFFICES ASSUME Wrong # {}
             PROVE  FALSE
  OBVIOUS
<1>1. PICK s \in Wrong : \A t \in Wrong : t \subseteq s => t = s
  <2>1. Wrong \subseteq SUBSET S
    OBVIOUS
  <2> HIDE DEF Wrong
  <2> QED
    BY <2>1, SmallestSubset
<1>2. s \in SUBSET S /\ H(s) # F(s) + G(s) /\ IsFiniteSet(s)
  BY FS_Subset
<1>3. s = {} => F(s) = 0 /\ G(s) = 0 /\ H(s) = 0
  BY <1>2, SumRecursion
<1>4. ASSUME NEW x \in s
      PROVE  H(s) = F(s) + G(s)
  <2>1. /\ f[x] \in Int /\ g[x] \in Int /\ h[x] = f[x] + g[x]
        /\ \A y \in s : f[y] \in Int /\ g[y] \in Int /\ h[y] \in Int
    BY <1>2
  <2>2. F(s) = f[x] + F(s \ {x}) /\ G(s) = g[x] + G(s \ {x}) /\ H(s) = h[x] + H(s \ {x})
    <3>1. F(s) = f[x] + F(s \ {x})
      BY <1>2, <2>1, SumOfElements
    <3>2. G(s) = g[x] + G(s \ {x})
      BY <1>2, <2>1, SumOfElements
    <3>3. H(s) = h[x] + H(s \ {x})
      BY <1>2, <2>1, SumOfElements
    <3> QED
      BY <3>1, <3>2, <3>3
  <2>3. IsFiniteSet(s \ {x})
    BY <1>2, FS_RemoveElement
  <2>4. F(s \ {x}) \in Int /\ G(s \ {x}) \in Int
    BY <2>1, <2>3, SumOfElements
  <2>5. H(s \ {x}) = F(s \ {x}) + G(s \ {x})
    BY <1>1
  <2> HIDE DEF F, G, H
  <2> QED
    BY <2>1, <2>2, <2>4, <2>5
<1> HIDE DEF F, G, H
<1> QED
  BY <1>2, <1>3, <1>4

(* A sum over two sets that have no element in common.                      *)
THEOREM SumOfUnion ==
  ASSUME NEW S, IsFiniteSet(S), NEW T, IsFiniteSet(T), S \cap T = {},
         NEW f, \A x \in S \cup T : f[x] \in Int
  PROVE  SumFunctionOnSet(f, S \cup T) = SumFunctionOnSet(f, S) + SumFunctionOnSet(f, T)
<1> DEFINE F(s) == SumFunctionOnSet(f, s)
           Wrong == {s \in SUBSET S : F(s \cup T) # F(s) + F(T)}
<1> SUFFICES ASSUME Wrong # {}
             PROVE  FALSE
  OBVIOUS
<1>1. PICK s \in Wrong : \A t \in Wrong : t \subseteq s => t = s
  <2>1. Wrong \subseteq SUBSET S
    OBVIOUS
  <2> HIDE DEF Wrong
  <2> QED
    BY <2>1, SmallestSubset
<1>2. s \in SUBSET S /\ F(s \cup T) # F(s) + F(T) /\ IsFiniteSet(s)
  BY FS_Subset
<1>3. F(T) \in Int
  BY SumOfElements
<1>4. CASE s = {}
  <2>1. F(s) = 0 /\ s \cup T = T
    BY <1>4, <1>2, SumRecursion
  <2> HIDE DEF F
  <2>2. F(s \cup T) = F(T)
    BY <2>1
  <2>3. F(s \cup T) = F(s) + F(T)
    BY <1>3, <2>1, <2>2
  <2> QED
    BY <1>2, <2>3
<1>5. ASSUME NEW x \in s
      PROVE  FALSE
  <2>1. F(s) = f[x] + F(s \ {x})
    BY <1>2, SumOfElements
  <2>2. IsFiniteSet(s \cup T)
    BY <1>2, FS_Union
  <2>3. F(s \cup T) = f[x] + F((s \cup T) \ {x})
    <3>1. \A y \in s \cup T : f[y] \in Int
      BY <1>2
    <3> QED
      BY <2>2, <3>1, SumOfElements
  <2>4. (s \cup T) \ {x} = (s \ {x}) \cup T
    BY <1>2
  <2>5. F((s \ {x}) \cup T) = F(s \ {x}) + F(T)
    BY <1>1, <1>2
  <2>6. F(s \ {x}) \in Int /\ f[x] \in Int
    <3>1. IsFiniteSet(s \ {x}) /\ \A y \in s \ {x} : f[y] \in Int
      BY <1>2, FS_RemoveElement
    <3> QED
      BY <1>2, <3>1, SumOfElements
  <2> HIDE DEF F
  <2>7. F(s \cup T) = f[x] + (F(s \ {x}) + F(T))
    BY <2>3, <2>4, <2>5
  <2>8. F(s \cup T) = F(s) + F(T)
    BY <1>3, <2>1, <2>6, <2>7
  <2> QED
    BY <1>2, <2>8
<1> QED
  BY <1>4, <1>5

(* A finite set has finitely many keys, no more than elements.              *)
LEMMA ImageIsFinite ==
  ASSUME NEW S, IsFiniteSet(S), NEW key
  PROVE  IsFiniteSet({key[x] : x \in S}) /\ Cardinality({key[x] : x \in S}) <= Cardinality(S)
<1> DEFINE T == {key[x] : x \in S}
           f == [x \in S |-> key[x]]
<1>1. f \in Surjection(S, T)
  BY DEF Surjection
<1> HIDE DEF T, f
<1>2. IsFiniteSet(T) /\ Cardinality(T) <= Cardinality(S)
  BY <1>1, FS_Surjection
<1> QED
  BY <1>2 DEF T

(* Summed part by part, one part for every value of a key.                  *)
Parts(f, S, key, g) ==
  \A k \in {key[x] : x \in S} : g[k] = SumFunctionOnSet(f, {x \in S : key[x] = k})

(* The parts add up to the whole: every element is in one of them.          *)
THEOREM SumByParts ==
  ASSUME NEW S, IsFiniteSet(S), NEW f, \A x \in S : f[x] \in Int, NEW key, NEW g,
         Parts(f, S, key, g)
  PROVE  SumFunctionOnSet(g, {key[x] : x \in S}) = SumFunctionOnSet(f, S)
<1> DEFINE F(s) == SumFunctionOnSet(f, s)
           G(Q) == SumFunctionOnSet(g, Q)
           Keys == {key[x] : x \in S}
           With(Q) == {x \in S : key[x] \in Q}
           Wrong == {Q \in SUBSET Keys : G(Q) # F(With(Q))}
<1>1. IsFiniteSet(Keys)
  BY ImageIsFinite
<1>2. ASSUME NEW Q
      PROVE  IsFiniteSet(With(Q)) /\ F(With(Q)) \in Int
  <2>1. IsFiniteSet(With(Q)) /\ \A x \in With(Q) : f[x] \in Int
    BY FS_Subset
  <2> HIDE DEF With
  <2> QED
    BY <2>1, SumOfElements
<1>3. ASSUME NEW k \in Keys
      PROVE  g[k] = F(With({k})) /\ g[k] \in Int
  <2>1. {x \in S : key[x] = k} = With({k})
    OBVIOUS
  <2>2. g[k] = SumFunctionOnSet(f, {x \in S : key[x] = k})
    BY DEF Parts
  <2> HIDE DEF With
  <2> QED
    BY <1>2, <2>1, <2>2
<1>4. Wrong = {}
  <2> SUFFICES ASSUME Wrong # {}
               PROVE  FALSE
    OBVIOUS
  <2>1. PICK Q \in Wrong : \A t \in Wrong : t \subseteq Q => t = Q
    <3>1. Wrong \subseteq SUBSET Keys
      OBVIOUS
    <3> HIDE DEF Wrong, Keys
    <3> QED
      BY <1>1, <3>1, SmallestSubset
  <2>2. Q \in SUBSET Keys /\ G(Q) # F(With(Q)) /\ IsFiniteSet(Q)
    BY <1>1, FS_Subset
  <2>3. CASE Q = {}
    <3>1. G(Q) = 0 /\ With(Q) = {}
      BY <2>2, <2>3, SumRecursion
    <3>2. F({}) = 0
      BY SumRecursion, FS_EmptySet
    <3> QED
      BY <2>2, <3>1, <3>2
  <2>4. ASSUME NEW k \in Q
        PROVE  FALSE
    <3>1. \A j \in Q : g[j] \in Int
      BY <1>3, <2>2
    <3>2. G(Q) = g[k] + G(Q \ {k})
      BY <2>2, <3>1, SumOfElements
    <3>3. G(Q \ {k}) = F(With(Q \ {k}))
      BY <2>1, <2>2
    <3>4. With({k}) \cup With(Q \ {k}) = With(Q) /\ With({k}) \cap With(Q \ {k}) = {}
      OBVIOUS
    <3>5. \A x \in With({k}) \cup With(Q \ {k}) : f[x] \in Int
      OBVIOUS
    <3> HIDE DEF With
    <3>6. F(With({k}) \cup With(Q \ {k})) = F(With({k})) + F(With(Q \ {k}))
      BY <1>2, <3>4, <3>5, SumOfUnion
    <3> HIDE DEF F, G
    <3> QED
      BY <1>3, <2>2, <3>2, <3>3, <3>4, <3>6
  <2> QED
    BY <2>3, <2>4
<1>5. With(Keys) = S /\ Keys \in SUBSET Keys
  OBVIOUS
<1> HIDE DEF With
<1> QED
  BY <1>4, <1>5

(* The same values under other names.                                       *)
THEOREM SumRenamed ==
  ASSUME NEW S, IsFiniteSet(S), NEW T, NEW b \in Bijection(S, T),
         NEW f, \A y \in T : f[y] \in Int, NEW g, \A x \in S : g[x] = f[b[x]]
  PROVE  SumFunctionOnSet(g, S) = SumFunctionOnSet(f, T)
<1>1. b \in [S -> T] /\ (\A x, y \in S : b[x] = b[y] => x = y) /\ T = {b[x] : x \in S}
  BY DEF Bijection, Injection, Surjection, IsInjective
<1>2. IsFiniteSet(T)
  BY FS_Surjection DEF Bijection
<1>3. ASSUME NEW y \in T
      PROVE  \E x \in S : b[x] = y /\ {z \in S : b[z] = y} = {x}
  BY <1>1
<1>4. \A x \in S : g[x] \in Int
  BY <1>1
<1>5. ASSUME NEW y \in T
      PROVE  f[y] = SumFunctionOnSet(g, {z \in S : b[z] = y})
  <2>1. PICK x \in S : b[x] = y /\ {z \in S : b[z] = y} = {x}
    BY <1>3
  <2>2. SumFunctionOnSet(g, {x}) = g[x] + SumFunctionOnSet(g, {x} \ {x})
    BY <1>4, FS_Singleton, SumOfElements
  <2>3. {x} \ {x} = {} /\ SumFunctionOnSet(g, {}) = 0
    BY SumRecursion, FS_EmptySet
  <2>4. g[x] = f[y] /\ f[y] \in Int
    BY <2>1
  <2> QED
    BY <2>1, <2>2, <2>3, <2>4
<1>6. Parts(g, S, b, f)
  BY <1>1, <1>5 DEF Parts
<1>7. SumFunctionOnSet(f, {b[x] : x \in S}) = SumFunctionOnSet(g, S)
  BY <1>4, <1>6, SumByParts
<1> QED
  BY <1>1, <1>7

(* To count is to sum ones.                                                 *)
THEOREM CountIsSum ==
  ASSUME NEW S, IsFiniteSet(S), NEW f, \A x \in S : f[x] = 1
  PROVE  SumFunctionOnSet(f, S) = Cardinality(S)
<1> DEFINE F(s) == SumFunctionOnSet(f, s)
           Wrong == {s \in SUBSET S : F(s) # Cardinality(s)}
<1> SUFFICES ASSUME Wrong # {}
             PROVE  FALSE
  OBVIOUS
<1>1. PICK s \in Wrong : \A t \in Wrong : t \subseteq s => t = s
  <2>1. Wrong \subseteq SUBSET S
    OBVIOUS
  <2> HIDE DEF Wrong
  <2> QED
    BY <2>1, SmallestSubset
<1>2. s \in SUBSET S /\ F(s) # Cardinality(s) /\ IsFiniteSet(s)
  BY FS_Subset
<1>3. CASE s = {}
  <2>1. F(s) = 0 /\ Cardinality(s) = 0
    BY <1>2, <1>3, SumRecursion, FS_EmptySet
  <2> QED
    BY <1>2, <2>1
<1>4. ASSUME NEW x \in s
      PROVE  FALSE
  <2>1. F(s) = f[x] + F(s \ {x}) /\ f[x] = 1
    BY <1>2, SumOfElements
  <2>2. F(s \ {x}) = Cardinality(s \ {x})
    BY <1>1, <1>2
  <2>3. Cardinality(s \ {x}) = Cardinality(s) - 1 /\ Cardinality(s) \in Nat
    BY <1>2, FS_RemoveElement, FS_CardinalityType
  <2> HIDE DEF F
  <2> QED
    BY <1>2, <2>1, <2>2, <2>3
<1> QED
  BY <1>3, <1>4

(* A sum of what is not negative is at least any of its parts.              *)
THEOREM SumOfNaturals ==
  ASSUME NEW S, IsFiniteSet(S), NEW f, \A x \in S : f[x] \in Nat
  PROVE  /\ SumFunctionOnSet(f, S) \in Nat
         /\ \A x \in S : f[x] <= SumFunctionOnSet(f, S)
<1>1. ASSUME NEW s \in SUBSET S
      PROVE  SumFunctionOnSet(f, s) \in Nat
  <2> DEFINE z == [x \in s |-> 0]
  <2>1. IsFiniteSet(s) /\ (\A x \in s : z[x] = 0) /\ \A x \in s : f[x] \in Nat
    BY FS_Subset
  <2>2. \A x \in s : z[x] \in Int /\ f[x] \in Int /\ z[x] <= f[x]
    BY <2>1
  <2> HIDE DEF z
  <2>3. SumFunctionOnSet(z, s) <= SumFunctionOnSet(f, s)
    BY <2>1, <2>2, SumMonotone
  <2>4. SumFunctionOnSet(z, s) = 0
    BY <2>1, SumOfZeros
  <2>5. SumFunctionOnSet(f, s) \in Int
    BY <2>1, <2>2, SumOfElements
  <2> QED
    BY <2>3, <2>4, <2>5
<1>2. ASSUME NEW x \in S
      PROVE  f[x] <= SumFunctionOnSet(f, S)
  <2>1. SumFunctionOnSet(f, S) = f[x] + SumFunctionOnSet(f, S \ {x})
    BY SumOfElements
  <2>2. SumFunctionOnSet(f, S \ {x}) \in Nat /\ f[x] \in Nat
    BY <1>1
  <2> QED
    BY <2>1, <2>2
<1>3. SumFunctionOnSet(f, S) \in Nat
  <2>1. S \in SUBSET S
    OBVIOUS
  <2> QED
    BY <1>1, <2>1
<1> QED
  BY <1>2, <1>3

-----------------------------------------------------------------------------
(* Steps and folds                                                          *)

(* Induction on the naturals, of the numbers in a set.                      *)
LEMMA NaturalsCovered ==
  ASSUME NEW T, 0 \in T, \A n \in Nat : n \in T => n + 1 \in T
  PROVE  Nat \subseteq T
<1> SUFFICES ASSUME NEW n \in Nat, n \notin T
             PROVE  FALSE
  OBVIOUS
<1> DEFINE Initial == {0..k : k \in {i \in 0..n : i \notin T}}
<1>1. PICK s \in Initial : \A t \in Initial : t \subseteq s => t = s
  <2> DEFINE S == 0..n
  <2>1. IsFiniteSet(S)
    <3>1. 0 \in Int /\ n \in Int
      OBVIOUS
    <3> QED
      BY <3>1, FS_Interval
  <2>2. Initial \subseteq SUBSET S
    OBVIOUS
  <2>3. 0..n \in Initial
    OBVIOUS
  <2> HIDE DEF Initial, S
  <2>4. Initial # {}
    BY <2>3
  <2> QED
    BY <2>1, <2>2, <2>4, SmallestSubset
<1>2. PICK k \in 0..n : k \notin T /\ s = 0..k
  BY <1>1
<1>3. k # 0 /\ k - 1 \in 0..n
  BY <1>2
<1>4. k - 1 \notin T
  BY <1>2, <1>3
<1>5. 0..(k - 1) \in Initial
  BY <1>3, <1>4
<1>6. 0..(k - 1) \subseteq s /\ k \in s /\ k \notin 0..(k - 1)
  BY <1>2
<1> QED
  BY <1>1, <1>5, <1>6

(* Of some numbers up to n, one is the greatest.                            *)
LEMMA GreatestOfSome ==
  ASSUME NEW n \in Nat, NEW s \in SUBSET (1..n), s # {}
  PROVE  \E m \in s : \A y \in s : m >= y
<1> DEFINE T == {k \in Nat : \A u \in SUBSET (1..k) : u # {} => \E m \in u : \A y \in u : m >= y}
<1>1. 0 \in T
  <2>1. \A u \in SUBSET (1..0) : u = {}
    OBVIOUS
  <2> QED
    BY <2>1
<1>2. ASSUME NEW k \in Nat, k \in T
      PROVE  k + 1 \in T
  <2> SUFFICES ASSUME NEW u \in SUBSET (1..(k + 1)), u # {}
               PROVE  \E m \in u : \A y \in u : m >= y
    OBVIOUS
  <2>1. CASE k + 1 \in u
    BY <2>1
  <2>2. CASE k + 1 \notin u
    <3>1. u \in SUBSET (1..k)
      BY <2>2
    <3> QED
      BY <1>2, <3>1
  <2> QED
    BY <2>1, <2>2
<1>3. Nat \subseteq T
  <2> HIDE DEF T
  <2> QED
    BY <1>1, <1>2, NaturalsCovered
<1> QED
  BY <1>3

(* A recursion that takes the greatest element out of a set of numbers      *)
(* first, as a fold from the left does, has a solution.                     *)
Greatest(s) == CHOOSE x \in s : \A y \in s : x >= y

(* The greatest of some numbers is one of them.                             *)
LEMMA GreatestIsElement ==
  ASSUME NEW n \in Nat, NEW s \in SUBSET (1..n), s # {}
  PROVE  Greatest(s) \in s /\ \A y \in s : Greatest(s) >= y
BY GreatestOfSome DEF Greatest

(* The greatest of the first n numbers is n.                                *)
LEMMA GreatestOfInterval ==
  ASSUME NEW n \in Nat \ {0}
  PROVE  Greatest(1..n) = n /\ (1..n) \ {n} = 1..(n - 1)
<1>1. Greatest(1..n) \in 1..n /\ \A y \in 1..n : Greatest(1..n) >= y
  <2> DEFINE s == 1..n
  <2>1. s \in SUBSET (1..n) /\ s # {} /\ n \in Nat
    OBVIOUS
  <2> HIDE DEF s
  <2>2. Greatest(s) \in s /\ \A y \in s : Greatest(s) >= y
    BY <2>1, GreatestIsElement
  <2> QED
    BY <2>2 DEF s
<1> HIDE DEF Greatest
<1>2. n \in 1..n
  OBVIOUS
<1>3. Greatest(1..n) >= n
  BY <1>1, <1>2
<1>4. Greatest(1..n) = n
  BY <1>1, <1>3
<1> QED
  BY <1>4

FoldsBy(g, N, base, step) ==
  g = [s \in SUBSET (1..N) |->
         IF s = {} THEN base ELSE step[<<g[s \ {Greatest(s)}], Greatest(s)>>]]

(* A fold over n places goes on to the next.                                *)
LEMMA FoldExtends ==
  ASSUME NEW N \in Nat, NEW Acc, NEW base \in Acc, NEW step \in [Acc \X (1..N) -> Acc],
         NEW n \in Nat, n + 1 <= N,
         NEW g \in [SUBSET (1..n) -> Acc], FoldsBy(g, n, base, step)
  PROVE  \E h \in [SUBSET (1..(n + 1)) -> Acc] : FoldsBy(h, n + 1, base, step)
<1> DEFINE m == n + 1
           rest(s) == s \ {m}
           h == [s \in SUBSET (1..m) |-> IF m \in s THEN step[<<g[rest(s)], m>>] ELSE g[s]]
<1>1. ASSUME NEW s \in SUBSET (1..m)
      PROVE  rest(s) \in SUBSET (1..n) /\ (m \notin s => s \in SUBSET (1..n))
  OBVIOUS
<1>2. m \in 1..N /\ m \in Nat
  OBVIOUS
<1>3. h \in [SUBSET (1..m) -> Acc]
  <2> SUFFICES ASSUME NEW s \in SUBSET (1..m)
               PROVE  (IF m \in s THEN step[<<g[rest(s)], m>>] ELSE g[s]) \in Acc
    OBVIOUS
  <2>1. g[rest(s)] \in Acc /\ (m \notin s => g[s] \in Acc)
    BY <1>1
  <2>2. <<g[rest(s)], m>> \in Acc \X (1..N)
    BY <1>2, <2>1
  <2> QED
    BY <2>1, <2>2
<1>4. ASSUME NEW s \in SUBSET (1..m)
      PROVE  h[s] = IF s = {} THEN base ELSE step[<<h[s \ {Greatest(s)}], Greatest(s)>>]
  <2>1. CASE m \in s
    <3>1. Greatest(s) \in s /\ \A y \in s : Greatest(s) >= y
      BY <1>2, <2>1, GreatestIsElement
    <3>2. Greatest(s) \in 1..(n + 1) /\ Greatest(s) >= n + 1
      BY <2>1, <3>1
    <3>5. Greatest(s) = m
      BY <3>2
    <3>3. h[s] = step[<<g[rest(s)], m>>]
      BY <2>1
    <3>4. h[rest(s)] = g[rest(s)]
      BY <1>1
    <3> QED
      BY <2>1, <3>5, <3>3, <3>4
  <2>2. CASE m \notin s
    <3>1. s \in SUBSET (1..n)
      BY <1>1, <2>2
    <3>2. g[s] = IF s = {} THEN base ELSE step[<<g[s \ {Greatest(s)}], Greatest(s)>>]
      BY <3>1 DEF FoldsBy
    <3>3. h[s] = g[s] /\ h[s \ {Greatest(s)}] = g[s \ {Greatest(s)}]
      BY <2>2, <3>1
    <3> QED
      BY <3>2, <3>3
  <2> QED
    BY <2>1, <2>2
<1>5. FoldsBy(h, m, base, step)
  <2>1. h = [s \in SUBSET (1..m) |-> h[s]]
    BY <1>3
  <2> QED
    BY <1>4, <2>1 DEF FoldsBy
<1> QED
  BY <1>3, <1>5

(* Every fold over places has a solution.                                   *)
LEMMA FoldSolved ==
  ASSUME NEW N \in Nat, NEW Acc, NEW base \in Acc, NEW step \in [Acc \X (1..N) -> Acc]
  PROVE  \E g \in [SUBSET (1..N) -> Acc] : FoldsBy(g, N, base, step)
<1> DEFINE Solvable(n) == \E g \in [SUBSET (1..n) -> Acc] : FoldsBy(g, n, base, step)
           T == {n \in Nat : n <= N => Solvable(n)}
<1>1. Solvable(0)
  <2> DEFINE g == [s \in SUBSET (1..0) |-> base]
  <2>1. g \in [SUBSET (1..0) -> Acc]
    OBVIOUS
  <2>2. \A s \in SUBSET (1..0) : s = {}
    OBVIOUS
  <2>3. FoldsBy(g, 0, base, step)
    BY <2>2 DEF FoldsBy
  <2> QED
    BY <2>1, <2>3
<1>2. ASSUME NEW n \in Nat, Solvable(n), n + 1 <= N
      PROVE  Solvable(n + 1)
  BY <1>2, FoldExtends
<1> HIDE DEF Solvable
<1>3. 0 \in T /\ \A n \in Nat : n \in T => n + 1 \in T
  BY <1>1, <1>2
<1>4. Nat \subseteq T
  <2> HIDE DEF T
  <2> QED
    BY <1>3, NaturalsCovered
<1>5. Solvable(N)
  BY <1>4
<1> QED
  BY <1>5 DEF Solvable

(* What holds at the first of some steps, and from each to the next, holds  *)
(* at all of them.                                                          *)
LEMMA StepByStep ==
  ASSUME NEW N \in Nat, NEW Acc, NEW h, h[0] \in Acc,
         \A n \in 1..N : h[n - 1] \in Acc => h[n] \in Acc
  PROVE  \A n \in 0..N : h[n] \in Acc
<1> DEFINE T == {n \in Nat : n <= N => h[n] \in Acc}
<1>1. 0 \in T
  OBVIOUS
<1>2. ASSUME NEW n \in Nat, n \in T
      PROVE  n + 1 \in T
  <2> SUFFICES ASSUME n + 1 <= N
               PROVE  h[n + 1] \in Acc
    OBVIOUS
  <2>1. n + 1 \in 1..N /\ (n + 1) - 1 = n /\ h[n] \in Acc
    BY <1>2
  <2> QED
    BY <2>1
<1>3. Nat \subseteq T
  <2> HIDE DEF T
  <2> QED
    BY <1>1, <1>2, NaturalsCovered
<1> QED
  BY <1>3

(* Induction up to N.                                                       *)
LEMMA IntervalCovered ==
  ASSUME NEW N \in Nat, NEW T, 0 \in T, \A n \in 1..N : n - 1 \in T => n \in T
  PROVE  \A n \in 0..N : n \in T
<1> DEFINE U == {n \in Nat : n <= N => n \in T}
<1>1. 0 \in U
  OBVIOUS
<1>2. ASSUME NEW n \in Nat, n \in U
      PROVE  n + 1 \in U
  <2> SUFFICES ASSUME n + 1 <= N
               PROVE  n + 1 \in T
    OBVIOUS
  <2>1. n + 1 \in 1..N /\ (n + 1) - 1 = n /\ n \in T
    BY <1>2
  <2> QED
    BY <2>1
<1>3. Nat \subseteq U
  <2> HIDE DEF U
  <2> QED
    BY <1>1, <1>2, NaturalsCovered
<1> QED
  BY <1>3

(* A fold over the numbers up to N has passed those up to n before the next. *)
LEMMA FoldPrefix ==
  ASSUME NEW N \in Nat, NEW n \in 1..N
  PROVE  /\ n \in 0..N /\ n - 1 \in 0..N
         /\ 1..n \in SUBSET (1..N) /\ 1..n # {}
         /\ Greatest(1..n) = n /\ (1..n) \ {n} = 1..(n - 1)
<1>1. n \in Nat \ {0} /\ n \in 0..N /\ n - 1 \in 0..N
  OBVIOUS
<1>2. \A x \in 1..n : x \in 1..N
  OBVIOUS
<1>3. n \in 1..n
  BY <1>1
<1>4. 1..n \in SUBSET (1..N) /\ 1..n # {}
  BY ONLY <1>2, <1>3
<1>5. Greatest(1..n) = n /\ (1..n) \ {n} = 1..(n - 1)
  BY <1>1, GreatestOfInterval
<1> QED
  BY <1>1, <1>4, <1>5
=============================================================================
