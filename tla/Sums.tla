--------------------------------- MODULE Sums ---------------------------------
(***************************************************************************)
(* Sums over finite sets, as SumFunctionOnSet computes them: the cents and *)
(* units the services add up in SQL or in a loop (SUM(quantity), Money.Add *)
(* over an order's lines).  The fold takes the elements in whatever order  *)
(* CHOOSE yields; these lemmas say that the order does not matter and how  *)
(* a sum changes with its function and its set.  What holds for all finite *)
(* sets is shown by looking at a smallest set for which it fails.          *)
(***************************************************************************)
EXTENDS Integers, Functions, FiniteSetTheorems, WellFoundedInduction, TLAPS

(* The element a fold takes next, and the equation its function satisfies. *)
Taken(s) == CHOOSE x \in s : TRUE
SumsOver(f, S, g) ==
    g = [s \in SUBSET S |-> IF s = {} THEN 0 ELSE f[Taken(s)] + g[s \ {Taken(s)}]]

-----------------------------------------------------------------------------
(* A family of subsets of a finite set has a smallest member.  Taking for  *)
(* B the subsets a claim fails for, this is induction over finite sets.    *)
LEMMA SmallestSet ==
    ASSUME NEW S, IsFiniteSet(S), NEW B \in SUBSET SUBSET S, B # {}
    PROVE  \E T \in B : \A U \in SUBSET T : U # T => U \notin B
<1> DEFINE R == StrictSubsetOrdering(S)
<1>1. IsWellFoundedOn(R, SUBSET S)
  BY FS_StrictSubsetOrderingWellFounded, FS_FiniteSubsetsOfFinite
<1>2. PICK T \in B : \A U \in B : <<U, T>> \notin R
  <2> HIDE DEF R
  <2> QED
    BY <1>1, WFMin
<1>3. ASSUME NEW U \in SUBSET T, U # T, U \in B PROVE FALSE
  <2>1. <<U, T>> \in R
    BY <1>3 DEF StrictSubsetOrdering
  <2> QED
    BY <1>2, <1>3, <2>1
<1> QED
  BY <1>3

(* Taking an element.                                                      *)
LEMMA TakenIsIn == ASSUME NEW s, s # {} PROVE Taken(s) \in s /\ s \ {Taken(s)} # s
BY DEF Taken

(* The equation has one solution.                                          *)
LEMMA SumsAgree ==
    ASSUME NEW f, NEW S, IsFiniteSet(S), NEW T \in SUBSET S, NEW g, NEW h, SumsOver(f, S, g), SumsOver(f, T, h)
    PROVE  \A s \in SUBSET T : g[s] = h[s]
<1> DEFINE B == {s \in SUBSET T : g[s] # h[s]}
<1>1. SUFFICES ASSUME B # {} PROVE FALSE
  OBVIOUS
<1>2. IsFiniteSet(T)
  BY FS_Subset
<1>3. PICK s \in B : \A u \in SUBSET s : u # s => u \notin B
  <2>1. B \in SUBSET SUBSET T
    OBVIOUS
  <2> HIDE DEF B
  <2> QED
    BY <1>1, <1>2, <2>1, SmallestSet
<1>4. s \in SUBSET T /\ s \in SUBSET S /\ g[s] # h[s]
  BY <1>3
<1>5. /\ g[s] = IF s = {} THEN 0 ELSE f[Taken(s)] + g[s \ {Taken(s)}]
      /\ h[s] = IF s = {} THEN 0 ELSE f[Taken(s)] + h[s \ {Taken(s)}]
  BY <1>4 DEF SumsOver
<1>6. s # {}
  BY <1>4, <1>5
<1>7. g[s \ {Taken(s)}] = h[s \ {Taken(s)}]
  BY <1>3, <1>4, <1>6, TakenIsIn
<1> QED
  BY <1>4, <1>5, <1>6, <1>7

(* The equation has a solution.                                            *)
LEMMA SumsExist ==
    ASSUME NEW f, NEW S, IsFiniteSet(S)
    PROVE  \E g : SumsOver(f, S, g)
<1> DEFINE B == {T \in SUBSET S : ~\E g : SumsOver(f, T, g)}
<1>1. SUFFICES ASSUME B # {} PROVE FALSE
  OBVIOUS
<1>2. PICK T \in B : \A u \in SUBSET T : u # T => u \notin B
  <2>1. B \in SUBSET SUBSET S
    OBVIOUS
  <2> HIDE DEF B
  <2> QED
    BY <1>1, <2>1, SmallestSet
<1>3. T \in SUBSET S /\ ~\E g : SumsOver(f, T, g)
  BY <1>2
<1> DEFINE of(u) == CHOOSE g : SumsOver(f, u, g)
           val(u) == of(u)[u]
           G == [s \in SUBSET T |-> IF s = {} THEN 0 ELSE f[Taken(s)] + val(s \ {Taken(s)})]
<1>4. ASSUME NEW u \in SUBSET T, u # T PROVE SumsOver(f, u, of(u))
  <2>1. \E g : SumsOver(f, u, g)
    BY <1>2, <1>3, <1>4
  <2> QED
    BY <2>1
<1>5. ASSUME NEW u \in SUBSET T, u # T PROVE val(u) = IF u = {} THEN 0 ELSE f[Taken(u)] + val(u \ {Taken(u)})
  <2> DEFINE w == u \ {Taken(u)}
  <2>1. of(u)[u] = IF u = {} THEN 0 ELSE f[Taken(u)] + of(u)[w]
    <3> HIDE DEF of
    <3> QED
      BY <1>4, <1>5 DEF SumsOver
  <2>2. CASE u = {}
    BY <2>1, <2>2
  <2>3. CASE u # {}
    <3>1. w \in SUBSET u /\ w \in SUBSET T /\ w # T /\ IsFiniteSet(u)
      BY <1>3, <1>5, FS_Subset
    <3>2. SumsOver(f, u, of(u)) /\ SumsOver(f, w, of(w))
      BY <1>4, <1>5, <3>1
    <3>3. of(u)[w] = of(w)[w]
      <4> HIDE DEF of, w
      <4> QED
        BY <3>1, <3>2, SumsAgree
    <3> QED
      BY <2>1, <2>3, <3>3
  <2> QED
    BY <2>2, <2>3
<1>6. ASSUME NEW u \in SUBSET T, u # T PROVE G[u] = val(u)
  <2> HIDE DEF val
  <2> QED
    BY <1>5, <1>6
<1>7. \A s \in SUBSET T : s # {} => G[s \ {Taken(s)}] = val(s \ {Taken(s)})
  <2>1. ASSUME NEW s \in SUBSET T, s # {} PROVE s \ {Taken(s)} \in SUBSET T /\ s \ {Taken(s)} # T
    BY <2>1, TakenIsIn
  <2> HIDE DEF val, G
  <2> QED
    BY <1>6, <2>1
<1>8. SumsOver(f, T, G)
  <2>1. \A s \in SUBSET T : G[s] = IF s = {} THEN 0 ELSE f[Taken(s)] + G[s \ {Taken(s)}]
    <3> HIDE DEF val
    <3>1. \A s \in SUBSET T : G[s] = IF s = {} THEN 0 ELSE f[Taken(s)] + val(s \ {Taken(s)})
      OBVIOUS
    <3> HIDE DEF G
    <3> QED
      BY <1>7, <3>1
  <2>2. G = [s \in SUBSET T |-> G[s]]
    OBVIOUS
  <2> HIDE DEF G
  <2> QED
    BY <2>1, <2>2 DEF SumsOver
<1> QED
  BY <1>3, <1>8

(* What the community module's sum is.                                     *)
LEMMA SumIs ==
    ASSUME NEW f, NEW S PROVE SumFunctionOnSet(f, S) = (CHOOSE g : SumsOver(f, S, g))[S]
BY DEF SumFunctionOnSet, FoldFunctionOnSet, MapThenFoldSet, SumsOver, Taken

(* A sum is the element taken first and the sum of the rest.               *)
LEMMA SumUnfolds ==
    ASSUME NEW f, NEW S, IsFiniteSet(S)
    PROVE  SumFunctionOnSet(f, S) = IF S = {} THEN 0 ELSE f[Taken(S)] + SumFunctionOnSet(f, S \ {Taken(S)})
<1> DEFINE of(u) == CHOOSE g : SumsOver(f, u, g)
           w == S \ {Taken(S)}
<1>1. IsFiniteSet(w) /\ w \in SUBSET S
  BY FS_Subset
<1>2. SumsOver(f, S, of(S)) /\ SumsOver(f, w, of(w))
  BY <1>1, SumsExist
<1>3. of(S)[w] = of(w)[w]
  <2> HIDE DEF of, w
  <2> QED
    BY <1>1, <1>2, SumsAgree
<1>4. of(S)[S] = IF S = {} THEN 0 ELSE f[Taken(S)] + of(S)[w]
  <2> HIDE DEF of
  <2> QED
    BY <1>2 DEF SumsOver
<1>5. SumFunctionOnSet(f, S) = of(S)[S] /\ SumFunctionOnSet(f, w) = of(w)[w]
  BY SumIs
<1> HIDE DEF of, w
<1>6. SumFunctionOnSet(f, S) = IF S = {} THEN 0 ELSE f[Taken(S)] + SumFunctionOnSet(f, w)
  BY <1>3, <1>4, <1>5
<1> QED
  BY <1>6 DEF w

-----------------------------------------------------------------------------
(* The sum over no elements.                                               *)
LEMMA SumEmpty == \A f : SumFunctionOnSet(f, {}) = 0
BY SumUnfolds, FS_EmptySet

(* A sum of integers is an integer, one of naturals a natural.             *)
LEMMA SumType ==
    ASSUME NEW f, NEW S, IsFiniteSet(S), NEW D \in {Int, Nat}, \A x \in S : f[x] \in D
    PROVE  SumFunctionOnSet(f, S) \in D
<1> DEFINE B == {T \in SUBSET S : SumFunctionOnSet(f, T) \notin D}
<1>1. SUFFICES ASSUME B # {} PROVE FALSE
  OBVIOUS
<1>2. PICK T \in B : \A u \in SUBSET T : u # T => u \notin B
  <2>1. B \in SUBSET SUBSET S
    OBVIOUS
  <2> HIDE DEF B
  <2> QED
    BY <1>1, <2>1, SmallestSet
<1>3. T \in SUBSET S /\ SumFunctionOnSet(f, T) \notin D /\ IsFiniteSet(T)
  BY <1>2, FS_Subset
<1>4. T # {}
  BY <1>3, SumEmpty
<1>5. Taken(T) \in T /\ SumFunctionOnSet(f, T \ {Taken(T)}) \in D
  BY <1>2, <1>3, <1>4, TakenIsIn
<1>6. SumFunctionOnSet(f, T) = f[Taken(T)] + SumFunctionOnSet(f, T \ {Taken(T)})
  BY <1>3, <1>4, SumUnfolds
<1>7. f[Taken(T)] \in D
  BY <1>3, <1>5
<1> QED
  BY <1>3, <1>5, <1>6, <1>7

(* Any element may be taken out of a sum.                                  *)
LEMMA SumRemove ==
    ASSUME NEW f, NEW S, IsFiniteSet(S), \A x \in S : f[x] \in Int, NEW x \in S
    PROVE  SumFunctionOnSet(f, S) = f[x] + SumFunctionOnSet(f, S \ {x})
<1> DEFINE B == {T \in SUBSET S : \E y \in T : SumFunctionOnSet(f, T) # f[y] + SumFunctionOnSet(f, T \ {y})}
<1>1. SUFFICES ASSUME B # {} PROVE FALSE
  OBVIOUS
<1>2. PICK T \in B : \A u \in SUBSET T : u # T => u \notin B
  <2>1. B \in SUBSET SUBSET S
    OBVIOUS
  <2> HIDE DEF B
  <2> QED
    BY <1>1, <2>1, SmallestSet
<1>3. T \in SUBSET S /\ IsFiniteSet(T)
  BY <1>2, FS_Subset
<1>4. PICK y \in T : SumFunctionOnSet(f, T) # f[y] + SumFunctionOnSet(f, T \ {y})
  BY <1>2
<1> DEFINE e == Taken(T)
<1>5. e \in T /\ SumFunctionOnSet(f, T) = f[e] + SumFunctionOnSet(f, T \ {e})
  BY <1>3, <1>4, SumUnfolds, TakenIsIn
<1> HIDE DEF e
<1>6. e # y
  BY <1>4, <1>5
<1>7. SumFunctionOnSet(f, T \ {e}) = f[y] + SumFunctionOnSet(f, (T \ {e}) \ {y})
  <2>1. T \ {e} \in SUBSET T /\ T \ {e} # T /\ y \in T \ {e} /\ T \ {e} \in SUBSET S
    BY <1>3, <1>4, <1>5, <1>6
  <2> QED
    BY <1>2, <2>1
<1>8. SumFunctionOnSet(f, T \ {y}) = f[e] + SumFunctionOnSet(f, (T \ {y}) \ {e})
  <2>1. T \ {y} \in SUBSET T /\ T \ {y} # T /\ e \in T \ {y} /\ T \ {y} \in SUBSET S
    BY <1>3, <1>4, <1>5, <1>6
  <2> QED
    BY <1>2, <2>1
<1> DEFINE W == (T \ {e}) \ {y}
<1>9. (T \ {y}) \ {e} = W
  OBVIOUS
<1>10. SumFunctionOnSet(f, W) \in Int
  <2>1. IsFiniteSet(W) /\ \A z \in W : f[z] \in Int
    BY <1>3, FS_Subset
  <2> HIDE DEF W
  <2> QED
    BY <2>1, SumType
<1>11. f[e] \in Int /\ f[y] \in Int
  BY <1>3, <1>5
<1>12. /\ SumFunctionOnSet(f, T \ {e}) = f[y] + SumFunctionOnSet(f, W)
       /\ SumFunctionOnSet(f, T \ {y}) = f[e] + SumFunctionOnSet(f, W)
  BY <1>7, <1>8, <1>9
<1> HIDE DEF W
<1> QED
  BY <1>4, <1>5, <1>10, <1>11, <1>12

(* Another element adds its value.                                         *)
LEMMA SumAdd ==
    ASSUME NEW f, NEW S, IsFiniteSet(S), NEW x, x \notin S, \A y \in S \cup {x} : f[y] \in Int
    PROVE  SumFunctionOnSet(f, S \cup {x}) = f[x] + SumFunctionOnSet(f, S)
<1>1. IsFiniteSet(S \cup {x}) /\ (S \cup {x}) \ {x} = S
  BY FS_AddElement
<1> QED
  BY <1>1, SumRemove

(* Functions that agree on a set have the same sum over it.                *)
LEMMA SumSame ==
    ASSUME NEW f, NEW g, NEW S, IsFiniteSet(S), \A x \in S : f[x] = g[x]
    PROVE  SumFunctionOnSet(f, S) = SumFunctionOnSet(g, S)
<1> DEFINE B == {T \in SUBSET S : SumFunctionOnSet(f, T) # SumFunctionOnSet(g, T)}
<1>1. SUFFICES ASSUME B # {} PROVE FALSE
  OBVIOUS
<1>2. PICK T \in B : \A u \in SUBSET T : u # T => u \notin B
  <2>1. B \in SUBSET SUBSET S
    OBVIOUS
  <2> HIDE DEF B
  <2> QED
    BY <1>1, <2>1, SmallestSet
<1>3. T \in SUBSET S /\ SumFunctionOnSet(f, T) # SumFunctionOnSet(g, T) /\ IsFiniteSet(T)
  BY <1>2, FS_Subset
<1>4. T # {}
  BY <1>3, SumEmpty
<1> DEFINE w == T \ {Taken(T)}
<1>5. Taken(T) \in T /\ w \in SUBSET T /\ w # T
  BY <1>4, TakenIsIn
<1>6. SumFunctionOnSet(f, w) = SumFunctionOnSet(g, w)
  BY <1>2, <1>3, <1>5
<1>7. /\ SumFunctionOnSet(f, T) = f[Taken(T)] + SumFunctionOnSet(f, w)
      /\ SumFunctionOnSet(g, T) = g[Taken(T)] + SumFunctionOnSet(g, w)
  BY <1>3, <1>4, SumUnfolds
<1> QED
  BY <1>3, <1>5, <1>6, <1>7

(* Changing one value changes the sum by as much.                          *)
LEMMA SumChange ==
    ASSUME NEW f, NEW g, NEW S, IsFiniteSet(S), NEW x \in S,
           \A y \in S : f[y] \in Int /\ g[y] \in Int, \A y \in S \ {x} : g[y] = f[y]
    PROVE  SumFunctionOnSet(g, S) = SumFunctionOnSet(f, S) - f[x] + g[x]
<1> DEFINE w == S \ {x}
<1>1. IsFiniteSet(w) /\ \A y \in w : f[y] = g[y]
  BY FS_Subset
<1>2. SumFunctionOnSet(f, w) = SumFunctionOnSet(g, w)
  <2> HIDE DEF w
  <2> QED
    BY <1>1, SumSame
<1>3. SumFunctionOnSet(f, w) \in Int
  <2>1. \A y \in w : f[y] \in Int
    OBVIOUS
  <2> HIDE DEF w
  <2> QED
    BY <1>1, <2>1, SumType
<1>4. /\ SumFunctionOnSet(f, S) = f[x] + SumFunctionOnSet(f, w)
      /\ SumFunctionOnSet(g, S) = g[x] + SumFunctionOnSet(g, w)
  BY SumRemove
<1>5. f[x] \in Int /\ g[x] \in Int
  OBVIOUS
<1> HIDE DEF w
<1> QED
  BY <1>2, <1>3, <1>4, <1>5

(* A sum of two functions is the sum of their sums.                        *)
LEMMA SumOfSums ==
    ASSUME NEW f, NEW g, NEW h, NEW S, IsFiniteSet(S),
           \A x \in S : f[x] \in Int /\ g[x] \in Int /\ h[x] = f[x] + g[x]
    PROVE  SumFunctionOnSet(h, S) = SumFunctionOnSet(f, S) + SumFunctionOnSet(g, S)
<1> DEFINE B == {T \in SUBSET S : SumFunctionOnSet(h, T) # SumFunctionOnSet(f, T) + SumFunctionOnSet(g, T)}
<1>1. SUFFICES ASSUME B # {} PROVE FALSE
  OBVIOUS
<1>2. PICK T \in B : \A u \in SUBSET T : u # T => u \notin B
  <2>1. B \in SUBSET SUBSET S
    OBVIOUS
  <2> HIDE DEF B
  <2> QED
    BY <1>1, <2>1, SmallestSet
<1>3. T \in SUBSET S /\ IsFiniteSet(T) /\ SumFunctionOnSet(h, T) # SumFunctionOnSet(f, T) + SumFunctionOnSet(g, T)
  BY <1>2, FS_Subset
<1>4. T # {}
  BY <1>3, SumEmpty
<1> DEFINE x == Taken(T)
           w == T \ {x}
<1>5. x \in T /\ w \in SUBSET T /\ w # T /\ IsFiniteSet(w)
  BY <1>3, <1>4, TakenIsIn, FS_Subset
<1>6. SumFunctionOnSet(h, w) = SumFunctionOnSet(f, w) + SumFunctionOnSet(g, w)
  BY <1>2, <1>3, <1>5
<1>7. /\ SumFunctionOnSet(f, T) = f[x] + SumFunctionOnSet(f, w)
      /\ SumFunctionOnSet(g, T) = g[x] + SumFunctionOnSet(g, w)
      /\ SumFunctionOnSet(h, T) = h[x] + SumFunctionOnSet(h, w)
  BY <1>3, <1>4, SumUnfolds
<1>8. SumFunctionOnSet(f, w) \in Int /\ SumFunctionOnSet(g, w) \in Int
  <2>1. \A y \in w : f[y] \in Int /\ g[y] \in Int
    BY <1>3
  <2> HIDE DEF w
  <2> QED
    BY <1>5, <2>1, SumType
<1>9. f[x] \in Int /\ g[x] \in Int /\ h[x] = f[x] + g[x]
  BY <1>3, <1>5
<1> HIDE DEF x, w
<1> QED
  BY <1>3, <1>6, <1>7, <1>8, <1>9

(* A sum of zeros is zero.                                                 *)
LEMMA SumZero ==
    ASSUME NEW f, NEW S, IsFiniteSet(S), \A x \in S : f[x] = 0
    PROVE  SumFunctionOnSet(f, S) = 0
<1> DEFINE B == {T \in SUBSET S : SumFunctionOnSet(f, T) # 0}
<1>1. SUFFICES ASSUME B # {} PROVE FALSE
  OBVIOUS
<1>2. PICK T \in B : \A u \in SUBSET T : u # T => u \notin B
  <2>1. B \in SUBSET SUBSET S
    OBVIOUS
  <2> HIDE DEF B
  <2> QED
    BY <1>1, <2>1, SmallestSet
<1>3. T \in SUBSET S /\ SumFunctionOnSet(f, T) # 0 /\ IsFiniteSet(T)
  BY <1>2, FS_Subset
<1>4. T # {}
  BY <1>3, SumEmpty
<1>5. Taken(T) \in T /\ SumFunctionOnSet(f, T \ {Taken(T)}) = 0
  BY <1>2, <1>3, <1>4, TakenIsIn
<1>6. SumFunctionOnSet(f, T) = f[Taken(T)] + SumFunctionOnSet(f, T \ {Taken(T)})
  BY <1>3, <1>4, SumUnfolds
<1> QED
  BY <1>3, <1>5, <1>6

(* Sums over sets without common elements add up.                          *)
LEMMA SumDisjoint ==
    ASSUME NEW f, NEW S, NEW R, IsFiniteSet(S), IsFiniteSet(R), S \cap R = {}, \A x \in S \cup R : f[x] \in Int
    PROVE  SumFunctionOnSet(f, S \cup R) = SumFunctionOnSet(f, S) + SumFunctionOnSet(f, R)
<1> DEFINE B == {T \in SUBSET S : SumFunctionOnSet(f, T \cup R) # SumFunctionOnSet(f, T) + SumFunctionOnSet(f, R)}
<1>1. SUFFICES ASSUME B # {} PROVE FALSE
  OBVIOUS
<1>2. PICK T \in B : \A u \in SUBSET T : u # T => u \notin B
  <2>1. B \in SUBSET SUBSET S
    OBVIOUS
  <2> HIDE DEF B
  <2> QED
    BY <1>1, <2>1, SmallestSet
<1>3. T \in SUBSET S /\ IsFiniteSet(T) /\ SumFunctionOnSet(f, T \cup R) # SumFunctionOnSet(f, T) + SumFunctionOnSet(f, R)
  BY <1>2, FS_Subset
<1>4. SumFunctionOnSet(f, R) \in Int
  <2>1. \A x \in R : f[x] \in Int
    OBVIOUS
  <2> QED
    BY <2>1, SumType
<1>5. T # {}
  <2> SUFFICES ASSUME T = {} PROVE FALSE
    OBVIOUS
  <2>1. T \cup R = R
    OBVIOUS
  <2>2. SumFunctionOnSet(f, T) = 0
    BY SumEmpty
  <2>3. SumFunctionOnSet(f, R) # 0 + SumFunctionOnSet(f, R)
    BY <1>3, <2>1, <2>2
  <2> QED
    BY <1>4, <2>3
<1>6. PICK x \in T : TRUE
  BY <1>5
<1> DEFINE w == T \ {x}
<1>7. w \in SUBSET T /\ w # T /\ IsFiniteSet(w) /\ w \in SUBSET S /\ x \notin w \cup R /\ (w \cup R) \cup {x} = T \cup R
  BY <1>3, FS_Subset
<1>8. SumFunctionOnSet(f, w \cup R) = SumFunctionOnSet(f, w) + SumFunctionOnSet(f, R)
  BY <1>2, <1>7
<1>9. SumFunctionOnSet(f, T) = f[x] + SumFunctionOnSet(f, w)
  <2>1. \A y \in T : f[y] \in Int
    BY <1>3
  <2> QED
    BY <1>3, <2>1, SumRemove
<1>10. SumFunctionOnSet(f, T \cup R) = f[x] + SumFunctionOnSet(f, w \cup R)
  <2>1. IsFiniteSet(w \cup R) /\ \A y \in (w \cup R) \cup {x} : f[y] \in Int
    BY <1>3, <1>7, FS_Union
  <2> HIDE DEF w
  <2>2. SumFunctionOnSet(f, (w \cup R) \cup {x}) = f[x] + SumFunctionOnSet(f, w \cup R)
    BY <1>7, <2>1, SumAdd
  <2> QED
    BY <1>7, <2>2
<1>11. SumFunctionOnSet(f, w) \in Int /\ f[x] \in Int
  <2>1. \A y \in w : f[y] \in Int
    BY <1>7
  <2>2. f[x] \in Int
    BY <1>3
  <2> HIDE DEF w
  <2> QED
    BY <1>7, <2>1, <2>2, SumType
<1> HIDE DEF w
<1> QED
  BY <1>3, <1>4, <1>8, <1>9, <1>10, <1>11

(* Elements summed group by group: k names the group of an element and g   *)
(* the sum of a group.                                                     *)
LEMMA SumByGroup ==
    ASSUME NEW f, NEW L, IsFiniteSet(L), \A x \in L : f[x] \in Int,
           NEW G, IsFiniteSet(G), NEW k \in [L -> G],
           NEW g, \A s \in G : g[s] = SumFunctionOnSet(f, {x \in L : k[x] = s})
    PROVE  SumFunctionOnSet(g, G) = SumFunctionOnSet(f, L)
<1> DEFINE In(T) == {x \in L : k[x] \in T}
           B == {T \in SUBSET G : SumFunctionOnSet(g, T) # SumFunctionOnSet(f, In(T))}
<1>1. ASSUME B # {} PROVE FALSE
  <2>1. PICK T \in B : \A u \in SUBSET T : u # T => u \notin B
    <3>1. B \in SUBSET SUBSET G
      OBVIOUS
    <3> HIDE DEF B
    <3> QED
      BY <1>1, <3>1, SmallestSet
  <2>2. T \in SUBSET G /\ IsFiniteSet(T) /\ SumFunctionOnSet(g, T) # SumFunctionOnSet(f, In(T))
    BY <2>1, FS_Subset
  <2>3. T # {}
    <3>1. In({}) = {}
      OBVIOUS
    <3> QED
      BY <2>2, <3>1, SumEmpty
  <2> DEFINE s == Taken(T)
             w == T \ {s}
             Of == {x \in L : k[x] = s}
  <2>4. s \in T /\ s \in G /\ w \in SUBSET T /\ w # T /\ w \in SUBSET G
    BY <2>2, <2>3, TakenIsIn
  <2>5. SumFunctionOnSet(g, w) = SumFunctionOnSet(f, In(w))
    BY <2>1, <2>4
  <2>6. SumFunctionOnSet(g, T) = g[s] + SumFunctionOnSet(g, w)
    BY <2>2, <2>3, SumUnfolds
  <2>7. g[s] = SumFunctionOnSet(f, Of)
    BY <2>4
  <2>8. /\ IsFiniteSet(Of) /\ IsFiniteSet(In(w)) /\ Of \cap In(w) = {} /\ Of \cup In(w) = In(T)
        /\ \A x \in Of \cup In(w) : f[x] \in Int
    <3>1. Of \in SUBSET L /\ In(w) \in SUBSET L
      OBVIOUS
    <3>2. IsFiniteSet(Of) /\ IsFiniteSet(In(w))
      BY <3>1, FS_Subset
    <3>3. Of \cap In(w) = {}
      OBVIOUS
    <3>4. Of \cup In(w) = In(T)
      BY <2>4
    <3> QED
      BY <3>1, <3>2, <3>3, <3>4
  <2> HIDE DEF s, w, Of, In
  <2>9. SumFunctionOnSet(f, Of \cup In(w)) = SumFunctionOnSet(f, Of) + SumFunctionOnSet(f, In(w))
    BY <2>8, SumDisjoint
  <2> QED
    BY <2>2, <2>5, <2>6, <2>7, <2>8, <2>9
<1>2. G \notin B
  BY <1>1
<1>3. In(G) = L
  OBVIOUS
<1> QED
  BY <1>2, <1>3
=============================================================================
