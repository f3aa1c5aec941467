---------------------------- MODULE DomainProofs ----------------------------
(***************************************************************************)
(* Proofs about the domain layer, for every integer width: what finite     *)
(* sums, int64 arithmetic and the entries of a transaction obey, and the   *)
(* Account entity under every sequence of operations.  The lemmas are what *)
(* the proofs about the services rest on.                                  *)
(***************************************************************************)
EXTENDS AccountLifecycle, Projection, FiniteSetTheorems, TLAPS

-----------------------------------------------------------------------------
(* Sums over finite sets.                                                  *)

\* The element a sum over s begins with.
First(s) == CHOOSE x \in s : TRUE

\* g is the function of subsets of S by which SumFunctionOnSet(f, S) is defined.
Sums(g, f, S) ==
    g = [s \in SUBSET S |-> IF s = {} THEN 0 ELSE f[First(s)] + g[s \ {First(s)}]]

\* A set B of finite subsets of S that is not empty has a minimal element: the
\* form in which induction on finite sets is used below.
LEMMA Minimal ==
    ASSUME NEW S, IsFiniteSet(S), NEW B \in SUBSET SUBSET S, B # {}
    PROVE  \E U \in B : IsFiniteSet(U) /\ \A V \in SUBSET U : V # U => V \notin B
<1>1. B \subseteq FiniteSubsetsOf(S)
    BY FS_FiniteSubsetsOfFinite
<1>2. PICK U \in B : \A V \in B : <<V, U>> \notin StrictSubsetOrdering(S)
    <2> HIDE DEF StrictSubsetOrdering, FiniteSubsetsOf, IsWellFoundedOn
    <2> QED BY <1>1, FS_StrictSubsetOrderingWellFounded, WFMin
<1>3. IsFiniteSet(U)
    BY FS_Subset
<1>4. ASSUME NEW V \in SUBSET U, V # U, V \in B PROVE FALSE
    <2>1. <<V, U>> \in (SUBSET S) \X (SUBSET S)
        BY <1>4
    <2> QED BY <1>2, <1>4, <2>1 DEF StrictSubsetOrdering
<1> QED BY <1>3, <1>4

\* A sum unfolded from its definition as a fold.
LEMMA SumIsChosen ==
    ASSUME NEW f, NEW S
    PROVE  SumFunctionOnSet(f, S) = (CHOOSE g : Sums(g, f, S))[S]
BY Zenon DEF SumFunctionOnSet, FoldFunctionOnSet, MapThenFoldSet, Sums, First

\* The terms of a sum over s, taken one by one.
Unfolded(f, s) ==
    IF s = {} THEN 0 ELSE f[First(s)] + SumFunctionOnSet(f, s \ {First(s)})

\* There is only one such function.
LEMMA SumsUnique ==
    ASSUME NEW f, NEW S, IsFiniteSet(S), NEW g, NEW k, Sums(g, f, S), Sums(k, f, S)
    PROVE  g = k
<1> DEFINE B == {s \in SUBSET S : g[s] # k[s]}
<1>1. /\ g = [s \in SUBSET S |-> g[s]]
      /\ k = [s \in SUBSET S |-> k[s]]
      /\ \A s \in SUBSET S : g[s] = IF s = {} THEN 0 ELSE f[First(s)] + g[s \ {First(s)}]
      /\ \A s \in SUBSET S : k[s] = IF s = {} THEN 0 ELSE f[First(s)] + k[s \ {First(s)}]
    <2> HIDE DEF First
    <2> QED BY ZenonT(30) DEF Sums
<1>2. SUFFICES ASSUME B # {} PROVE FALSE
    BY <1>1
<1>3. PICK U \in B : \A V \in SUBSET U : V # U => V \notin B
    <2>1. B \in SUBSET SUBSET S
        OBVIOUS
    <2> HIDE DEF B
    <2> QED BY <1>2, <2>1, Minimal
<1>4. U # {}
    BY ZenonT(30), <1>1
<1>5. First(U) \in U
    BY <1>4 DEF First
<1>6. g[U \ {First(U)}] = k[U \ {First(U)}]
    <2> HIDE DEF First
    <2>1. U \ {First(U)} \in SUBSET U /\ U \ {First(U)} # U
        BY <1>5
    <2> QED BY <1>3, <2>1
<1> QED
    <2> HIDE DEF First
    <2>1. U \in SUBSET S /\ g[U] # k[U]
        OBVIOUS
    <2> HIDE DEF B
    <2> QED BY ZenonT(30), <1>1, <1>4, <1>6, <2>1

\* A sum unfolds.
LEMMA SumUnfolds ==
    ASSUME NEW f, NEW S, IsFiniteSet(S)
    PROVE  SumFunctionOnSet(f, S) = Unfolded(f, S)
<1> DEFINE B == {s \in SUBSET S : SumFunctionOnSet(f, s) # Unfolded(f, s)}
<1>1. SUFFICES ASSUME B # {} PROVE FALSE
    OBVIOUS
<1>2. PICK U \in B : IsFiniteSet(U) /\ \A V \in SUBSET U : V # U => V \notin B
    <2>1. B \in SUBSET SUBSET S
        OBVIOUS
    <2> HIDE DEF B
    <2> QED BY <1>1, <2>1, Minimal
<1>3. U \in SUBSET S /\ SumFunctionOnSet(f, U) # Unfolded(f, U)
    OBVIOUS
<1>4. \A V \in SUBSET U : V # U => SumFunctionOnSet(f, V) = Unfolded(f, V)
    BY <1>2, <1>3
<1> HIDE DEF B
<1> DEFINE g == [s \in SUBSET U |->
                   IF s = U THEN Unfolded(f, U) ELSE SumFunctionOnSet(f, s)]
<1>5. Sums(g, f, U)
    <2> SUFFICES ASSUME NEW s \in SUBSET U
                 PROVE  g[s] = IF s = {} THEN 0 ELSE f[First(s)] + g[s \ {First(s)}]
        BY ZenonT(30) DEF Sums
    <2>1. s # {} => First(s) \in s
        BY DEF First
    <2> HIDE DEF First
    <2>2. g[s] = Unfolded(f, s)
        BY <1>4
    <2>3. s # {} => s \ {First(s)} \in SUBSET U /\ s \ {First(s)} # U
        BY <2>1
    <2>4. s # {} => g[s \ {First(s)}] = SumFunctionOnSet(f, s \ {First(s)})
        BY <2>3
    <2> HIDE DEF g
    <2> QED BY <2>2, <2>4 DEF Unfolded
<1>6. SumFunctionOnSet(f, U) = g[U]
    <2> HIDE DEF g
    <2>1. Sums(CHOOSE k : Sums(k, f, U), f, U)
        BY <1>5
    <2>2. (CHOOSE k : Sums(k, f, U)) = g
        BY <1>2, <1>5, <2>1, SumsUnique
    <2> QED BY <2>2, SumIsChosen
<1> QED BY <1>3, <1>6

\* The empty sum.
LEMMA SumEmpty == \A f : SumFunctionOnSet(f, {}) = 0
BY ZenonT(30), SumUnfolds, FS_EmptySet DEF Unfolded

\* A sum of integers is an integer.
LEMMA SumType ==
    ASSUME NEW f, NEW S, IsFiniteSet(S), \A x \in S : f[x] \in Int
    PROVE  SumFunctionOnSet(f, S) \in Int
<1> DEFINE B == {s \in SUBSET S : SumFunctionOnSet(f, s) \notin Int}
<1>1. SUFFICES ASSUME B # {} PROVE FALSE
    OBVIOUS
<1>2. PICK U \in B : IsFiniteSet(U) /\ \A V \in SUBSET U : V # U => V \notin B
    <2>1. B \in SUBSET SUBSET S
        OBVIOUS
    <2> HIDE DEF B
    <2> QED BY <1>1, <2>1, Minimal
<1>3. SumFunctionOnSet(f, U) = Unfolded(f, U)
    BY <1>2, SumUnfolds
<1>4. U # {}
    BY <1>3 DEF Unfolded
<1>5. First(U) \in U
    BY <1>4 DEF First
<1> HIDE DEF First
<1>6. U \ {First(U)} \in SUBSET U /\ U \ {First(U)} # U
    BY <1>5
<1>7. SumFunctionOnSet(f, U \ {First(U)}) \in Int
    BY <1>2, <1>6
<1> QED BY <1>3, <1>4, <1>5, <1>7 DEF Unfolded

\* Any term can be taken out of a sum.
LEMMA SumRemove ==
    ASSUME NEW f, NEW S, IsFiniteSet(S), \A x \in S : f[x] \in Int, NEW x \in S
    PROVE  SumFunctionOnSet(f, S) = SumFunctionOnSet(f, S \ {x}) + f[x]
<1> DEFINE Sum(s) == SumFunctionOnSet(f, s)
           B == {s \in SUBSET S : \E y \in s : Sum(s) # Sum(s \ {y}) + f[y]}
<1>1. SUFFICES ASSUME B # {} PROVE FALSE
    BY ZenonT(30)
<1>2. PICK U \in B : IsFiniteSet(U) /\ \A V \in SUBSET U : V # U => V \notin B
    <2>1. B \in SUBSET SUBSET S
        OBVIOUS
    <2> HIDE DEF B
    <2> QED BY <1>1, <2>1, Minimal
<1>3. PICK y \in U : Sum(U) # Sum(U \ {y}) + f[y]
    OBVIOUS
<1> DEFINE z == First(U)
<1>4. z \in U
    BY <1>3 DEF First
<1>5. ASSUME NEW V \in SUBSET U
      PROVE  /\ IsFiniteSet(V) /\ Sum(V) \in Int
             /\ \A v \in V : V # U => Sum(V) = Sum(V \ {v}) + f[v]
    <2>1. IsFiniteSet(V)
        BY <1>2, FS_Subset
    <2>2. V \in SUBSET S
        OBVIOUS
    <2>3. Sum(V) \in Int
        BY <2>1, <2>2, SumType
    <2> QED BY ZenonT(30), <1>2, <2>1, <2>2, <2>3
<1>6. Sum(U) = f[z] + Sum(U \ {z})
    BY <1>2, <1>4, SumUnfolds DEF Unfolded
<1>7. y # z /\ f[y] \in Int /\ f[z] \in Int
    <2>1. U \in SUBSET S
        OBVIOUS
    <2>2. Sum(U \ {z}) \in Int /\ f[z] \in Int /\ f[y] \in Int
        BY <1>3, <1>4, <1>5, <2>1
    <2>3. \A i, j \in Int : i + j = j + i
        OBVIOUS
    <2> HIDE DEF Sum, z, B
    <2> QED BY Zenon, <1>3, <1>6, <2>2, <2>3
<1> HIDE DEF z, B
<1>8. Sum(U \ {z}) = Sum((U \ {z}) \ {y}) + f[y]
    BY <1>3, <1>4, <1>5, <1>7
<1>9. Sum(U \ {y}) = Sum((U \ {y}) \ {z}) + f[z]
    BY <1>3, <1>4, <1>5, <1>7
<1>10. (U \ {z}) \ {y} = (U \ {y}) \ {z}
    OBVIOUS
<1>11. Sum((U \ {y}) \ {z}) \in Int
    BY <1>5
<1>12. \A i, j, k \in Int : i + (k + j) = (k + i) + j
    OBVIOUS
<1> DEFINE c == Sum((U \ {y}) \ {z})
<1>13. f[z] + (c + f[y]) = (c + f[z]) + f[y]
    BY Zenon, <1>7, <1>11, <1>12
<1>14. Sum(U) = f[z] + (c + f[y])
    BY <1>6, <1>8, <1>10
<1>15. Sum(U \ {y}) + f[y] = (c + f[z]) + f[y]
    BY <1>9
<1> QED BY <1>3, <1>13, <1>14, <1>15

\* A term is added.
LEMMA SumAdd ==
    ASSUME NEW f, NEW S, IsFiniteSet(S), NEW x, x \notin S, f[x] \in Int,
           \A y \in S : f[y] \in Int
    PROVE  SumFunctionOnSet(f, S \cup {x}) = SumFunctionOnSet(f, S) + f[x]
<1>1. IsFiniteSet(S \cup {x})
    BY FS_AddElement
<1>2. (S \cup {x}) \ {x} = S
    OBVIOUS
<1> QED BY <1>1, <1>2, SumRemove

\* Induction on a finite set, for a set G of its subsets.
LEMMA SetInduction ==
    ASSUME NEW S, IsFiniteSet(S), NEW G \in SUBSET SUBSET S, {} \in G,
           \A s \in G : \A x \in S \ s : s \cup {x} \in G
    PROVE  S \in G
<1> DEFINE B == (SUBSET S) \ G
<1>1. SUFFICES ASSUME B # {} PROVE FALSE
    OBVIOUS
<1>2. PICK U \in B : \A V \in SUBSET U : V # U => V \notin B
    <2>1. B \in SUBSET SUBSET S
        OBVIOUS
    <2> HIDE DEF B
    <2> QED BY <1>1, <2>1, Minimal
<1>3. PICK x \in U : TRUE
    OBVIOUS
<1>4. U \ {x} \in G /\ (U \ {x}) \cup {x} = U /\ x \in S \ (U \ {x})
    BY <1>2
<1> QED BY <1>4

\* The sum depends on the values on S only.
LEMMA SumAgree ==
    ASSUME NEW f, NEW g, NEW S, IsFiniteSet(S),
           \A x \in S : f[x] \in Int /\ f[x] = g[x]
    PROVE  SumFunctionOnSet(f, S) = SumFunctionOnSet(g, S)
<1> DEFINE G == {s \in SUBSET S : SumFunctionOnSet(f, s) = SumFunctionOnSet(g, s)}
<1>1. {} \in G
    BY SumEmpty
<1>2. ASSUME NEW s \in G, NEW x \in S \ s PROVE s \cup {x} \in G
    <2>1. IsFiniteSet(s)
        BY FS_Subset
    <2>2. SumFunctionOnSet(f, s \cup {x}) = SumFunctionOnSet(f, s) + f[x]
        BY <2>1, SumAdd
    <2>3. SumFunctionOnSet(g, s \cup {x}) = SumFunctionOnSet(g, s) + g[x]
        BY <2>1, SumAdd
    <2> QED BY <2>2, <2>3
<1>3. G \in SUBSET SUBSET S
    OBVIOUS
<1>4. S \in G
    <2> HIDE DEF G
    <2> QED BY ZenonT(30), <1>1, <1>2, <1>3, SetInduction
<1> QED BY <1>4

\* A sum of zeros.
LEMMA SumZero ==
    ASSUME NEW f, NEW S, IsFiniteSet(S), \A x \in S : f[x] = 0
    PROVE  SumFunctionOnSet(f, S) = 0
<1> DEFINE G == {s \in SUBSET S : SumFunctionOnSet(f, s) = 0}
<1>1. {} \in G
    BY SumEmpty
<1>2. ASSUME NEW s \in G, NEW x \in S \ s PROVE s \cup {x} \in G
    <2>1. IsFiniteSet(s)
        BY FS_Subset
    <2>2. SumFunctionOnSet(f, s \cup {x}) = SumFunctionOnSet(f, s) + f[x]
        BY <2>1, SumAdd
    <2> QED BY <2>2
<1>3. G \in SUBSET SUBSET S
    OBVIOUS
<1>4. S \in G
    <2> HIDE DEF G
    <2> QED BY ZenonT(30), <1>1, <1>2, <1>3, SetInduction
<1> QED BY <1>4

\* The sum of the sums of two functions.
LEMMA SumPlus ==
    ASSUME NEW f, NEW g, NEW k, NEW S, IsFiniteSet(S),
           \A x \in S : f[x] \in Int /\ g[x] \in Int /\ k[x] = f[x] + g[x]
    PROVE  SumFunctionOnSet(k, S) = SumFunctionOnSet(f, S) + SumFunctionOnSet(g, S)
<1> DEFINE Sum(m, s) == SumFunctionOnSet(m, s)
           G == {s \in SUBSET S : Sum(k, s) = Sum(f, s) + Sum(g, s)}
<1>1. {} \in G
    BY SumEmpty
<1>2. ASSUME NEW s \in G, NEW x \in S \ s PROVE s \cup {x} \in G
    <2>1. IsFiniteSet(s) /\ \A y \in s : f[y] \in Int /\ g[y] \in Int /\ k[y] \in Int
        BY FS_Subset
    <2>2. Sum(f, s \cup {x}) = Sum(f, s) + f[x]
        BY <2>1, SumAdd
    <2>3. Sum(g, s \cup {x}) = Sum(g, s) + g[x]
        BY <2>1, SumAdd
    <2>4. Sum(k, s \cup {x}) = Sum(k, s) + k[x]
        BY <2>1, SumAdd
    <2>5. Sum(f, s) \in Int /\ Sum(g, s) \in Int /\ f[x] \in Int /\ g[x] \in Int
        BY <2>1, SumType
    <2>7. (Sum(f, s) + Sum(g, s)) + (f[x] + g[x]) = (Sum(f, s) + f[x]) + (Sum(g, s) + g[x])
        BY <2>5
    <2>8. Sum(k, s \cup {x}) = Sum(f, s \cup {x}) + Sum(g, s \cup {x})
        BY <2>2, <2>3, <2>4, <2>7
    <2> QED BY <2>8
<1>3. G \in SUBSET SUBSET S
    OBVIOUS
<1>4. S \in G
    <2> HIDE DEF G
    <2> QED BY ZenonT(30), <1>1, <1>2, <1>3, SetInduction
<1> QED BY <1>4

\* The sum over two disjoint sets.
LEMMA SumUnion ==
    ASSUME NEW f, NEW S, NEW T, IsFiniteSet(S), IsFiniteSet(T), S \cap T = {},
           \A x \in S \cup T : f[x] \in Int
    PROVE  SumFunctionOnSet(f, S \cup T) = SumFunctionOnSet(f, S) + SumFunctionOnSet(f, T)
<1> DEFINE Sum(s) == SumFunctionOnSet(f, s)
           G == {s \in SUBSET T : Sum(S \cup s) = Sum(S) + Sum(s)}
<1>1. {} \in G
    <2>1. S \cup {} = S /\ Sum({}) = 0 /\ Sum(S) \in Int
        BY SumEmpty, SumType
    <2> QED BY <2>1
<1>2. ASSUME NEW s \in G, NEW x \in T \ s PROVE s \cup {x} \in G
    <2>1. IsFiniteSet(s) /\ IsFiniteSet(S \cup s)
        BY ZenonT(30), FS_Subset, FS_Union
    <2>2. Sum(s \cup {x}) = Sum(s) + f[x]
        BY <2>1, SumAdd
    <2>3. Sum((S \cup s) \cup {x}) = Sum(S \cup s) + f[x]
        BY ZenonT(30), <2>1, SumAdd
    <2>4. Sum(S) \in Int /\ Sum(s) \in Int /\ f[x] \in Int
        BY <2>1, SumType
    <2>5. \A a, b, c \in Int : (a + b) + c = a + (b + c)
        OBVIOUS
    <2>6. (Sum(S) + Sum(s)) + f[x] = Sum(S) + (Sum(s) + f[x])
        BY ZenonT(60), Zenon, <2>4, <2>5
    <2>7. (S \cup s) \cup {x} = S \cup (s \cup {x})
        OBVIOUS
    <2>8. Sum(S \cup (s \cup {x})) = Sum(S) + Sum(s \cup {x})
        BY <2>2, <2>3, <2>6, <2>7
    <2> QED BY <2>8
<1>3. G \in SUBSET SUBSET T
    OBVIOUS
<1>4. T \in G
    <2> HIDE DEF G
    <2> QED BY ZenonT(30), <1>1, <1>2, <1>3, SetInduction
<1> QED BY <1>4

\* Terms that are zero do not count.
LEMMA SumSupport ==
    ASSUME NEW f, NEW S, NEW T, IsFiniteSet(S), T \subseteq S,
           \A x \in T : f[x] \in Int, \A x \in S \ T : f[x] = 0
    PROVE  SumFunctionOnSet(f, S) = SumFunctionOnSet(f, T)
<1>1. IsFiniteSet(T) /\ IsFiniteSet(S \ T)
    BY FS_Subset
<1>2. T \cup (S \ T) = S /\ T \cap (S \ T) = {} /\ \A x \in T \cup (S \ T) : f[x] \in Int
    OBVIOUS
<1>3. SumFunctionOnSet(f, T \cup (S \ T)) =
          SumFunctionOnSet(f, T) + SumFunctionOnSet(f, S \ T)
    BY <1>1, <1>2, SumUnion
<1>4. SumFunctionOnSet(f, S \ T) = 0 /\ SumFunctionOnSet(f, T) \in Int
    BY <1>1, SumZero, SumType
<1>5. SumFunctionOnSet(f, S) = SumFunctionOnSet(f, T) + 0
    BY Zenon, <1>2, <1>3, <1>4
<1> QED BY <1>4, <1>5

\* A function that differs from another at one point.
LEMMA SumUpdate ==
    ASSUME NEW f, NEW g, NEW S, NEW x \in S, IsFiniteSet(S),
           \A y \in S : f[y] \in Int /\ g[y] \in Int,
           \A y \in S \ {x} : g[y] = f[y]
    PROVE  SumFunctionOnSet(g, S) = SumFunctionOnSet(f, S) + (g[x] - f[x])
<1> DEFINE T == S \ {x}
<1>1. IsFiniteSet(T)
    BY FS_Subset
<1>2. SumFunctionOnSet(g, S) = SumFunctionOnSet(g, T) + g[x]
    BY SumRemove
<1>3. SumFunctionOnSet(f, S) = SumFunctionOnSet(f, T) + f[x]
    BY SumRemove
<1>4. SumFunctionOnSet(f, T) = SumFunctionOnSet(g, T)
    BY <1>1, SumAgree
<1>5. SumFunctionOnSet(f, T) \in Int /\ f[x] \in Int /\ g[x] \in Int
    BY <1>1, SumType
<1> HIDE DEF T
<1> QED BY <1>2, <1>3, <1>4, <1>5

\* Summing over another set of names for the same terms.
LEMMA SumImage ==
    ASSUME NEW f, NEW g, NEW m, NEW S, IsFiniteSet(S),
           \A x \in S : f[x] \in Int /\ g[m[x]] = f[x],
           \A x, y \in S : m[x] = m[y] => x = y
    PROVE  SumFunctionOnSet(g, {m[x] : x \in S}) = SumFunctionOnSet(f, S)
<1> DEFINE Im(s) == {m[x] : x \in s}
           G == {s \in SUBSET S : /\ IsFiniteSet(Im(s))
                                  /\ SumFunctionOnSet(g, Im(s)) = SumFunctionOnSet(f, s)}
<1>1. {} \in G
    <2>1. Im({}) = {}
        OBVIOUS
    <2> QED BY <2>1, SumEmpty, FS_EmptySet
<1>2. ASSUME NEW s \in G, NEW x \in S \ s PROVE s \cup {x} \in G
    <2>1. IsFiniteSet(s)
        BY FS_Subset
    <2>2. IsFiniteSet(Im(s)) /\ IsFiniteSet(Im(s) \cup {m[x]})
        BY FS_AddElement
    <2>3. Im(s \cup {x}) = Im(s) \cup {m[x]} /\ m[x] \notin Im(s)
        OBVIOUS
    <2>4. (\A y \in Im(s) : g[y] \in Int) /\ g[m[x]] \in Int
        OBVIOUS
    <2>5. SumFunctionOnSet(f, s \cup {x}) = SumFunctionOnSet(f, s) + f[x]
        BY <2>1, SumAdd
    <2>6. SumFunctionOnSet(g, Im(s) \cup {m[x]}) = SumFunctionOnSet(g, Im(s)) + g[m[x]]
        <3>1. \A y \in Im(s) \cup {m[x]} : g[y] \in Int
            BY <2>4
        <3> HIDE DEF Im
        <3> QED BY <2>2, <2>3, <3>1, SumAdd
    <2>7. SumFunctionOnSet(g, Im(s)) = SumFunctionOnSet(f, s) /\ g[m[x]] = f[x]
        OBVIOUS
    <2>8. SumFunctionOnSet(g, Im(s \cup {x})) = SumFunctionOnSet(f, s \cup {x})
        <3> HIDE DEF Im, G
        <3> QED BY ZenonT(30), <2>3, <2>5, <2>6, <2>7
    <2> QED BY <2>2, <2>3, <2>8
<1>3. G \in SUBSET SUBSET S
    OBVIOUS
<1>4. S \in G
    <2> HIDE DEF G
    <2> QED BY ZenonT(30), <1>1, <1>2, <1>3, SetInduction
<1> QED BY <1>4

\* g sums f class by class: F[a] holds the elements of S in class a.
ClassSums(f, g, c, F, S, A) ==
    /\ IsFiniteSet(S) /\ IsFiniteSet(A)
    /\ \A x \in S : f[x] \in Int
    /\ \A x \in S : c[x] \in A
    /\ \A a \in A : \A x : x \in F[a] <=> x \in S /\ c[x] = a
    /\ \A a \in A : g[a] = SumFunctionOnSet(f, F[a])

\* Summing class by class gives the sum.
LEMMA SumFibres ==
    ASSUME NEW f, NEW g, NEW c, NEW F, NEW S, NEW A, ClassSums(f, g, c, F, S, A)
    PROVE  SumFunctionOnSet(g, A) = SumFunctionOnSet(f, S)
<1> USE DEF ClassSums
<1> DEFINE In(s) == {x \in S : c[x] \in s}
           G == {s \in SUBSET A : SumFunctionOnSet(g, s) = SumFunctionOnSet(f, In(s))}
<1>1. {} \in G
    <2>1. In({}) = {}
        OBVIOUS
    <2> QED BY <2>1, SumEmpty
<1>2. ASSUME NEW s \in G, NEW a \in A \ s PROVE s \cup {a} \in G
    <2> DEFINE T == F[a]
    <2>0. T \subseteq S
        OBVIOUS
    <2>1. IsFiniteSet(s) /\ IsFiniteSet(In(s)) /\ IsFiniteSet(T)
        BY <2>0, FS_Subset
    <2>2. In(s \cup {a}) = In(s) \cup T /\ In(s) \cap T = {}
        OBVIOUS
    <2>3. \A x \in In(s) \cup T : f[x] \in Int
        OBVIOUS
    <2>t. \A b \in A : g[b] \in Int
        <3> SUFFICES ASSUME NEW b \in A PROVE g[b] \in Int
            OBVIOUS
        <3> DEFINE U == F[b]
        <3>0. U \subseteq S
            OBVIOUS
        <3>1. IsFiniteSet(U) /\ \A x \in U : f[x] \in Int
            BY <3>0, FS_Subset
        <3>2. g[b] = SumFunctionOnSet(f, U)
            OBVIOUS
        <3> HIDE DEF U
        <3> QED BY <3>1, <3>2, SumType
    <2>4. SumFunctionOnSet(g, s \cup {a}) = SumFunctionOnSet(g, s) + g[a]
        BY <2>1, <2>t, SumAdd
    <2>6. g[a] = SumFunctionOnSet(f, T)
        OBVIOUS
    <2>7. SumFunctionOnSet(g, s) = SumFunctionOnSet(f, In(s))
        OBVIOUS
    <2>8. SumFunctionOnSet(g, s \cup {a}) = SumFunctionOnSet(f, In(s \cup {a}))
        <3> HIDE DEF In, G, T
        <3>1. SumFunctionOnSet(f, In(s) \cup T) =
                  SumFunctionOnSet(f, In(s)) + SumFunctionOnSet(f, T)
            BY <2>1, <2>2, <2>3, SumUnion
        <3> QED BY ZenonT(30), <2>2, <2>4, <2>6, <2>7, <3>1
    <2> QED BY <2>8
<1>3. G \in SUBSET SUBSET A
    OBVIOUS
<1>4. A \in G
    <2> HIDE DEF G
    <2> QED BY ZenonT(30), <1>1, <1>2, <1>3, SetInduction
<1>5. In(A) = S
    OBVIOUS
<1> QED BY <1>4, <1>5

-----------------------------------------------------------------------------
(* int64 arithmetic.                                                       *)

\* The result of an int64 expression is an int64.
LEMMA WrapType == \A n \in Int : Wrap(n) \in Int64
  BY MoneyAssumption DEF Wrap, Int64

\* An expression whose exact result fits is computed exactly.
LEMMA WrapExact == \A n \in Int64 : Wrap(n) = n
  BY MoneyAssumption DEF Wrap, Int64

\* One overflow above or below the range comes back by the modulus.
LEMMA WrapOver ==
    /\ \A n \in Half .. 3 * Half - 1 : Wrap(n) = n - 2 * Half
    /\ \A n \in -3 * Half .. -Half - 1 : Wrap(n) = n + 2 * Half
  BY MoneyAssumption DEF Wrap, Int64

\* Adding back what was subtracted restores an int64, wrapped or not.
LEMMA AddUndoesSubtract ==
    \A x, y \in Int64 : Add(Subtract(x, y), y) = x
<1> SUFFICES ASSUME NEW x \in Int64, NEW y \in Int64
             PROVE  Wrap(Wrap(x - y) + y) = x
    BY DEF Add, Subtract
<1>1. x \in Int /\ y \in Int /\ Half \in Nat
    BY MoneyAssumption DEF Int64
<1>2. CASE x - y \in Int64
    BY <1>1, <1>2, WrapExact
<1>3. CASE x - y >= Half
    <2>1. Wrap(x - y) = x - y - 2 * Half
        BY <1>1, <1>3, WrapOver DEF Int64
    <2>2. x - 2 * Half \in -3 * Half .. -Half - 1
        BY <1>1 DEF Int64
    <2> QED BY <1>1, <2>1, <2>2, WrapOver
<1>4. CASE x - y < -Half
    <2>1. Wrap(x - y) = x - y + 2 * Half
        BY <1>1, <1>4, WrapOver DEF Int64
    <2>2. x + 2 * Half \in Half .. 3 * Half - 1
        BY <1>1 DEF Int64
    <2> QED BY <1>1, <2>1, <2>2, WrapOver
<1> QED BY <1>1, <1>2, <1>3, <1>4 DEF Int64

\* An int64 result differs from the exact one by a multiple of the modulus.
LEMMA WrapOf == \A n \in Int : \E k \in Int : Wrap(n) = n + k * (2 * Half)
<1> SUFFICES ASSUME NEW n \in Int PROVE \E k \in Int : Wrap(n) = n + k * (2 * Half)
    OBVIOUS
<1> DEFINE N == 2 * Half
           q == (n + Half) \div N
<1>1. Half \in Int /\ N \in Int /\ N > 0 /\ n + Half \in Int
    BY MoneyAssumption
<1>2. q \in Int /\ n + Half = N * q + ((n + Half) % N)
    <2> HIDE DEF N
    <2> QED BY <1>1
<1>3. (-q) * N = -(N * q)
    <2> HIDE DEF q, N
    <2> QED BY <1>1, <1>2
<1>4. (n + Half) % N \in Int /\ N * q \in Int
    <2> HIDE DEF q, N
    <2> QED BY <1>1, <1>2
<1>5. ((n + Half) % N) - Half = n + (-q) * N
    <2> HIDE DEF q, N
    <2> QED BY <1>1, <1>2, <1>3, <1>4
<1>6. -q \in Int
    BY <1>2
<1> QED BY <1>5, <1>6 DEF Wrap

\* Multiples of the modulus do not change an int64 result.
LEMMA WrapShift == \A n, k \in Int : Wrap(n + k * (2 * Half)) = Wrap(n)
<1> SUFFICES ASSUME NEW n \in Int, NEW k \in Int PROVE Wrap(n + k * (2 * Half)) = Wrap(n)
    OBVIOUS
<1> DEFINE N == 2 * Half
           w == Wrap(n)
           v == Wrap(n + k * N)
<1>1. N \in Int /\ N > 0 /\ k * N \in Int /\ n + k * N \in Int
    BY MoneyAssumption
<1>2. PICK i \in Int : w = n + i * N
    BY WrapOf
<1>3. PICK j \in Int : v = (n + k * N) + j * N
    BY <1>1, WrapOf
<1>4. /\ w \in Int /\ v \in Int
      /\ v - w < N /\ w - v < N
    BY <1>1, MoneyAssumption DEF Wrap
<1> HIDE DEF w, v, N
<1>5. v - w = (k + j - i) * N
    BY <1>1, <1>2, <1>3
<1>6. PICK d \in Int : d = k + j - i
    OBVIOUS
<1>7. v - w = d * N
    BY <1>5, <1>6
<1>8. \A a, b \in Int : a >= 1 /\ b > 0 => a * b >= b
    OBVIOUS
<1>9. \A a, b \in Int : a <= -1 /\ b > 0 => a * b <= -b
    OBVIOUS
<1>10. d = 0
    <2>1. CASE d >= 1
        <3>1. d * N >= N
            BY <1>1, <1>8, <2>1
        <3> QED BY <1>1, <1>4, <1>7, <3>1
    <2>2. CASE d <= -1
        <3>1. d * N <= -N
            BY <1>1, <1>9, <2>2
        <3> QED BY <1>1, <1>4, <1>7, <3>1
    <2> QED BY <2>1, <2>2
<1>11. v = w
    BY <1>1, <1>4, <1>7, <1>10
<1> QED BY <1>11 DEF v, w, N

\* Only the last operation of an int64 expression needs to wrap.
LEMMA WrapAdd ==
    \A x, y \in Int : Wrap(Wrap(x) + y) = Wrap(x + y) /\ Wrap(x + Wrap(y)) = Wrap(x + y)
<1>1. ASSUME NEW x \in Int, NEW y \in Int
      PROVE  Wrap(Wrap(x) + y) = Wrap(x + y) /\ Wrap(y + Wrap(x)) = Wrap(y + x)
    <2> DEFINE N == 2 * Half
    <2>1. PICK k \in Int : Wrap(x) = x + k * N
        BY WrapOf
    <2>2. k * N \in Int
        BY MoneyAssumption
    <2> DEFINE m == k * N
    <2>3. Wrap((x + y) + m) = Wrap(x + y)
        BY WrapShift
    <2>4. Wrap(x) + y = (x + y) + m /\ y + Wrap(x) = (x + y) + m /\ y + x = x + y
        <3> HIDE DEF N
        <3> QED BY <2>1, <2>2
    <2> QED BY <2>3, <2>4
<1> QED BY Zenon, <1>1

\* Sums of terms with equal int64 values have equal int64 values.
LEMMA SumWrap ==
    ASSUME NEW f, NEW g, NEW S, IsFiniteSet(S),
           \A x \in S : f[x] \in Int /\ g[x] \in Int /\ Wrap(f[x]) = Wrap(g[x])
    PROVE  Wrap(SumFunctionOnSet(f, S)) = Wrap(SumFunctionOnSet(g, S))
<1> DEFINE Sum(m, s) == SumFunctionOnSet(m, s)
           G == {s \in SUBSET S : Wrap(Sum(f, s)) = Wrap(Sum(g, s))}
<1>1. {} \in G
    BY SumEmpty
<1>2. ASSUME NEW s \in G, NEW x \in S \ s PROVE s \cup {x} \in G
    <2>1. IsFiniteSet(s) /\ \A y \in s : f[y] \in Int /\ g[y] \in Int
        BY FS_Subset
    <2>2. Sum(f, s \cup {x}) = Sum(f, s) + f[x]
        BY <2>1, SumAdd
    <2>3. Sum(g, s \cup {x}) = Sum(g, s) + g[x]
        BY <2>1, SumAdd
    <2>4. Sum(f, s) \in Int /\ Sum(g, s) \in Int /\ f[x] \in Int /\ g[x] \in Int
        BY <2>1, SumType
    <2>5. Wrap(f[x]) = Wrap(g[x]) /\ Wrap(Sum(f, s)) = Wrap(Sum(g, s))
        OBVIOUS
    <2>w. Wrap(f[x]) \in Int
        BY <2>4, WrapType DEF Int64
    <2> HIDE DEF Sum, G
    <2>6. Wrap(Sum(f, s) + f[x]) = Wrap(Wrap(Sum(f, s)) + f[x])
        BY ZenonT(30), <2>4, WrapAdd
    <2>7. Wrap(Sum(g, s) + g[x]) = Wrap(Sum(g, s) + Wrap(g[x]))
        BY ZenonT(30), <2>4, WrapAdd
    <2>8. Wrap(Sum(g, s) + f[x]) = Wrap(Sum(g, s) + Wrap(f[x]))
        BY ZenonT(30), <2>4, WrapAdd
    <2>9. Wrap(Sum(g, s) + f[x]) = Wrap(Wrap(Sum(g, s)) + f[x])
        BY ZenonT(30), <2>4, WrapAdd
    <2>10. Wrap(Sum(f, s \cup {x})) = Wrap(Sum(g, s \cup {x}))
        BY Zenon, <2>2, <2>3, <2>5, <2>6, <2>7, <2>8, <2>9
    <2> QED BY <2>10 DEF G
<1>3. G \in SUBSET SUBSET S
    OBVIOUS
<1>4. S \in G
    <2> HIDE DEF G
    <2> QED BY ZenonT(30), <1>1, <1>2, <1>3, SetInduction
<1> QED BY <1>4

\* A sum of opposites.
LEMMA SumNegate ==
    ASSUME NEW f, NEW g, NEW S, IsFiniteSet(S),
           \A x \in S : f[x] \in Int /\ g[x] = -f[x]
    PROVE  SumFunctionOnSet(g, S) = -SumFunctionOnSet(f, S)
<1> DEFINE z == [x \in S |-> 0]
<1>1. \A x \in S : f[x] \in Int /\ g[x] \in Int /\ z[x] = f[x] + g[x]
    OBVIOUS
<1>2. \A x \in S : z[x] = 0
    OBVIOUS
<1> HIDE DEF z
<1>3. SumFunctionOnSet(z, S) = SumFunctionOnSet(f, S) + SumFunctionOnSet(g, S)
    BY <1>1, SumPlus
<1>4. SumFunctionOnSet(z, S) = 0
    BY <1>2, SumZero
<1>5. SumFunctionOnSet(f, S) \in Int /\ SumFunctionOnSet(g, S) \in Int
    BY <1>1, SumType
<1> QED BY <1>3, <1>4, <1>5

-----------------------------------------------------------------------------
(* Entries.                                                                *)

\* What the projector adds for an entry is an int64.
LEMMA DeltaType == \A e \in Entry : Delta(e) \in Int64 /\ Delta(e) \in Int
<1> SUFFICES ASSUME NEW e \in Entry PROVE Delta(e) \in Int64 /\ Delta(e) \in Int
    OBVIOUS
<1>1. e.amount \in Int64 /\ e.amount \in Int /\ -e.amount \in Int
    BY MoneyAssumption DEF Entry, Int64
<1>2. Negate(e.amount) \in Int64
    BY <1>1, WrapType DEF Negate
<1>3. Delta(e) \in Int64
    BY <1>1, <1>2 DEF Delta
<1> QED BY <1>3, MoneyAssumption DEF Int64

\* The debits and the credits of a transaction that NewTransaction accepts
\* cancel out, in int64 arithmetic.
LEMMA BalancedNet ==
    ASSUME EntryType \subseteq {"DEBIT", "CREDIT"},
           NEW es \in Seq(Entry), Recordable(es)
    PROVE  Wrap(SumFunctionOnSet([k \in DOMAIN es |-> Delta(es[k])], DOMAIN es)) = 0
<1> DEFINE D == {k \in DOMAIN es : es[k].type = "DEBIT"}
           C == {k \in DOMAIN es : es[k].type = "CREDIT"}
           amt == [k \in DOMAIN es |-> es[k].amount]
           neg == [k \in DOMAIN es |-> -es[k].amount]
           dl == [k \in DOMAIN es |-> Delta(es[k])]
<1>0. \A k \in DOMAIN es : es[k] \in Entry
    OBVIOUS
<1>1. IsFiniteSet(DOMAIN es)
    <2>1. DOMAIN es = 1..Len(es) /\ Len(es) \in Nat
        OBVIOUS
    <2> QED BY <2>1, FS_Interval
<1>2. IsFiniteSet(D) /\ IsFiniteSet(C)
    BY <1>1, FS_Subset
<1>3. D \cup C = DOMAIN es /\ D \cap C = {}
    <2>1. \A k \in DOMAIN es : es[k].type \in {"DEBIT", "CREDIT"}
        BY ZenonT(30), <1>0 DEF Entry
    <2> QED BY ZenonT(30), <2>1
<1>4. \A k \in DOMAIN es : amt[k] \in Int /\ neg[k] = -amt[k] /\ neg[k] \in Int
                              /\ dl[k] \in Int
    <2>1. \A k \in DOMAIN es : es[k].amount \in Int
        BY <1>0, MoneyAssumption DEF Entry, Int64
    <2> QED BY <1>0, <2>1, DeltaType
<1>5. \A k \in C : dl[k] = amt[k]
    BY DEF Delta
<1>6. \A k \in D : Wrap(dl[k]) = Wrap(neg[k])
    <2> SUFFICES ASSUME NEW k \in D PROVE Wrap(dl[k]) = Wrap(neg[k])
        OBVIOUS
    <2>1. dl[k] = Wrap(neg[k])
        BY DEF Delta, Negate
    <2>2. Wrap(neg[k]) \in Int64
        BY <1>4, WrapType
    <2> QED BY <2>1, <2>2, WrapExact
<1>7. Wrap(SumFunctionOnSet(amt, D)) = Wrap(SumFunctionOnSet(amt, C))
    BY DEF Recordable, NewTransactionOK, Total
<1>d. D \subseteq DOMAIN es /\ C \subseteq DOMAIN es
    OBVIOUS
<1> HIDE DEF D, C, amt, neg, dl
<1>8. SumFunctionOnSet(dl, DOMAIN es) = SumFunctionOnSet(dl, D) + SumFunctionOnSet(dl, C)
    BY <1>2, <1>3, <1>4, SumUnion
<1>9. SumFunctionOnSet(dl, C) = SumFunctionOnSet(amt, C)
    BY <1>2, <1>4, <1>5, <1>d, SumAgree
<1>10. Wrap(SumFunctionOnSet(dl, D)) = Wrap(SumFunctionOnSet(neg, D))
    BY <1>2, <1>4, <1>6, <1>d, SumWrap
<1>11. SumFunctionOnSet(neg, D) = -SumFunctionOnSet(amt, D)
    BY <1>2, <1>4, <1>d, SumNegate
<1>12. PICK x \in Int, y \in Int, d \in Int :
           /\ x = SumFunctionOnSet(amt, D) /\ y = SumFunctionOnSet(amt, C)
           /\ d = SumFunctionOnSet(dl, D)
    BY <1>2, <1>4, <1>d, SumType
<1>13. Wrap(d + y) = Wrap(-x + x)
    <2>1. Wrap(d + y) = Wrap(Wrap(d) + y) /\ -x \in Int
        BY WrapAdd
    <2>2. Wrap(d) = Wrap(-x) /\ Wrap(y) = Wrap(x)
        BY <1>7, <1>10, <1>11, <1>12
    <2>3. Wrap(Wrap(-x) + y) = Wrap(-x + y)
        BY <2>1, WrapAdd
    <2>4. Wrap(-x + y) = Wrap(-x + Wrap(y)) /\ Wrap(-x + x) = Wrap(-x + Wrap(x))
        BY ZenonT(30), <2>1, WrapAdd
    <2> QED BY Zenon, <2>1, <2>2, <2>3, <2>4
<1>14. -x + x = 0 /\ Wrap(0) = 0
    <2>1. 0 \in Int64
        BY MoneyAssumption DEF Int64
    <2> QED BY <2>1, WrapExact
<1>15. SumFunctionOnSet(dl, DOMAIN es) = d + y
    BY Zenon, <1>8, <1>9, <1>12
<1>16. Wrap(SumFunctionOnSet(dl, DOMAIN es)) = 0
    BY Zenon, <1>13, <1>14, <1>15
<1> QED BY <1>16 DEF dl

\* The positions of a transaction's entries, and what they add.
LEMMA Positions ==
    ASSUME NEW es \in Seq(Entry)
    PROVE  /\ DOMAIN es = 1..Len(es) /\ Len(es) \in Nat
           /\ IsFiniteSet(DOMAIN es)
           /\ \A k \in DOMAIN es : es[k] \in Entry
           /\ \A k \in DOMAIN es : [j \in DOMAIN es |-> Delta(es[j])][k] \in Int
           /\ \A k \in DOMAIN es : Delta(es[k]) \in Int
<1>1. DOMAIN es = 1..Len(es) /\ Len(es) \in Nat
    OBVIOUS
<1>2. IsFiniteSet(DOMAIN es)
    BY <1>1, FS_Interval
<1>3. \A k \in DOMAIN es : es[k] \in Entry
    OBVIOUS
<1> QED BY <1>1, <1>2, <1>3, DeltaType

\* What a prefix of the entries adds to an account is an integer.
LEMMA NetType ==
    ASSUME NEW es \in Seq(Entry), NEW n \in 0..Len(es), NEW a
    PROVE  NetUpTo(es, n, a) \in Int
<1> DEFINE T == {k \in 1..n : es[k].account = a}
           d == [k \in DOMAIN es |-> Delta(es[k])]
<1>1. T \subseteq DOMAIN es
    BY Positions
<1>2. IsFiniteSet(T)
    BY <1>1, Positions, FS_Subset
<1>3. \A k \in T : d[k] \in Int
    BY <1>1, Positions
<1> HIDE DEF T, d
<1>4. SumFunctionOnSet(d, T) \in Int
    BY <1>2, <1>3, SumType
<1> QED BY <1>4 DEF NetUpTo, T, d

\* A transaction adds nothing to an account it has no entry on.
LEMMA NetNone ==
    ASSUME NEW es, NEW n, NEW a, \A k \in 1..n : es[k].account # a
    PROVE  NetUpTo(es, n, a) = 0
<1>1. {k \in 1..n : es[k].account = a} = {}
    OBVIOUS
<1> QED BY <1>1, SumEmpty DEF NetUpTo

\* One more entry.
LEMMA NetNext ==
    ASSUME NEW es \in Seq(Entry), NEW n \in DOMAIN es, NEW a
    PROVE  NetUpTo(es, n, a) = NetUpTo(es, n - 1, a)
                               + (IF es[n].account = a THEN Delta(es[n]) ELSE 0)
<1> DEFINE T(i) == {k \in 1..i : es[k].account = a}
           d == [k \in DOMAIN es |-> Delta(es[k])]
<1>0. n \in 1..Len(es) /\ n - 1 \in 0..Len(es) /\ n \in 0..Len(es)
    BY Positions
<1>1. T(n - 1) \subseteq DOMAIN es
    BY <1>0, Positions
<1>2. IsFiniteSet(T(n - 1))
    BY <1>1, Positions, FS_Subset
<1>3. \A k \in T(n - 1) \cup {n} : d[k] \in Int
    BY <1>1, Positions
<1>4. n \notin T(n - 1)
    BY <1>0
<1>5. NetUpTo(es, n - 1, a) \in Int
    BY <1>0, NetType
<1>6. CASE es[n].account = a
    <2>1. T(n) = T(n - 1) \cup {n}
        BY <1>0, <1>6
    <2>2. d[n] = Delta(es[n])
        OBVIOUS
    <2>3. NetUpTo(es, n, a) = SumFunctionOnSet(d, T(n))
              /\ NetUpTo(es, n - 1, a) = SumFunctionOnSet(d, T(n - 1))
        BY DEF NetUpTo
    <2> HIDE DEF T, d
    <2>4. SumFunctionOnSet(d, T(n - 1) \cup {n}) = SumFunctionOnSet(d, T(n - 1)) + d[n]
        BY <1>2, <1>3, <1>4, SumAdd
    <2> QED BY <1>6, <2>1, <2>2, <2>3, <2>4
<1>7. CASE es[n].account # a
    <2>1. T(n) = T(n - 1)
        BY <1>0, <1>7
    <2>2. NetUpTo(es, n, a) = NetUpTo(es, n - 1, a)
        BY ZenonT(30), <2>1 DEF NetUpTo
    <2> QED BY <1>5, <1>7, <2>2
<1> QED BY <1>6, <1>7

\* Without the amounts of some entries it is still a list of entries.
LEMMA MissingType ==
    ASSUME NEW es \in Seq(Entry), NEW S
    PROVE  Missing(es, S) \in Seq(Entry) /\ Len(Missing(es, S)) = Len(es)
<1> DEFINE ms == Missing(es, S)
<1>1. 0 \in Int64
    BY MoneyAssumption DEF Int64
<1>2. \A k \in DOMAIN es : [es[k] EXCEPT !.amount = 0] \in Entry
    BY ZenonT(60), <1>1, Positions DEF Entry
<1>3. ms \in [1..Len(es) -> Entry]
    BY <1>2, Positions DEF Missing
<1>4. Len(es) \in Nat
    BY Positions
<1> HIDE DEF ms
<1>5. ms \in Seq(Entry) /\ Len(ms) = Len(es)
    BY <1>3, <1>4
<1> QED BY <1>5 DEF ms

\* A projection adds what the entries at T add, without those it misses.
LEMMA MissingSum ==
    ASSUME NEW es \in Seq(Entry), NEW S \in SUBSET DOMAIN es, NEW T \in SUBSET DOMAIN es
    PROVE  SumFunctionOnSet([k \in DOMAIN es |-> Delta(es[k])], T) =
               SumFunctionOnSet([k \in DOMAIN Missing(es, S) |-> Delta(Missing(es, S)[k])], T)
               + SumFunctionOnSet([k \in DOMAIN es |-> Delta(es[k])], T \cap S)
<1> DEFINE U == T \cap S
           ms == Missing(es, S)
           d == [k \in DOMAIN es |-> Delta(es[k])]
           e == [k \in DOMAIN ms |-> Delta(ms[k])]
<1>1. /\ DOMAIN ms = DOMAIN es
      /\ \A k \in DOMAIN es \ S : ms[k] = es[k]
      /\ \A k \in S : ms[k].amount = 0
    BY Positions DEF Missing, Entry
<1>2. \A k \in S : Delta(ms[k]) = 0
    <2>1. 0 \in Int64
        BY MoneyAssumption DEF Int64
    <2>2. Negate(0) = 0
        <3>1. \A n, m \in Int : n + m = 0 => -m = n
            OBVIOUS
        <3>2. 0 \in Int /\ 0 + 0 = 0
            OBVIOUS
        <3>3. -0 = 0
            BY Zenon, <3>1, <3>2
        <3> QED BY Zenon, <2>1, <3>3, WrapExact DEF Negate
    <2> HIDE DEF ms
    <2> QED BY <1>1, <2>2 DEF Delta
<1>3. IsFiniteSet(T) /\ IsFiniteSet(U) /\ IsFiniteSet(T \ U)
    BY Positions, FS_Subset
<1>4. \A k \in T : d[k] \in Int
    BY Positions
<1>5. \A k \in T \ U : e[k] = d[k] /\ e[k] \in Int
    BY <1>1, Positions
<1>6. \A k \in T \ (T \ U) : e[k] = 0
    BY <1>1, <1>2
<1>7. T = (T \ U) \cup U /\ (T \ U) \cap U = {} /\ U \subseteq T
    OBVIOUS
<1> HIDE DEF U, ms, d, e
<1>8. SumFunctionOnSet(d, (T \ U) \cup U) = SumFunctionOnSet(d, T \ U) + SumFunctionOnSet(d, U)
    BY <1>3, <1>4, <1>7, SumUnion
<1>9. SumFunctionOnSet(e, T) = SumFunctionOnSet(e, T \ U)
    BY <1>3, <1>5, <1>6, SumSupport
<1>10. SumFunctionOnSet(e, T \ U) = SumFunctionOnSet(d, T \ U)
    BY <1>3, <1>5, SumAgree
<1>11. SumFunctionOnSet(d, T) = SumFunctionOnSet(e, T) + SumFunctionOnSet(d, U)
    BY Zenon, <1>7, <1>8, <1>9, <1>10
<1> QED BY <1>11 DEF U, ms, d, e

\* The same for one account.
LEMMA NetMissing ==
    ASSUME NEW es \in Seq(Entry), NEW S \in SUBSET DOMAIN es, NEW a
    PROVE  NetUpTo(es, Len(es), a) =
               NetUpTo(Missing(es, S), Len(es), a)
               + SumFunctionOnSet([k \in DOMAIN es |-> Delta(es[k])],
                                  {k \in S : es[k].account = a})
<1> DEFINE T == {k \in 1..Len(es) : es[k].account = a}
           ms == Missing(es, S)
<1>1. T \in SUBSET DOMAIN es
    BY Positions
<1>2. {k \in 1..Len(es) : ms[k].account = a} = T
    BY Positions DEF Missing, Entry
<1>3. T \cap S = {k \in S : es[k].account = a}
    BY Positions
<1>4. NetUpTo(es, Len(es), a) = SumFunctionOnSet([k \in DOMAIN es |-> Delta(es[k])], T)
    BY DEF NetUpTo
<1>5. NetUpTo(ms, Len(es), a) = SumFunctionOnSet([k \in DOMAIN ms |-> Delta(ms[k])], T)
    BY ZenonT(30), <1>2 DEF NetUpTo
<1> DEFINE d == [k \in DOMAIN es |-> Delta(es[k])]
           e == [k \in DOMAIN ms |-> Delta(ms[k])]
<1> HIDE DEF T
<1>6. SumFunctionOnSet(d, T) = SumFunctionOnSet(e, T) + SumFunctionOnSet(d, T \cap S)
    BY <1>1, MissingSum
<1> HIDE DEF d, e, ms
<1>7. NetUpTo(es, Len(es), a) = NetUpTo(ms, Len(es), a) + SumFunctionOnSet(d, T \cap S)
    BY <1>4, <1>5, <1>6 DEF d, e
<1> QED BY Zenon, <1>3, <1>7 DEF d, ms

-----------------------------------------------------------------------------
(* The Account entity.                                                     *)

\* Credit and Debit return an account; they change nothing but its balance.
LEMMA OperationType ==
    ASSUME NEW a \in AccountRow, NEW m, m.amount \in Int64
    PROVE  /\ Credit(a, m) \in AccountRow
           /\ Debit(a, m) \in AccountRow
<1>1. Add(a.balance, m.amount) \in Int64 /\ Subtract(a.balance, m.amount) \in Int64
    BY WrapType DEF Add, Subtract, AccountRow, Int64
<1> QED BY <1>1 DEF Credit, Debit, AccountRow

\* Every account value the entity's operations can produce, in any order and
\* with any amounts, is well formed.
THEOREM AccountTypeCorrect == EntitySpec => []EntityTypeOK
<1>1. EntityInit => EntityTypeOK
    <2>1. 0 \in Int64
        BY MoneyAssumption DEF Int64
    <2>2. ASSUME NEW name \in Name, NEW type \in AccountType, NEW currency,
                 NewAccountOK(name, currency)
          PROVE  NewAccountWithType(name, type, currency) \in AccountRow
        BY ZenonT(30), <2>1, <2>2 DEF NewAccountOK, NewAccountWithType, AccountRow, Status
    <2> QED BY <2>2 DEF EntityInit, EntityTypeOK
<1>2. EntityTypeOK /\ [EntityNext]_acc => EntityTypeOK'
    <2> SUFFICES ASSUME EntityTypeOK, [EntityNext]_acc PROVE EntityTypeOK'
        OBVIOUS
    <2>1. CASE CreditAny
        BY <2>1, OperationType DEF CreditAny, EntityTypeOK, Money
    <2>2. CASE DebitAny
        BY <2>2, OperationType DEF DebitAny, EntityTypeOK, Money
    <2>3. CASE SuspendAccount
        BY <2>3 DEF SuspendAccount, Suspend, EntityTypeOK, AccountRow, Status
    <2>4. CASE ReactivateAccount
        BY <2>4 DEF ReactivateAccount, Reactivate, EntityTypeOK, AccountRow, Status
    <2>5. CASE CloseAccount
        BY <2>5 DEF CloseAccount, Close, EntityTypeOK, AccountRow, Status
    <2>6. CASE UNCHANGED acc
        BY <2>6 DEF EntityTypeOK
    <2> QED BY <2>1, <2>2, <2>3, <2>4, <2>5, <2>6 DEF EntityNext
<1> QED BY <1>1, <1>2, PTL DEF EntitySpec

\* Debit's check is safe at every integer width: an accepted debit of an asset
\* account that holds money never overdraws it, not even through overflow.
THEOREM DebitNeverOverdraws == EntitySpec => []AssetDebitIsExact
<1>1. EntityTypeOK => AssetDebitIsExact
    <2> SUFFICES ASSUME EntityTypeOK, acc.type = "ASSET", acc.balance >= 0,
                        NEW m \in Money, DebitOK(acc, m)
                 PROVE  /\ Debit(acc, m).balance = acc.balance - m.amount
                        /\ Debit(acc, m).balance >= 0
        BY DEF AssetDebitIsExact
    <2> DEFINE x == acc.balance - m.amount
    <2>1. acc.balance \in Int64 /\ m.amount \in Int64 /\ Half \in Nat \ {0}
        BY MoneyAssumption DEF EntityTypeOK, AccountRow, Money
    <2>2. Debit(acc, m).balance = Wrap(x)
        BY DEF Debit, Subtract, EntityTypeOK, AccountRow
    <2>3. Wrap(x) >= 0
        BY DEF DebitOK, AllowsNegativeBalance, Subtract
    <2>4. x < Half
        <3>1. CASE x >= Half
            <4>1. x \in Half .. 3 * Half - 1
                BY <2>1, <3>1 DEF Int64
            <4>2. Wrap(x) = x - 2 * Half
                BY <4>1, WrapOver
            <4> QED BY <2>1, <2>3, <4>2 DEF Int64
        <3> QED BY <2>1, <3>1 DEF Int64
    <2>5. x \in Int64
        BY <2>1, <2>4 DEF Int64
    <2> QED BY <2>2, <2>3, <2>5, WrapExact
<1> QED BY <1>1, AccountTypeCorrect, PTL

\* What a transfer's compensation relies on: crediting the debited amount is
\* accepted and restores the account exactly, at every integer width.
THEOREM CompensationRestores == EntitySpec => []CreditUndoesDebit
<1>1. EntityTypeOK => CreditUndoesDebit
    <2> SUFFICES ASSUME EntityTypeOK, NEW m \in Money, DebitOK(acc, m)
                 PROVE  /\ CreditOK(Debit(acc, m), m)
                        /\ Credit(Debit(acc, m), m) = acc
        BY DEF CreditUndoesDebit
    <2>1. CreditOK(Debit(acc, m), m)
        BY DEF EntityTypeOK, DebitOK, CreditOK, validateOperation, Debit, AccountRow
    <2>2. Add(Subtract(acc.balance, m.amount), m.amount) = acc.balance
        BY AddUndoesSubtract DEF EntityTypeOK, AccountRow, Money
    <2> QED BY ZenonT(30), <2>1, <2>2 DEF EntityTypeOK, Credit, Debit, AccountRow
<1> QED BY <1>1, AccountTypeCorrect, PTL

\* A closed account never changes again and an inactive one keeps its balance.
THEOREM ClosedStaysClosed == EntitySpec => ClosedIsFinal
<1>1. EntityTypeOK /\ [EntityNext]_acc =>
        [/\ acc.status = "CLOSED" => acc' = acc
         /\ acc.status # "ACTIVE" => acc'.balance = acc.balance]_acc
    BY DEF EntityNext, CreditAny, DebitAny, CreditOK, DebitOK, validateOperation,
           SuspendAccount, Suspend, ReactivateAccount, Reactivate,
           CloseAccount, Close, EntityTypeOK, AccountRow
<1> QED BY <1>1, AccountTypeCorrect, PTL DEF EntitySpec, ClosedIsFinal
=============================================================================
