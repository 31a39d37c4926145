----------------------------- MODULE Induction ------------------------------
(***************************************************************************)
(* Induction and recursion on the naturals and along a rank, stated about   *)
(* sets and functions rather than operators: the facts the recursive       *)
(* functions of the models (Origin, Walk, Visited, Intern) unfold with.    *)
(***************************************************************************)
EXTENDS Integers, WellFoundedInduction, TLAPS

\* The order that WellFoundedInduction proves well-founded, as a set of pairs.
LEMMA LessIsWellFounded == IsWellFoundedOn({p \in Nat \X Nat : p[1] < p[2]}, Nat)
BY NatLessThanWellFounded, Zenon DEF OpToRel

\* A non-empty set of naturals has a least element.
LEMMA LeastNatural ==
  ASSUME NEW T, T \subseteq Nat, T # {}
  PROVE  \E m \in T : \A y \in T : m <= y
<1> DEFINE Less == {p \in Nat \X Nat : p[1] < p[2]}
<1>1. PICK m \in T : \A y \in T : <<y, m>> \notin Less
  <2>1. IsWellFoundedOn(Less, Nat)
    BY LessIsWellFounded
  <2> HIDE DEF Less
  <2> QED BY <2>1, WFMin, Zenon
<1>2. \A y \in T : ~(y < m)
  BY <1>1
<1> QED BY <1>2

\* Induction: a set that holds 0 and, with a natural, its successor.
THEOREM SetInduction ==
  ASSUME NEW S, 0 \in S, \A n \in Nat : n \in S => n + 1 \in S
  PROVE  Nat \subseteq S
<1> DEFINE T == Nat \ S
<1>1. SUFFICES ASSUME T # {} PROVE FALSE
  OBVIOUS
<1>2. PICK m \in T : \A y \in T : m <= y
  <2>1. T \subseteq Nat
    OBVIOUS
  <2> HIDE DEF T
  <2> QED BY <1>1, <2>1, LeastNatural
<1>3. m - 1 \in Nat /\ m - 1 < m /\ m - 1 + 1 = m
  OBVIOUS
<1>4. m - 1 \in S
  BY <1>2, <1>3
<1> QED BY <1>2, <1>3, <1>4

\* f is the function on 0 .. M with that first value and that step.
Iterates(f, R, base, F, M) ==
  /\ f \in [0 .. M -> R]
  /\ f[0] = base
  /\ \A n \in 0 .. M - 1 : f[n + 1] = F[<<n, f[n]>>]

\* Recursion: a first value and a step determine a function on 0 .. M.
THEOREM Recursion ==
  ASSUME NEW R, NEW base \in R, NEW F \in [Nat \X R -> R], NEW M \in Nat
  PROVE  \E f : Iterates(f, R, base, F, M)
<1> DEFINE S == {m \in Nat : \E f : Iterates(f, R, base, F, m)}
<1>1. 0 \in S
  <2> DEFINE f == [n \in 0 .. 0 |-> base]
  <2>1. Iterates(f, R, base, F, 0)
    BY DEF Iterates
  <2> QED BY <2>1
<1>2. ASSUME NEW m \in Nat, m \in S PROVE m + 1 \in S
  <2>1. PICK f : Iterates(f, R, base, F, m)
    BY <1>2
  <2> DEFINE g == [n \in 0 .. m + 1 |-> IF n = m + 1 THEN F[<<m, f[m]>>] ELSE f[n]]
  <2>2. g \in [0 .. m + 1 -> R]
    BY <2>1 DEF Iterates
  <2>3. g[0] = base
    BY <2>1 DEF Iterates
  <2>4. ASSUME NEW n \in 0 .. m PROVE g[n + 1] = F[<<n, g[n]>>]
    <3>1. g[n] = f[n]
      OBVIOUS
    <3>2. CASE n = m
      <4>1. g[m + 1] = F[<<m, f[m]>>]
        OBVIOUS
      <4> HIDE DEF g
      <4> QED BY <3>1, <3>2, <4>1
    <3>3. CASE n # m
      <4>1. n \in 0 .. m - 1 /\ n + 1 \in 0 .. m
        BY <3>3
      <4>2. g[n + 1] = f[n + 1]
        BY <4>1
      <4> QED BY <2>1, <3>1, <4>1, <4>2 DEF Iterates
    <3> QED BY <3>2, <3>3
  <2>5. m + 1 - 1 = m /\ m + 1 \in Nat
    OBVIOUS
  <2>6. Iterates(g, R, base, F, m + 1)
    <3> HIDE DEF g
    <3> QED BY <2>2, <2>3, <2>4, <2>5 DEF Iterates
  <2> QED BY <2>5, <2>6
<1> HIDE DEF S
<1>3. Nat \subseteq S
  BY <1>1, <1>2, SetInduction
<1> QED BY <1>3 DEF S

\* Recursion without an end: the functions on 0 .. M are parts of one on Nat.
Unending(f, R, base, F) == f \in [Nat -> R] /\ f[0] = base /\ \A n \in Nat : f[n + 1] = F[<<n, f[n]>>]
THEOREM RecursionOnNat ==
  ASSUME NEW R, NEW base \in R, NEW F \in [Nat \X R -> R]
  PROVE  \E f : Unending(f, R, base, F)
<1> DEFINE part == [m \in Nat |-> CHOOSE f : Iterates(f, R, base, F, m)]
           f == [m \in Nat |-> part[m][m]]
<1>1. ASSUME NEW m \in Nat PROVE Iterates(part[m], R, base, F, m)
  <2>1. \E h : Iterates(h, R, base, F, m)
    BY Recursion
  <2> QED BY <2>1
<1> HIDE DEF part
<1>2. ASSUME NEW m \in Nat PROVE f[m] \in R /\ f[m] = part[m][m]
  BY <1>1 DEF Iterates
<1>3. f[0] = base
  BY <1>1 DEF Iterates
<1>4. ASSUME NEW m \in Nat PROVE f[m + 1] = F[<<m, f[m]>>]
  <2>1. PICK q : q = m + 1
    OBVIOUS
  <2>2. q \in Nat /\ m \in 0 .. q - 1
    BY <2>1
  <2>3. Iterates(part[q], R, base, F, q) /\ Iterates(part[m], R, base, F, m)
    BY <1>1, <2>2
  <2> DEFINE S == {n \in Nat : n <= m => part[q][n] = part[m][n]}
  <2>4. 0 \in S
    BY <2>3 DEF Iterates
  <2>5. ASSUME NEW n \in Nat, n \in S PROVE n + 1 \in S
    <3>1. SUFFICES ASSUME n + 1 <= m PROVE part[q][n + 1] = part[m][n + 1]
      OBVIOUS
    <3>2. n \in 0 .. m - 1 /\ n \in 0 .. q - 1 /\ part[q][n] = part[m][n]
      BY <2>1, <2>5, <3>1
    <3> QED BY <2>3, <3>2 DEF Iterates
  <2>6. part[q][m] = part[m][m]
    <3>1. m \in S
      <4> HIDE DEF S
      <4> QED BY <2>4, <2>5, SetInduction
    <3> QED BY <3>1
  <2>7. part[q][m + 1] = F[<<m, part[q][m]>>]
    BY <2>2, <2>3 DEF Iterates
  <2>8. f[q] = part[q][q] /\ f[m] = part[m][m]
    BY <1>2, <2>2
  <2> HIDE DEF f
  <2> QED BY <2>1, <2>6, <2>7, <2>8
<1>5. f \in [Nat -> R]
  BY <1>2
<1> HIDE DEF f
<1> QED BY <1>3, <1>4, <1>5 DEF Unending

\* The same for a step that leads to the number it is given: a function with a
\* first value and a step from each value to the next, as a model defines it.
Stepped(f, R, base, Step, N) ==
  /\ f \in [0 .. N -> R]
  /\ f[0] = base
  /\ \A i \in 1 .. N : f[i] = Step[<<i, f[i - 1]>>]
THEOREM Iteration ==
  ASSUME NEW R, NEW base \in R, NEW N \in Nat, NEW Step \in [(1 .. N) \X R -> R]
  PROVE  \E f : Stepped(f, R, base, Step, N)
<1> DEFINE F == [p \in Nat \X R |-> IF p[1] < N THEN Step[<<p[1] + 1, p[2]>>] ELSE p[2]]
<1>1. F \in [Nat \X R -> R]
  OBVIOUS
<1>2. \A n \in 0 .. N - 1 : \A r \in R : F[<<n, r>>] = Step[<<n + 1, r>>]
  OBVIOUS
<1> HIDE DEF F
<1>3. PICK f : Iterates(f, R, base, F, N)
  BY <1>1, Recursion
<1>4. f \in [0 .. N -> R] /\ f[0] = base
  BY <1>3 DEF Iterates
<1>5. ASSUME NEW i \in 1 .. N PROVE f[i] = Step[<<i, f[i - 1]>>]
  <2>1. PICK n : n = i - 1
    OBVIOUS
  <2>2. n \in 0 .. N - 1 /\ n + 1 = i /\ n \in 0 .. N
    BY <2>1
  <2>3. f[n + 1] = F[<<n, f[n]>>]
    BY <1>3, <2>2 DEF Iterates
  <2>4. f[n] \in R
    BY <1>4, <2>2
  <2> QED BY <1>2, <2>1, <2>2, <2>3, <2>4
<1> QED BY <1>4, <1>5 DEF Stepped

\* A rank of the members of a set, and a set that has what all of smaller rank
\* have: it has them all.
Ranks(rank, D, M) == M \in Nat /\ rank \in [D -> 0 .. M]
Inherited(S, rank, D) == \A x \in D : (\A y \in D : rank[y] < rank[x] => y \in S) => x \in S
THEOREM RankInduction ==
  ASSUME NEW D, NEW M, NEW rank, Ranks(rank, D, M), NEW S, Inherited(S, rank, D)
  PROVE  D \subseteq S
<1>0. M \in Nat /\ rank \in [D -> 0 .. M]
  BY DEF Ranks
<1> DEFINE K == {n \in Nat : \A x \in D : rank[x] < n => x \in S}
<1>1. 0 \in K
  BY <1>0
<1>2. ASSUME NEW n \in Nat, n \in K PROVE n + 1 \in K
  <2>1. SUFFICES ASSUME NEW x \in D, rank[x] < n + 1 PROVE x \in S
    OBVIOUS
  <2>2. ASSUME NEW y \in D, rank[y] < rank[x] PROVE y \in S
    <3>1. rank[y] < n
      BY <1>0, <2>1, <2>2
    <3> QED BY <1>2, <3>1
  <2> QED BY <2>2 DEF Inherited
<1>3. M + 1 \in K
  <2> HIDE DEF K
  <2>1. Nat \subseteq K
    BY <1>1, <1>2, SetInduction
  <2> QED BY <1>0, <2>1
<1>4. \A x \in D : rank[x] < M + 1
  BY <1>0
<1> QED BY <1>3, <1>4

\* A step whose value at a member depends on members of smaller rank.
LocalTo(F, R, rank, D) ==
  /\ F \in [[D -> R] -> [D -> R]]
  /\ \A f, g \in [D -> R] : \A x \in D :
       (\A y \in D : rank[y] < rank[x] => f[y] = g[y]) => F[f][x] = F[g][x]

\* Recursion along a rank: a step that is local to it has a solution.
THEOREM RankRecursion ==
  ASSUME NEW D, NEW M, NEW rank, Ranks(rank, D, M), NEW R, NEW b \in R, NEW F, LocalTo(F, R, rank, D)
  PROVE  \E f \in [D -> R] : f = F[f]
<1>a. M \in Nat
  BY DEF Ranks
<1>b. rank \in [D -> 0 .. M]
  BY DEF Ranks
<1>c. F \in [[D -> R] -> [D -> R]]
  BY DEF LocalTo
<1>d. \A f, g \in [D -> R] : \A x \in D :
        (\A y \in D : rank[y] < rank[x] => f[y] = g[y]) => F[f][x] = F[g][x]
  BY DEF LocalTo
<1> USE <1>a, <1>b, <1>c
<1> DEFINE S == [D -> R]
           base == [x \in D |-> b]
           G == [p \in Nat \X S |-> F[p[2]]]
<1>1. base \in S /\ M + 2 \in Nat
  OBVIOUS
<1>2. G \in [Nat \X S -> S]
  OBVIOUS
<1>3. PICK it : Iterates(it, S, base, G, M + 2)
  <2> HIDE DEF S, base, G
  <2> QED BY <1>1, <1>2, Recursion
<1>4. /\ it \in [0 .. M + 2 -> S]
      /\ \A n \in 0 .. M + 1 : it[n + 1] = F[it[n]]
  <2>1. it \in [0 .. M + 2 -> S] /\ \A n \in 0 .. M + 1 : it[n + 1] = G[<<n, it[n]>>]
    <3>1. 0 .. M + 1 = 0 .. M + 2 - 1
      OBVIOUS
    <3> HIDE DEF G, S, base
    <3> QED BY <1>3, <3>1 DEF Iterates
  <2>2. ASSUME NEW n \in 0 .. M + 1 PROVE it[n + 1] = F[it[n]]
    <3>1. <<n, it[n]>> \in Nat \X S
      BY <2>1
    <3>2. G[<<n, it[n]>>] = F[it[n]]
      BY <3>1
    <3> QED BY <2>1, <3>2
  <2> QED BY <2>1, <2>2
<1> DEFINE K == {n \in Nat : n <= M + 1 => \A x \in D : rank[x] < n => it[n + 1][x] = it[n][x]}
<1>5. 0 \in K
  OBVIOUS
<1>6. ASSUME NEW n \in Nat, n \in K PROVE n + 1 \in K
  <2>1. SUFFICES ASSUME n + 1 <= M + 1, NEW x \in D, rank[x] < n + 1
                 PROVE  it[n + 1 + 1][x] = it[n + 1][x]
    OBVIOUS
  <2>2. n \in 0 .. M + 1 /\ n + 1 \in 0 .. M + 1 /\ n <= M + 1
    BY <2>1
  <2>3. it[n + 1] = F[it[n]] /\ it[n + 1 + 1] = F[it[n + 1]]
    BY <1>4, <2>2
  <2>4. it[n] \in [D -> R] /\ it[n + 1] \in [D -> R]
    <3>1. n \in 0 .. M + 2 /\ n + 1 \in 0 .. M + 2
      BY <2>2
    <3>2. it[n] \in S /\ it[n + 1] \in S
      <4> HIDE DEF S
      <4> QED BY <1>4, <3>1
    <3> QED BY <3>2
  <2>5. ASSUME NEW y \in D, rank[y] < rank[x] PROVE it[n + 1][y] = it[n][y]
    <3>1. rank[y] < n
      BY <2>1, <2>5
    <3> QED BY <1>6, <2>2, <3>1
  <2>6. F[it[n + 1]][x] = F[it[n]][x]
    BY <2>4, <2>5, <1>d
  <2> QED BY <2>3, <2>6
<1>7. M + 1 \in K
  <2> HIDE DEF K
  <2>1. Nat \subseteq K
    BY <1>5, <1>6, SetInduction
  <2> QED BY <2>1
<1>8. it[M + 1] \in [D -> R] /\ it[M + 1 + 1] \in [D -> R] /\ it[M + 1 + 1] = F[it[M + 1]]
  BY <1>4
<1>9. ASSUME NEW x \in D PROVE it[M + 1 + 1][x] = it[M + 1][x]
  BY <1>7
<1>10. it[M + 1 + 1] = it[M + 1]
  BY <1>8, <1>9
<1> QED BY <1>8, <1>10

\* A relation on a set such that every part of the set has a least member.
Founded(below, D) == \A S \in SUBSET D : S # {} => \E x \in S : \A y \in S : <<y, x>> \notin below

\* A step whose value at a member, and that this value is one of those allowed
\* there, depend on allowed values at the members below.
DeterminedBy(F, T, below, D, R) ==
  /\ F \in [[D -> R] -> [D -> R]]
  /\ \A x \in D : T[x] \subseteq R
  /\ \A f, g \in [D -> R] : \A x \in D :
       (\A y \in D : <<y, x>> \in below => f[y] = g[y] /\ f[y] \in T[y]) => F[f][x] = F[g][x] /\ F[f][x] \in T[x]

\* Recursion along such a relation: the step has a solution with allowed values.
THEOREM FoundedRecursion ==
  ASSUME NEW D, NEW below, Founded(below, D), NEW R, NEW b \in R, NEW T, NEW F, DeterminedBy(F, T, below, D, R)
  PROVE  \E f \in [D -> R] : f = F[f] /\ \A x \in D : f[x] \in T[x]
<1>1. F \in [[D -> R] -> [D -> R]] /\ \A x \in D : T[x] \subseteq R
  BY DEF DeterminedBy
<1>2. ASSUME NEW f \in [D -> R], NEW g \in [D -> R], NEW x \in D,
             \A y \in D : <<y, x>> \in below => f[y] = g[y] /\ f[y] \in T[y]
      PROVE  F[f][x] = F[g][x] /\ F[f][x] \in T[x]
  BY <1>2 DEF DeterminedBy
<1> DEFINE Closed(S) == \A x \in S : \A y \in D : <<y, x>> \in below => y \in S
           Solves(f, S) == S \subseteq D /\ Closed(S) /\ \A x \in S : f[x] = F[f][x] /\ f[x] \in T[x]
           Solved == {x \in D : \E f \in [D -> R] : \E S \in SUBSET D : x \in S /\ Solves(f, S)}
           h == [x \in D |-> IF x \in Solved
                             THEN (CHOOSE f \in [D -> R] : \E S \in SUBSET D : x \in S /\ Solves(f, S))[x] ELSE b]
\* Two solutions agree where both are solutions.
<1>3. ASSUME NEW f \in [D -> R], NEW g \in [D -> R], NEW A \in SUBSET D, NEW B \in SUBSET D, Solves(f, A), Solves(g, B),
             NEW x \in A \cap B
      PROVE  f[x] = g[x]
  <2> DEFINE Differ == {z \in A \cap B : f[z] # g[z]}
  <2>1. SUFFICES ASSUME Differ # {} PROVE FALSE
    OBVIOUS
  <2>2. PICK z \in Differ : \A y \in Differ : <<y, z>> \notin below
    BY <2>1 DEF Founded
  <2>3. ASSUME NEW y \in D, <<y, z>> \in below PROVE f[y] = g[y] /\ f[y] \in T[y]
    BY <1>3, <2>2, <2>3
  <2>4. F[f][z] = F[g][z]
    BY <1>2, <2>2, <2>3
  <2> QED BY <1>3, <2>2, <2>4
<1>4. ASSUME NEW f \in [D -> R], NEW A \in SUBSET D, Solves(f, A), NEW x \in A PROVE h[x] = f[x]
  <2> DEFINE Fits(g) == \E S \in SUBSET D : x \in S /\ Solves(g, S)
             g == CHOOSE g \in [D -> R] : Fits(g)
  <2>1. Fits(f) /\ x \in Solved
    BY <1>4
  <2>2. g \in [D -> R] /\ Fits(g)
    <3> HIDE DEF Fits
    <3> QED BY <2>1
  <2>3. h[x] = g[x]
    BY <2>1
  <2> HIDE DEF g
  <2>4. PICK B \in SUBSET D : x \in B /\ Solves(g, B)
    BY <2>2
  <2> HIDE DEF Solves, h
  <2>5. g[x] = f[x]
    BY <1>3, <1>4, <2>2, <2>4
  <2> QED BY <2>3, <2>5
<1>5. h \in [D -> R]
  <2>1. ASSUME NEW x \in Solved PROVE h[x] \in R
    <3>1. PICK f \in [D -> R] : \E S \in SUBSET D : x \in S /\ Solves(f, S)
      OBVIOUS
    <3>2. h[x] = f[x]
      <4> HIDE DEF h, Solves
      <4> QED BY <1>4, <3>1
    <3> QED BY <3>1, <3>2
  <2>2. ASSUME NEW x \in D \ Solved PROVE h[x] \in R
    BY <2>2
  <2>3. ASSUME NEW x \in D PROVE h[x] \in R
    BY <2>1, <2>2
  <2> HIDE DEF Solved
  <2> QED BY <2>3
<1> HIDE DEF h
<1>6. Solves(h, Solved)
  <2>1. Solved \subseteq D
    OBVIOUS
  <2>2. Closed(Solved)
    OBVIOUS
  <2>3. ASSUME NEW x \in Solved PROVE h[x] = F[h][x] /\ h[x] \in T[x]
    <3>1. PICK f \in [D -> R], S \in SUBSET D : x \in S /\ Solves(f, S)
      OBVIOUS
    <3>2. \A y \in S : h[y] = f[y]
      <4> HIDE DEF Solves
      <4> QED BY <1>4, <3>1
    <3>3. ASSUME NEW y \in D, <<y, x>> \in below PROVE f[y] = h[y] /\ f[y] \in T[y]
      BY <3>1, <3>2, <3>3
    <3>4. F[f][x] = F[h][x]
      BY <1>2, <1>5, <3>1, <3>3
    <3> QED BY <3>1, <3>2, <3>4
  <2> QED BY <2>1, <2>2, <2>3
<1>7. Solved = D
  <2>1. SUFFICES ASSUME D \ Solved # {} PROVE FALSE
    OBVIOUS
  <2>2. PICK x \in D \ Solved : \A y \in D \ Solved : <<y, x>> \notin below
    <3> HIDE DEF Solved
    <3> QED BY <2>1 DEF Founded
  <2> DEFINE f == [h EXCEPT ![x] = F[h][x]]
             S == Solved \cup {x}
  <2>3. f \in [D -> R] /\ F[h] \in [D -> R]
    BY <1>1, <1>5
  <2>4. \A y \in D : <<y, x>> \in below => y \in Solved
    BY <2>2
  <2>5. f[x] = F[h][x] /\ \A y \in Solved : f[y] = h[y]
    BY <1>5, <2>2
  <2>6. \A y \in Solved : h[y] = F[h][y] /\ h[y] \in T[y] /\ \A z \in D : <<z, y>> \in below => z \in Solved
    BY <1>6
  <2> HIDE DEF f, Solved
  <2>7. F[h][x] = F[f][x] /\ F[h][x] \in T[x]
    <3>1. \A y \in D : <<y, x>> \in below => h[y] = f[y] /\ h[y] \in T[y]
      BY <2>4, <2>5, <2>6
    <3> QED BY <1>2, <1>5, <2>2, <2>3, <3>1
  <2>8. ASSUME NEW y \in Solved PROVE F[h][y] = F[f][y]
    <3>1. \A z \in D : <<z, y>> \in below => h[z] = f[z] /\ h[z] \in T[z]
      BY <2>5, <2>6
    <3>2. y \in D
      BY DEF Solved
    <3> QED BY <1>2, <1>5, <2>3, <3>1, <3>2
  <2>9. Solves(f, S)
    <3>1. S \subseteq D
      BY DEF Solved
    <3> QED BY <2>4, <2>5, <2>6, <2>7, <2>8, <3>1
  <2>10. x \in Solved
    BY <2>3, <2>9 DEF Solved
  <2> QED BY <2>2, <2>10
<1>8. F[h] \in [D -> R] /\ \A x \in D : h[x] = F[h][x] /\ h[x] \in T[x]
  <2>1. \A x \in Solved : h[x] = F[h][x] /\ h[x] \in T[x]
    <3> HIDE DEF Solved
    <3> QED BY <1>6
  <2> HIDE DEF Solved
  <2> QED BY <1>1, <1>5, <1>7, <2>1
<1>9. h = F[h]
  BY <1>5, <1>8
<1> QED BY <1>5, <1>8, <1>9

\* Three ranks, one before the other, found a relation.
Before(p, r1, r2, r3) ==
  LET y == p[1]  x == p[2]
  IN \/ r1[y] < r1[x]
     \/ r1[y] = r1[x] /\ (r2[y] < r2[x] \/ (r2[y] = r2[x] /\ r3[y] < r3[x]))
THEOREM RanksFound ==
  ASSUME NEW D, NEW r1 \in [D -> Nat], NEW r2 \in [D -> Nat], NEW r3 \in [D -> Nat]
  PROVE  Founded({p \in D \X D : Before(p, r1, r2, r3)}, D)
<1> SUFFICES ASSUME NEW S \in SUBSET D, S # {}
             PROVE  \E x \in S : \A y \in S : <<y, x>> \notin {p \in D \X D : Before(p, r1, r2, r3)}
  BY DEF Founded
<1>1. ASSUME NEW A \in SUBSET D, A # {}, NEW r \in [D -> Nat] PROVE \E x \in A : \A y \in A : r[x] <= r[y]
  <2> DEFINE N == {r[x] : x \in A}
  <2>1. N \subseteq Nat /\ N # {}
    BY <1>1
  <2>2. PICK n \in N : \A m \in N : n <= m
    <3> HIDE DEF N
    <3> QED BY <2>1, LeastNatural
  <2> QED BY <2>2
<1>2. PICK a \in S : \A y \in S : r1[a] <= r1[y]
  BY <1>1
<1> DEFINE S2 == {y \in S : r1[y] = r1[a]}
<1>3. PICK c \in S2 : \A y \in S2 : r2[c] <= r2[y]
  <2>1. a \in S2
    OBVIOUS
  <2> HIDE DEF S2
  <2> QED BY <1>1, <2>1 DEF S2
<1> DEFINE S3 == {y \in S2 : r2[y] = r2[c]}
<1>4. PICK x \in S3 : \A y \in S3 : r3[x] <= r3[y]
  <2>1. c \in S3
    OBVIOUS
  <2>2. S3 \in SUBSET D
    OBVIOUS
  <2> HIDE DEF S3
  <2> QED BY <1>1, <2>1, <2>2
<1>5. ASSUME NEW y \in S, Before(<<y, x>>, r1, r2, r3) PROVE FALSE
  <2>1. /\ r1[y] \in Nat /\ r2[y] \in Nat /\ r3[y] \in Nat /\ r1[x] \in Nat /\ r2[x] \in Nat /\ r3[x] \in Nat
        /\ r1[x] = r1[a] /\ r2[x] = r2[c] /\ r1[a] <= r1[y]
    BY <1>2
  <2>2. \/ r1[y] < r1[x]
        \/ r1[y] = r1[x] /\ (r2[y] < r2[x] \/ (r2[y] = r2[x] /\ r3[y] < r3[x]))
    BY <1>5 DEF Before
  <2>3. r1[y] = r1[x]
    BY <2>1, <2>2
  <2>4. y \in S2 /\ r2[c] <= r2[y]
    BY <1>3, <2>1, <2>3
  <2>5. r2[y] = r2[x]
    BY <2>1, <2>2, <2>3, <2>4
  <2>6. r3[x] <= r3[y]
    BY <1>4, <2>1, <2>4, <2>5
  <2> QED BY <2>1, <2>2, <2>3, <2>5, <2>6
<1> QED BY <1>5

=============================================================================
