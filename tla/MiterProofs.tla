------------------------------ MODULE MiterProofs ------------------------------
(***************************************************************************)
(* A miter is sound, for packages of any size and depth and for any nets.     *)
(* The walk of a package meets the instances below its root, and the pairs    *)
(* are those of the modules it meets. The groups of a module start where     *)
(* those of the modules before it end, so that a group is one memory, and    *)
(* the slices of a group follow one another. In the harness every child is   *)
(* deleted before the first port is cut, so that nothing undoes a cut; a      *)
(* name is a name of one bit, which one port drives.                        *)
(***************************************************************************)
EXTENDS KianvProofs

(* Sequences: what a concatenation and a flattened sequence hold.            *)

\* The members of a concatenation.
LEMMA ConcatMembers ==
  ASSUME NEW T, NEW a \in Seq(T), NEW b \in Seq(T)
  PROVE  /\ a \o b \in Seq(T)
         /\ Miter!Members(a \o b) = Miter!Members(a) \cup Miter!Members(b)
<1>1. ASSUME NEW x \in {b[i] : i \in DOMAIN b} PROVE x \in {(a \o b)[i] : i \in DOMAIN (a \o b)}
  <2>1. PICK i \in 1 .. Len(b) : x = b[i]
    OBVIOUS
  <2>2. Len(a) + i \in 1 .. Len(a) + Len(b) /\ (a \o b)[Len(a) + i] = b[i]
    OBVIOUS
  <2>3. DOMAIN (a \o b) = 1 .. Len(a) + Len(b)
    OBVIOUS
  <2> QED BY <2>1, <2>2, <2>3
<1>2. ASSUME NEW x \in {a[i] : i \in DOMAIN a} PROVE x \in {(a \o b)[i] : i \in DOMAIN (a \o b)}
  <2>1. PICK i \in 1 .. Len(a) : x = a[i]
    OBVIOUS
  <2>2. i \in 1 .. Len(a) + Len(b) /\ (a \o b)[i] = a[i]
    OBVIOUS
  <2>3. DOMAIN (a \o b) = 1 .. Len(a) + Len(b)
    OBVIOUS
  <2> QED BY <2>1, <2>2, <2>3
<1>3. ASSUME NEW i \in DOMAIN (a \o b)
      PROVE  (a \o b)[i] \in {a[k] : k \in DOMAIN a} \cup {b[k] : k \in DOMAIN b}
  <2>1. i \in 1 .. Len(a) + Len(b)
    OBVIOUS
  <2>2. CASE i <= Len(a)
    BY <2>1, <2>2
  <2>3. CASE i > Len(a)
    <3>1. i - Len(a) \in 1 .. Len(b) /\ (a \o b)[i] = b[i - Len(a)]
      BY <2>1, <2>3
    <3> QED BY <3>1
  <2> QED BY <2>1, <2>2, <2>3
<1>4. a \o b \in Seq(T)
  OBVIOUS
<1>5. {(a \o b)[i] : i \in DOMAIN (a \o b)} = {a[i] : i \in DOMAIN a} \cup {b[i] : i \in DOMAIN b}
  BY <1>1, <1>2, <1>3, Zenon
<1> QED BY <1>4, <1>5 DEF Miter!Members

\* The members of one more sequence.
LEMMA OneMore ==
  ASSUME NEW ss, NEW n \in Nat
  PROVE  UNION {Miter!Members(ss[i]) : i \in 1 .. n + 1}
           = (UNION {Miter!Members(ss[i]) : i \in 1 .. n}) \cup Miter!Members(ss[n + 1])
<1>1. 1 .. n + 1 = (1 .. n) \cup {n + 1}
  OBVIOUS
<1>2. \A i : i \in 1 .. n + 1 <=> (i \in 1 .. n \/ i = n + 1)
  BY <1>1
<1> QED BY <1>2, Zenon

\* Flattening keeps the members, and nothing but them.
LEMMA FlattenMembers ==
  ASSUME NEW T, NEW ss \in Seq(Seq(T))
  PROVE  /\ Miter!FlattenSeq(ss) \in Seq(T)
         /\ Miter!Members(Miter!FlattenSeq(ss)) = UNION {Miter!Members(ss[i]) : i \in DOMAIN ss}
<1> DEFINE N == Len(ss)
           R == Seq(T)
           G == [p \in Nat \X R |-> IF p[1] < N THEN p[2] \o ss[p[1] + 1] ELSE p[2]]
           Flat(f) == [i \in 1 .. N |-> IF i = 1 THEN ss[i] ELSE f[i - 1] \o ss[i]]
<1>1. N \in Nat /\ DOMAIN ss = 1 .. N /\ \A i \in 1 .. N : ss[i] \in R
  OBVIOUS
<1>2. <<>> \in R /\ G \in [Nat \X R -> R]
  <2>1. ASSUME NEW n \in Nat, NEW r \in R PROVE (IF n < N THEN r \o ss[n + 1] ELSE r) \in R
    BY <1>1
  <2> QED BY <2>1
<1>3. CASE N = 0
  <2>1. ss = <<>> /\ Miter!FlattenSeq(ss) = ss
    BY <1>3 DEF Miter!FlattenSeq
  <2>2. DOMAIN ss = {} /\ ss \in Seq(T)
    BY <2>1
  <2> QED BY <2>1, <2>2 DEF Miter!Members
<1>4. CASE N # 0
  <2>1. PICK g : Iterates(g, R, <<>>, G, N)
    <3> HIDE DEF R, G, N
    <3> QED BY <1>1, <1>2, Recursion
  <2>2. /\ g \in [0 .. N -> R] /\ g[0] = <<>>
        /\ \A n \in 0 .. N - 1 : g[n + 1] = g[n] \o ss[n + 1]
    <3>1. g \in [0 .. N -> R] /\ g[0] = <<>> /\ \A n \in 0 .. N - 1 : g[n + 1] = G[<<n, g[n]>>]
      BY <2>1 DEF Iterates
    <3>2. ASSUME NEW n \in 0 .. N - 1 PROVE G[<<n, g[n]>>] = g[n] \o ss[n + 1]
      <4>1. n \in Nat /\ n < N /\ g[n] \in R
        <5>1. n \in 0 .. N
          BY <1>1
        <5> HIDE DEF R, G
        <5>2. g[n] \in R
          BY <3>1, <5>1
        <5> QED BY <1>1, <5>2, SMTT(30)
      <4> QED BY <4>1
    <3> QED BY <3>1, <3>2
  <2> DEFINE f == [i \in 1 .. N |-> g[i]]
  <2>3. f = Flat(f)
    <3>1. ASSUME NEW i \in 1 .. N PROVE g[i] = (IF i = 1 THEN ss[i] ELSE f[i - 1] \o ss[i])
      <4>1. i - 1 \in 0 .. N - 1 /\ i - 1 + 1 = i
        BY <1>1
      <4>2. g[i] = g[i - 1] \o ss[i]
        BY <2>2, <4>1
      <4>3. CASE i = 1
        BY <1>1, <2>2, <4>2, <4>3
      <4>4. CASE i # 1
        <5>1. f[i - 1] = g[i - 1]
          BY <4>4, <4>1, <1>1
        <5> QED BY <4>2, <4>4, <5>1
      <4> QED BY <4>3, <4>4
    <3> QED BY <3>1
  <2> DEFINE h == CHOOSE h : h = Flat(h)
  <2>4. h = Flat(h)
    <3> HIDE DEF f, Flat
    <3> QED BY <2>3
  <2>5. Miter!FlattenSeq(ss) = h[N]
    BY <1>4 DEF Miter!FlattenSeq
  <2> HIDE DEF h
  <2>6. h[1] = ss[1] /\ \A n \in 1 .. N - 1 : h[n + 1] = h[n] \o ss[n + 1]
    <3>1. ASSUME NEW n \in 1 .. N - 1 PROVE h[n + 1] = h[n] \o ss[n + 1]
      <4>1. n + 1 \in 1 .. N /\ n + 1 # 1 /\ n + 1 - 1 = n
        BY <1>1
      <4>2. PICK k : k = n + 1
        OBVIOUS
      <4>3. Flat(h)[k] = h[k - 1] \o ss[k]
        BY <4>1, <4>2
      <4>4. k - 1 = n
        BY <4>1, <4>2
      <4>5. Flat(h)[n + 1] = h[n] \o ss[n + 1]
        BY <4>2, <4>3, <4>4, Zenon
      <4> HIDE DEF Flat
      <4> QED BY <2>4, <4>5
    <3>2. h[1] = ss[1]
      <4>1. Flat(h)[1] = ss[1]
        BY <1>1, <1>4
      <4> HIDE DEF Flat
      <4> QED BY <2>4, <4>1
    <3> QED BY <3>1, <3>2
  <2> DEFINE Up(n) == /\ h[n] \in R
                      /\ Miter!Members(h[n]) = UNION {Miter!Members(ss[i]) : i \in 1 .. n}
             K == {n \in Nat : n \in 1 .. N => Up(n)}
  <2>7. 0 \in K
    OBVIOUS
  <2>8. ASSUME NEW n \in Nat, n \in K PROVE n + 1 \in K
    <3>1. SUFFICES ASSUME n + 1 \in 1 .. N PROVE Up(n + 1)
      OBVIOUS
    <3>2. CASE n = 0
      <4>1. h[1] = ss[1] /\ ss[1] \in R /\ 1 .. 1 = {1}
        BY <2>6, <1>1, <1>4
      <4>2. Miter!Members(ss[1]) = UNION {Miter!Members(ss[i]) : i \in 1 .. 1}
        BY <4>1, Zenon
      <4>3. n + 1 = 1
        BY <3>2
      <4> HIDE DEF R
      <4> QED BY <4>1, <4>2, <4>3
    <3>3. CASE n # 0
      <4>1. n \in 1 .. N - 1 /\ n \in 1 .. N /\ n + 1 \in 1 .. N
        BY <3>1, <3>3, <1>1
      <4>2. h[n + 1] = h[n] \o ss[n + 1] /\ h[n] \in R /\ ss[n + 1] \in R /\ Up(n)
        BY <1>1, <2>6, <2>8, <4>1
      <4>3. h[n + 1] \in R
        BY <4>2
      <4>4. Miter!Members(h[n + 1]) = Miter!Members(h[n]) \cup Miter!Members(ss[n + 1])
        <5> HIDE DEF R
        <5>1. h[n] \in Seq(T) /\ ss[n + 1] \in Seq(T)
          BY <4>2 DEF R
        <5> QED BY <4>2, <5>1, ConcatMembers
      <4>6. UNION {Miter!Members(ss[i]) : i \in 1 .. n + 1}
              = (UNION {Miter!Members(ss[i]) : i \in 1 .. n}) \cup Miter!Members(ss[n + 1])
        BY OneMore
      <4>7. Miter!Members(h[n]) = UNION {Miter!Members(ss[i]) : i \in 1 .. n}
        BY <4>2
      <4> HIDE DEF R
      <4> QED BY <4>3, <4>4, <4>6, <4>7
    <3> QED BY <3>2, <3>3
  <2>9. N \in K
    <3> HIDE DEF K
    <3>1. Nat \subseteq K
      BY <2>7, <2>8, SetInduction
    <3> QED BY <3>1, <1>1
  <2>10. Up(N)
    BY <2>9, <1>1, <1>4
  <2> QED BY <2>5, <2>10, <1>1
<1> QED BY <1>3, <1>4
--------------------------------------------------------------------------------
(* The harness.                                                              *)

\* A function on 1..n is a sequence.
LEMMA SequenceIs ==
  ASSUME NEW S, NEW s, IsSequence(s), NEW f, f \in [DOMAIN s -> S]
  PROVE  f \in Seq(S) /\ DOMAIN f = DOMAIN s /\ DOMAIN s = 1 .. Len(s) /\ Len(s) \in Nat /\ Len(f) = Len(s)
<1>1. DOMAIN s = 1 .. Len(s) /\ Len(s) \in Nat
  BY DEF IsSequence
<1> QED BY <1>1

\* What the harness does about one bit of a child's port, in the order it does.
NamesAt(i, j, b) == nets.aliases[nets.cells[i][j].bits[b]]
CutAt(i, j, b) ==
  IF nets.cells[i][j].input THEN <<[op |-> "tap", at |-> <<i, j, b>>, wire |-> NamesAt(i, j, b)[1]]>>
  ELSE [n \in DOMAIN NamesAt(i, j, b) |-> [op |-> "drive", at |-> <<i, j, b>>, wire |-> NamesAt(i, j, b)[n]]]
Places == UNION {UNION {{<<i, j, b>> : b \in DOMAIN nets.cells[i][j].bits} : j \in DOMAIN nets.cells[i]} :
                   i \in DOMAIN nets.cells}
Cuts == UNION {Miter!Members(CutAt(p[1], p[2], p[3])) : p \in Places}

LEMMA CutIsSequence ==
  ASSUME nets \in Nets, NEW i \in DOMAIN nets.cells, NEW j \in DOMAIN nets.cells[i],
         NEW b \in DOMAIN nets.cells[i][j].bits
  PROVE  /\ CutAt(i, j, b) \in Seq(Cuts)
         /\ <<i, j, b>> \in Places
         /\ IsSequence(NamesAt(i, j, b)) /\ nets.cells[i][j].bits[b] \in DOMAIN nets.aliases
<1>1. <<i, j, b>> \in Places
  BY DEF Places
<1>2. Miter!Members(CutAt(i, j, b)) \subseteq Cuts
  <2>1. CutAt(i, j, b) = CutAt(<<i, j, b>>[1], <<i, j, b>>[2], <<i, j, b>>[3])
    OBVIOUS
  <2> QED BY <1>1, <2>1, Zenon DEF Cuts
<1>3. nets.cells[i][j].bits[b] \in DOMAIN nets.aliases
  BY NetsAssumption DEF Miter!Members
<1>4. IsSequence(NamesAt(i, j, b))
  BY <1>3, NetsAssumption DEF NamesAt
<1>5. CutAt(i, j, b) \in Seq(Cuts)
  <2>1. CASE nets.cells[i][j].input
    <3>1. PICK x : CutAt(i, j, b) = <<x>>
      BY <2>1 DEF CutAt
    <3>2. x \in Cuts
      BY <1>2, <3>1 DEF Miter!Members
    <3> QED BY <3>1, <3>2
  <2>2. CASE ~nets.cells[i][j].input
    <3> DEFINE f == CutAt(i, j, b)
    <3>1. f = [n \in DOMAIN NamesAt(i, j, b) |-> [op |-> "drive", at |-> <<i, j, b>>, wire |-> NamesAt(i, j, b)[n]]]
      BY <2>2 DEF CutAt
    <3>2. f \in [DOMAIN NamesAt(i, j, b) -> Cuts]
      BY <3>1, <1>2 DEF Miter!Members
    <3> HIDE DEF f
    <3>3. f \in Seq(Cuts)
      BY <1>4, <3>2, SequenceIs
    <3> QED BY <3>3 DEF f
  <2> QED BY <2>1, <2>2
<1> QED BY <1>1, <1>3, <1>4, <1>5

\* The cuts of one child, and of all.
LEMMA ConnectsMembers ==
  ASSUME nets \in Nets, NEW i \in DOMAIN nets.cells
  PROVE  /\ Miter!Connects(i) \in Seq(Cuts)
         /\ \A j \in DOMAIN nets.cells[i] : \A b \in DOMAIN nets.cells[i][j].bits :
              Miter!Members(CutAt(i, j, b)) \subseteq Miter!Members(Miter!Connects(i))
<1> DEFINE Cut(j) == [b \in DOMAIN nets.cells[i][j].bits |-> CutAt(i, j, b)]
           All == [j \in DOMAIN nets.cells[i] |-> Miter!FlattenSeq(Cut(j))]
<1>1. Miter!Connects(i) = Miter!FlattenSeq(All)
  BY DEF Miter!Connects, CutAt, NamesAt
<1>2. IsSequence(nets.cells[i]) /\ \A j \in DOMAIN nets.cells[i] : IsSequence(nets.cells[i][j].bits)
  BY NetsAssumption
<1>3. ASSUME NEW j \in DOMAIN nets.cells[i]
      PROVE  /\ Miter!FlattenSeq(Cut(j)) \in Seq(Cuts)
             /\ \A b \in DOMAIN nets.cells[i][j].bits :
                  Miter!Members(CutAt(i, j, b)) \subseteq Miter!Members(Miter!FlattenSeq(Cut(j)))
  <2>1. Cut(j) \in [DOMAIN nets.cells[i][j].bits -> Seq(Cuts)]
    BY CutIsSequence
  <2>2. \A b \in DOMAIN nets.cells[i][j].bits : Cut(j)[b] = CutAt(i, j, b)
    OBVIOUS
  <2> HIDE DEF Cut
  <2>3. Cut(j) \in Seq(Seq(Cuts)) /\ DOMAIN Cut(j) = DOMAIN nets.cells[i][j].bits
    BY <1>2, <2>1, SequenceIs
  <2>4. /\ Miter!FlattenSeq(Cut(j)) \in Seq(Cuts)
        /\ Miter!Members(Miter!FlattenSeq(Cut(j))) = UNION {Miter!Members(Cut(j)[b]) : b \in DOMAIN Cut(j)}
    BY <2>3, FlattenMembers
  <2> QED BY <2>2, <2>3, <2>4
<1>4. All \in [DOMAIN nets.cells[i] -> Seq(Cuts)] /\ \A j \in DOMAIN nets.cells[i] : All[j] = Miter!FlattenSeq(Cut(j))
  <2> HIDE DEF Cut
  <2> QED BY <1>3
<1> HIDE DEF All, Cut
<1>5. All \in Seq(Seq(Cuts)) /\ DOMAIN All = DOMAIN nets.cells[i]
  BY <1>2, <1>4, SequenceIs
<1>6. /\ Miter!FlattenSeq(All) \in Seq(Cuts)
      /\ Miter!Members(Miter!FlattenSeq(All)) = UNION {Miter!Members(All[j]) : j \in DOMAIN All}
  BY <1>5, FlattenMembers
<1> QED BY <1>1, <1>3, <1>4, <1>5, <1>6

\* Deletes come first, then exactly the cuts.
LEMMA HarnessIs ==
  ASSUME nets \in Nets
  PROVE  LET D == Len(nets.cells) IN
         /\ D \in Nat /\ DOMAIN nets.cells = 1 .. D
         /\ Len(Miter!Harness) \in Nat /\ DOMAIN Miter!Harness = 1 .. Len(Miter!Harness) /\ D <= Len(Miter!Harness)
         /\ \A k \in 1 .. D : Miter!Harness[k].op = "delete" /\ Miter!Harness[k].at[1] = k
         /\ \A k \in D + 1 .. Len(Miter!Harness) : Miter!Harness[k] \in Cuts
         /\ \A c \in Cuts : \E k \in D + 1 .. Len(Miter!Harness) : Miter!Harness[k] = c
         /\ \E S : Miter!Harness \in Seq(S)
<1> DEFINE D == Len(nets.cells)
           All == [i \in DOMAIN nets.cells |-> Miter!Connects(i)]
           B == Miter!FlattenSeq(All)
           A == Miter!Deletes
<1>1. D \in Nat /\ DOMAIN nets.cells = 1 .. D /\ IsSequence(nets.cells)
  BY NetsAssumption DEF IsSequence
<1>2. Miter!Harness = A \o B
  BY DEF Miter!Harness
<1>3. All \in [DOMAIN nets.cells -> Seq(Cuts)]
  BY ConnectsMembers
<1>4. B \in Seq(Cuts) /\ Miter!Members(B) = UNION {Miter!Members(Miter!Connects(i)) : i \in DOMAIN nets.cells}
  <2>1. \A i \in DOMAIN nets.cells : All[i] = Miter!Connects(i)
    OBVIOUS
  <2> HIDE DEF All
  <2>2. All \in Seq(Seq(Cuts)) /\ DOMAIN All = DOMAIN nets.cells
    BY <1>1, <1>3, SequenceIs
  <2>3. B \in Seq(Cuts) /\ Miter!Members(B) = UNION {Miter!Members(All[i]) : i \in DOMAIN All}
    BY <2>2, FlattenMembers
  <2>4. {Miter!Members(All[i]) : i \in DOMAIN All} = {Miter!Members(Miter!Connects(i)) : i \in DOMAIN nets.cells}
    BY <2>1, <2>2
  <2> QED BY <2>3, <2>4
<1>5. A = [k \in 1 .. D |-> [op |-> "delete", at |-> <<k>>, wire |-> ""]]
  BY <1>1 DEF Miter!Deletes
<1> DEFINE S == Cuts \cup {A[k] : k \in 1 .. D}
<1>6. A \in Seq(S) /\ B \in Seq(S) /\ Len(A) = D
  <2>1. A \in [1 .. D -> S]
    BY <1>5
  <2>2. \A x \in Cuts : x \in S
    OBVIOUS
  <2> HIDE DEF A, B, S
  <2> QED BY <1>1, <1>4, <2>1, <2>2
<1>7. /\ A \o B \in Seq(S) /\ Len(A \o B) = D + Len(B) /\ Len(B) \in Nat
      /\ \A k \in 1 .. D : (A \o B)[k] = A[k]
      /\ \A k \in D + 1 .. D + Len(B) : (A \o B)[k] = B[k - D]
      /\ \A k \in 1 .. Len(B) : (A \o B)[D + k] = B[k]
  <2> HIDE DEF A, B, S, D
  <2> QED BY <1>1, <1>6
<1>8. \A k \in D + 1 .. D + Len(B) : B[k - D] \in Cuts
  <2>1. SUFFICES ASSUME NEW k \in D + 1 .. D + Len(B) PROVE B[k - D] \in Cuts
    OBVIOUS
  <2> HIDE DEF B, A, D
  <2>2. k - D \in 1 .. Len(B)
    BY <1>1, <1>7
  <2> QED BY <1>4, <2>2
<1>9. ASSUME NEW c \in Cuts PROVE \E k \in D + 1 .. D + Len(B) : (A \o B)[k] = c
  <2>1. PICK p \in Places : c \in Miter!Members(CutAt(p[1], p[2], p[3]))
    BY DEF Cuts
  <2>2. p[1] \in DOMAIN nets.cells /\ p[2] \in DOMAIN nets.cells[p[1]] /\ p[3] \in DOMAIN nets.cells[p[1]][p[2]].bits
    BY DEF Places
  <2>3. c \in Miter!Members(Miter!Connects(p[1]))
    BY <2>1, <2>2, ConnectsMembers
  <2>4. c \in Miter!Members(B)
    <3> HIDE DEF B
    <3> QED BY <1>4, <2>2, <2>3
  <2> HIDE DEF A, B, D
  <2>5. PICK k \in 1 .. Len(B) : c = B[k]
    BY <1>4, <2>4 DEF Miter!Members
  <2>6. D + k \in D + 1 .. D + Len(B) /\ (A \o B)[D + k] = c
    BY <1>1, <1>7, <2>5
  <2> QED BY <2>6
<1>10. \A k \in 1 .. D : A[k].op = "delete" /\ A[k].at[1] = k
  BY <1>5
<1> HIDE DEF A, B, S, D
<1>11. Len(Miter!Harness) = D + Len(B) /\ Miter!Harness = A \o B /\ Miter!Harness \in Seq(S)
  BY <1>2, <1>7
<1>12. DOMAIN Miter!Harness = 1 .. Len(Miter!Harness)
  BY <1>11
<1>13. \A k \in 1 .. D : Miter!Harness[k].op = "delete" /\ Miter!Harness[k].at[1] = k
  BY <1>7, <1>10, <1>11
<1>14. \A k \in D + 1 .. Len(Miter!Harness) : Miter!Harness[k] \in Cuts
  BY <1>7, <1>8, <1>11
<1>15. \A c \in Cuts : \E k \in D + 1 .. Len(Miter!Harness) : Miter!Harness[k] = c
  BY <1>9, <1>11
<1>16. D <= Len(Miter!Harness) /\ Len(Miter!Harness) \in Nat
  BY <1>1, <1>7, <1>11
<1> QED BY <1>1, <1>11, <1>12, <1>13, <1>14, <1>15, <1>16, Zenon DEF D

\* A wire names one bit.
LEMMA BitOfWire ==
  ASSUME nets \in Nets, NEW bit \in DOMAIN nets.aliases, NEW w \in Miter!Members(nets.aliases[bit])
  PROVE  w \in Miter!Wires /\ Miter!BitOf(w) = bit
<1>1. w \in Miter!Wires
  BY DEF Miter!Wires
<1>2. \A other \in DOMAIN nets.aliases : w \in Miter!Members(nets.aliases[other]) => other = bit
  BY NetsAssumption
<1> QED BY <1>1, <1>2 DEF Miter!BitOf

\* A cut is of one bit of one port.
LEMMA CutIs ==
  ASSUME nets \in Nets, NEW c \in Cuts
  PROVE  \E i \in DOMAIN nets.cells : \E j \in DOMAIN nets.cells[i] : \E b \in DOMAIN nets.cells[i][j].bits :
           /\ c.at = <<i, j, b>>
           /\ \/ c.op = "tap" /\ nets.cells[i][j].input /\ c.wire = NamesAt(i, j, b)[1]
              \/ c.op = "drive" /\ ~nets.cells[i][j].input /\ c.wire \in Miter!Members(NamesAt(i, j, b))
<1>1. PICK p \in Places : c \in Miter!Members(CutAt(p[1], p[2], p[3]))
  BY DEF Cuts
<1>2. \E i \in DOMAIN nets.cells : \E j \in DOMAIN nets.cells[i] : \E b \in DOMAIN nets.cells[i][j].bits : p = <<i, j, b>>
  BY DEF Places
<1>6. PICK i \in DOMAIN nets.cells : \E j \in DOMAIN nets.cells[i] : \E b \in DOMAIN nets.cells[i][j].bits : p = <<i, j, b>>
  BY <1>2
<1>7. PICK j \in DOMAIN nets.cells[i] : \E b \in DOMAIN nets.cells[i][j].bits : p = <<i, j, b>>
  BY <1>6
<1>8. PICK b \in DOMAIN nets.cells[i][j].bits : p = <<i, j, b>>
  BY <1>7
<1>3. c \in Miter!Members(CutAt(i, j, b))
  BY <1>1, <1>8
<1>4. CASE nets.cells[i][j].input
  <2>1. c = [op |-> "tap", at |-> <<i, j, b>>, wire |-> NamesAt(i, j, b)[1]]
    BY <1>3, <1>4 DEF Miter!Members, CutAt
  <2> QED BY <1>4, <2>1
<1>5. CASE ~nets.cells[i][j].input
  <2>1. PICK n \in DOMAIN NamesAt(i, j, b) : c = [op |-> "drive", at |-> <<i, j, b>>, wire |-> NamesAt(i, j, b)[n]]
    BY <1>3, <1>5 DEF Miter!Members, CutAt
  <2> QED BY <1>5, <2>1 DEF Miter!Members
<1> QED BY <1>4, <1>5

\* An output bit is driven in all its names, an input bit is tapped.
LEMMA CutsAre ==
  ASSUME nets \in Nets, NEW i \in DOMAIN nets.cells, NEW j \in DOMAIN nets.cells[i],
         NEW b \in DOMAIN nets.cells[i][j].bits
  PROVE  /\ nets.cells[i][j].input =>
              [op |-> "tap", at |-> <<i, j, b>>, wire |-> NamesAt(i, j, b)[1]] \in Cuts
         /\ ~nets.cells[i][j].input => \A w \in Miter!Members(NamesAt(i, j, b)) :
              [op |-> "drive", at |-> <<i, j, b>>, wire |-> w] \in Cuts
<1>1. Miter!Members(CutAt(i, j, b)) \subseteq Cuts
  <2>1. <<i, j, b>> \in Places
    BY DEF Places
  <2>2. CutAt(i, j, b) = CutAt(<<i, j, b>>[1], <<i, j, b>>[2], <<i, j, b>>[3])
    OBVIOUS
  <2> QED BY <2>1, <2>2, Zenon DEF Cuts
<1>2. CASE nets.cells[i][j].input
  BY <1>1, <1>2 DEF CutAt, Miter!Members
<1>3. CASE ~nets.cells[i][j].input
  BY <1>1, <1>3 DEF CutAt, Miter!Members
<1> QED BY <1>2, <1>3

\* The bits of a child's outputs are at its places.
LEMMA OutputPlace ==
  ASSUME nets \in Nets, NEW i \in DOMAIN nets.cells
  PROVE  /\ \A bit \in Miter!Outputs(i) : \E j \in DOMAIN nets.cells[i] : \E b \in DOMAIN nets.cells[i][j].bits :
              ~nets.cells[i][j].input /\ nets.cells[i][j].bits[b] = bit
         /\ \A j \in DOMAIN nets.cells[i] : \A b \in DOMAIN nets.cells[i][j].bits :
              ~nets.cells[i][j].input => nets.cells[i][j].bits[b] \in Miter!Outputs(i)
<1>1. ASSUME NEW j \in DOMAIN nets.cells[i], NEW b \in DOMAIN nets.cells[i][j].bits, ~nets.cells[i][j].input
      PROVE  nets.cells[i][j].bits[b] \in Miter!Outputs(i)
  <2>1. nets.cells[i][j] \in {p \in Miter!Members(nets.cells[i]) : ~p.input}
    BY <1>1 DEF Miter!Members
  <2>2. nets.cells[i][j].bits[b] \in Miter!Members(nets.cells[i][j].bits)
    BY DEF Miter!Members
  <2> QED BY <2>1, <2>2 DEF Miter!Outputs
<1>2. ASSUME NEW bit \in Miter!Outputs(i)
      PROVE  \E j \in DOMAIN nets.cells[i] : \E b \in DOMAIN nets.cells[i][j].bits :
               ~nets.cells[i][j].input /\ nets.cells[i][j].bits[b] = bit
  <2>1. PICK port \in Miter!Members(nets.cells[i]) : ~port.input /\ bit \in Miter!Members(port.bits)
    BY DEF Miter!Outputs
  <2>2. PICK j \in DOMAIN nets.cells[i] : port = nets.cells[i][j]
    BY <2>1 DEF Miter!Members
  <2>3. PICK b \in DOMAIN port.bits : bit = port.bits[b]
    BY <2>1 DEF Miter!Members
  <2> QED BY <2>1, <2>2, <2>3
<1> QED BY <1>1, <1>2

\* Two drives of one wire are of one bit of one port.
LEMMA SameDriver ==
  ASSUME nets \in Nets, NEW c \in Cuts, NEW d \in Cuts, c.op = "drive", d.op = "drive", c.wire = d.wire
  PROVE  c.at = d.at /\ c.wire \in Miter!Wires /\ \E i \in DOMAIN nets.cells : Miter!BitOf(c.wire) \in Miter!Outputs(i)
<1>7. PICK i \in DOMAIN nets.cells : \E j \in DOMAIN nets.cells[i] : \E b \in DOMAIN nets.cells[i][j].bits :
         c.at = <<i, j, b>> /\ ~nets.cells[i][j].input /\ c.wire \in Miter!Members(NamesAt(i, j, b))
  BY CutIs
<1>8. PICK j \in DOMAIN nets.cells[i] : \E b \in DOMAIN nets.cells[i][j].bits :
         c.at = <<i, j, b>> /\ ~nets.cells[i][j].input /\ c.wire \in Miter!Members(NamesAt(i, j, b))
  BY <1>7
<1>1. PICK b \in DOMAIN nets.cells[i][j].bits :
         c.at = <<i, j, b>> /\ ~nets.cells[i][j].input /\ c.wire \in Miter!Members(NamesAt(i, j, b))
  BY <1>8
<1>10. PICK x \in DOMAIN nets.cells : \E y \in DOMAIN nets.cells[x] : \E z \in DOMAIN nets.cells[x][y].bits :
         d.at = <<x, y, z>> /\ ~nets.cells[x][y].input /\ d.wire \in Miter!Members(NamesAt(x, y, z))
  BY CutIs
<1>11. PICK y \in DOMAIN nets.cells[x] : \E z \in DOMAIN nets.cells[x][y].bits :
         d.at = <<x, y, z>> /\ ~nets.cells[x][y].input /\ d.wire \in Miter!Members(NamesAt(x, y, z))
  BY <1>10
<1>2. PICK z \in DOMAIN nets.cells[x][y].bits :
         d.at = <<x, y, z>> /\ ~nets.cells[x][y].input /\ d.wire \in Miter!Members(NamesAt(x, y, z))
  BY <1>11
<1>3. nets.cells[i][j].bits[b] \in DOMAIN nets.aliases /\ nets.cells[x][y].bits[z] \in DOMAIN nets.aliases
  BY CutIsSequence
<1>4. /\ Miter!BitOf(c.wire) = nets.cells[i][j].bits[b] /\ c.wire \in Miter!Wires
      /\ Miter!BitOf(d.wire) = nets.cells[x][y].bits[z]
  BY <1>1, <1>2, <1>3, BitOfWire DEF NamesAt
<1>5. nets.cells[i][j].bits[b] = nets.cells[x][y].bits[z]
  BY <1>4
<1>6. <<i, j, b>> = <<x, y, z>>
  BY <1>1, <1>2, <1>5, NetsAssumption
<1> QED BY <1>1, <1>2, <1>4, <1>6, OutputPlace

\* The harness has been executed up to command n.
Executed(n) ==
  /\ n \in 0 .. Len(Miter!Harness)
  /\ todo = SubSeq(Miter!Harness, n + 1, Len(Miter!Harness))
  /\ DOMAIN driver = Miter!Wires
  /\ \A w \in Miter!Wires :
       /\ (\A i \in DOMAIN nets.cells : Miter!BitOf(w) \notin Miter!Outputs(i)) => driver[w] = Miter!Logic
       /\ n <= Len(nets.cells) => driver[w][1] # "contract"
  /\ \A k \in 1 .. n : Miter!Harness[k].op = "drive" =>
       driver[Miter!Harness[k].wire] = <<"contract", Miter!Harness[k].at>>
  /\ \A k \in 1 .. n : Miter!Harness[k].op = "tap" =>
       <<Miter!Harness[k].at, Miter!Harness[k].wire>> \in Miter!Members(taps)
AllNamed == \A i \in DOMAIN nets.cells : \A bit \in Miter!Bits(nets.cells[i]) : nets.aliases[bit] # <<>>
CutsInv ==
  part = "miter" =>
    /\ nets \in Nets
    /\ \E S : taps \in Seq(S)
    /\ (relation # None /\ ~miter.flatten) => AllNamed /\ \E n : Executed(n)

\* The harness depends on the nets alone.
LEMMA SameNets ==
  ASSUME nets' = nets
  PROVE  /\ Miter!Harness' = Miter!Harness
         /\ Miter!Wires' = Miter!Wires
         /\ \A w : Miter!BitOf(w)' = Miter!BitOf(w)
         /\ \A i : Miter!Outputs(i)' = Miter!Outputs(i)
<1>1. Miter!Deletes' = Miter!Deletes
  BY DEF Miter!Deletes
<1>2. Miter!Harness' = Miter!Harness
  BY <1>1 DEF Miter!Harness, Miter!Connects
<1>3. Miter!Wires' = Miter!Wires
  BY DEF Miter!Wires
<1>4. \A w : Miter!BitOf(w)' = Miter!BitOf(w)
  BY DEF Miter!BitOf
<1>5. \A i : Miter!Outputs(i)' = Miter!Outputs(i)
  BY DEF Miter!Outputs
<1> QED BY <1>2, <1>3, <1>4, <1>5

\* Executing the harness starts from the drivers of the netlist.
LEMMA HarnessBegins ==
  ASSUME nets \in Nets, Miter!Relate, ~miter.flatten
  PROVE  Executed(0)'
<1>1. /\ nets' = nets /\ todo' = Miter!Harness
      /\ driver' = [w \in Miter!Wires |->
           IF \E i \in DOMAIN nets.cells : Miter!BitOf(w) \in Miter!Outputs(i)
           THEN <<"cell", CHOOSE i \in DOMAIN nets.cells : Miter!BitOf(w) \in Miter!Outputs(i)>>
           ELSE Miter!Logic]
  BY DEF Miter!Relate
<1>2. Miter!Harness' = Miter!Harness /\ Miter!Wires' = Miter!Wires
      /\ \A i : Miter!BitOf(i)' = Miter!BitOf(i) /\ Miter!Outputs(i)' = Miter!Outputs(i)
  <2>1. nets' = nets
    BY <1>1
  <2> QED BY <2>1, SameNets
<1>3. Len(Miter!Harness) \in Nat /\ \E S : Miter!Harness \in Seq(S)
  BY HarnessIs
<1>4. Miter!Harness = SubSeq(Miter!Harness, 0 + 1, Len(Miter!Harness))
  BY <1>3
<1>5. ASSUME NEW w \in Miter!Wires
      PROVE  /\ driver'[w][1] # "contract"
             /\ (\A i \in DOMAIN nets.cells : Miter!BitOf(w) \notin Miter!Outputs(i)) => driver'[w] = Miter!Logic
  <2>1. CASE \E i \in DOMAIN nets.cells : Miter!BitOf(w) \in Miter!Outputs(i)
    <3>1. driver'[w] = <<"cell", CHOOSE i \in DOMAIN nets.cells : Miter!BitOf(w) \in Miter!Outputs(i)>>
      BY <1>1, <2>1
    <3> QED BY <2>1, <3>1
  <2>2. CASE ~\E i \in DOMAIN nets.cells : Miter!BitOf(w) \in Miter!Outputs(i)
    <3>1. driver'[w] = Miter!Logic
      BY <1>1, <2>2
    <3> QED BY <3>1 DEF Miter!Logic
  <2> QED BY <2>1, <2>2
<1>6. DOMAIN driver' = Miter!Wires
  BY <1>1
<1> QED BY <1>1, <1>2, <1>3, <1>4, <1>5, <1>6 DEF Executed

\* The next command of the harness.
LEMMA NextCommand ==
  ASSUME nets \in Nets, NEW n, Executed(n), todo # <<>>
  PROVE  /\ n \in 0 .. Len(Miter!Harness) - 1 /\ n \in Nat
         /\ Head(todo) = Miter!Harness[n + 1]
         /\ Tail(todo) = SubSeq(Miter!Harness, n + 1 + 1, Len(Miter!Harness))
<1>1. Len(Miter!Harness) \in Nat /\ \E S : Miter!Harness \in Seq(S)
  BY HarnessIs
<1>2. n \in 0 .. Len(Miter!Harness) /\ todo = SubSeq(Miter!Harness, n + 1, Len(Miter!Harness))
  BY DEF Executed
<1> DEFINE H == Miter!Harness
<1>3. PICK S : H \in Seq(S)
  BY <1>1
<1> HIDE DEF H
<1>4. n # Len(H)
  <2>1. SUFFICES ASSUME n = Len(H) PROVE FALSE
    OBVIOUS
  <2>2. SubSeq(H, Len(H) + 1, Len(H)) = <<>>
    BY <1>3
  <2> QED BY <1>2, <2>1, <2>2 DEF H
<1>5. n \in Nat /\ Len(H) \in Nat /\ n < Len(H)
  BY <1>1, <1>2, <1>4 DEF H
<1>6. Head(SubSeq(H, n + 1, Len(H))) = H[n + 1]
  BY <1>3, <1>5
<1>7. Tail(SubSeq(H, n + 1, Len(H))) = SubSeq(H, n + 1 + 1, Len(H))
  BY <1>3, <1>5
<1> QED BY <1>2, <1>5, <1>6, <1>7 DEF H

\* A command leaves the harness executed one further.
LEMMA CommandKeeps ==
  ASSUME nets \in Nets, NEW n, Executed(n), NEW S, taps \in Seq(S), Miter!Command
  PROVE  Executed(n + 1)' /\ \E U : taps' \in Seq(U)
<1> DEFINE H == Miter!Harness
           D == Len(nets.cells)
           c == H[n + 1]
<1>1. /\ n \in 0 .. Len(H) - 1 /\ n \in Nat /\ Head(todo) = c
      /\ todo' = SubSeq(H, n + 1 + 1, Len(H)) /\ UNCHANGED <<miter, relation, nets>>
  BY NextCommand DEF Miter!Command
<1>2. H' = H /\ Miter!Wires' = Miter!Wires /\ D' = D
  <2>1. nets' = nets
    BY <1>1
  <2>2. Miter!Deletes' = Miter!Deletes
    BY <2>1 DEF Miter!Deletes
  <2>3. Miter!Harness' = Miter!Harness
    BY <2>1, <2>2 DEF Miter!Harness, Miter!Connects
  <2>4. Miter!Wires' = Miter!Wires
    BY <2>1 DEF Miter!Wires
  <2> QED BY <2>1, <2>3, <2>4
<1>3. /\ D \in Nat /\ DOMAIN nets.cells = 1 .. D /\ Len(H) \in Nat /\ DOMAIN H = 1 .. Len(H) /\ D <= Len(H)
      /\ \A k \in 1 .. D : H[k].op = "delete" /\ H[k].at[1] = k
      /\ \A k \in D + 1 .. Len(H) : H[k] \in Cuts
  BY HarnessIs
<1>10. D \in Nat /\ Len(H) \in Nat /\ D <= Len(H)
  BY <1>3
<1>11. \A k \in 1 .. D : H[k].op = "delete" /\ H[k].at[1] = k
  BY <1>3
<1>12. \A k \in D + 1 .. Len(H) : H[k] \in Cuts
  BY <1>3
<1>9. n \in Nat /\ n + 1 \in 1 .. Len(H) /\ n + 1 \in 0 .. Len(H)
  <2>1. Len(H) \in Nat
    BY <1>3
  <2>2. n \in 0 .. Len(H) - 1
    BY <1>1
  <2> HIDE DEF H
  <2> QED BY <2>1, <2>2
<1>4. /\ DOMAIN driver = Miter!Wires
      /\ \A w \in Miter!Wires :
           /\ (\A i \in DOMAIN nets.cells : Miter!BitOf(w) \notin Miter!Outputs(i)) => driver[w] = Miter!Logic
           /\ n <= D => driver[w][1] # "contract"
      /\ \A k \in 1 .. n : H[k].op = "drive" => driver[H[k].wire] = <<"contract", H[k].at>>
      /\ \A k \in 1 .. n : H[k].op = "tap" => <<H[k].at, H[k].wire>> \in Miter!Members(taps)
  BY DEF Executed
<1>5. SUFFICES
        /\ DOMAIN driver' = Miter!Wires
        /\ \A w \in Miter!Wires :
             /\ (\A i \in DOMAIN nets.cells : Miter!BitOf(w) \notin Miter!Outputs(i)) => driver'[w] = Miter!Logic
             /\ n + 1 <= D => driver'[w][1] # "contract"
        /\ \A k \in 1 .. n + 1 : H[k].op = "drive" => driver'[H[k].wire] = <<"contract", H[k].at>>
        /\ \A k \in 1 .. n + 1 : H[k].op = "tap" => <<H[k].at, H[k].wire>> \in Miter!Members(taps')
        /\ \E U : taps' \in Seq(U)
  <2>1. n + 1 \in 0 .. Len(H)
    BY <1>9
  <2>2. \A i : Miter!BitOf(i)' = Miter!BitOf(i) /\ Miter!Outputs(i)' = Miter!Outputs(i)
    BY <1>1 DEF Miter!BitOf, Miter!Outputs
  <2> HIDE DEF H, D
  <2> QED BY <1>1, <1>2, <2>1, <2>2 DEF Executed, H, D
<1>6. 1 .. n + 1 = (1 .. n) \cup {n + 1}
  BY <1>1
<1>7. CASE n + 1 <= D
  <2>1. c.op = "delete" /\ c.at[1] = n + 1
    <3> HIDE DEF H, D
    <3>1. n + 1 \in 1 .. D
      BY <1>7, <1>9, <1>10
    <3> QED BY <1>11, <3>1
  <2>2. c.op = "delete"
    BY <2>1
  <2>3. /\ driver' = [w \in Miter!Wires |-> IF Miter!Cleared(w, c.at[1]) THEN Miter!Nothing ELSE driver[w]]
        /\ taps' = taps
    BY <1>1, <2>2 DEF Miter!Command
  <2>4. \A k \in 1 .. n + 1 : H[k].op = "delete"
    <3> HIDE DEF H, D
    <3>1. \A k \in 1 .. n + 1 : k \in 1 .. D
      BY <1>7, <1>9, <1>10
    <3> QED BY <1>11, <3>1
  <2>5. c.at[1] = n + 1 /\ \A w \in Miter!Wires : driver[w][1] # "contract"
    <3> HIDE DEF H, D
    <3>1. n <= D
      BY <1>7, <1>9, <1>10
    <3> QED BY <1>4, <2>1, <3>1
  <2>6. ASSUME NEW w \in Miter!Wires PROVE driver'[w] \in {Miter!Nothing, driver[w]}
    BY <2>3
  <2>7. ASSUME NEW w \in Miter!Wires, \A i \in DOMAIN nets.cells : Miter!BitOf(w) \notin Miter!Outputs(i)
        PROVE  driver'[w] = Miter!Logic
    <3>1. driver[w] = Miter!Logic /\ driver[w][1] # "contract"
      BY <1>4, <2>5, <2>7
    <3>2. driver[w] # <<"cell", n + 1>>
      BY <3>1 DEF Miter!Logic
    <3>3. ~Miter!Cleared(w, c.at[1])
      BY <2>5, <3>1, <3>2 DEF Miter!Cleared
    <3> QED BY <2>3, <3>1, <3>3
  <2>8. ASSUME NEW w \in Miter!Wires PROVE driver'[w][1] # "contract"
    BY <2>5, <2>6 DEF Miter!Nothing
  <2> HIDE DEF H, D
  <2> QED BY <2>3, <2>4, <2>7, <2>8
<1>8. CASE ~(n + 1 <= D)
  <2>1. c \in Cuts /\ \A k \in 1 .. n : H[k].op = "drive" => H[k] \in Cuts
    <3> HIDE DEF H, D
    <3>1. ASSUME NEW k \in 1 .. n, H[k].op = "drive" PROVE H[k] \in Cuts
      <4>1. ASSUME k \in 1 .. D PROVE FALSE
        <5>1. H[k].op = "delete"
          BY <1>11, <4>1
        <5> QED BY <3>1, <5>1
      <4>2. k \in D + 1 .. Len(H)
        BY <1>9, <1>10, <4>1
      <4> QED BY <1>12, <4>2
    <3>2. n + 1 \in D + 1 .. Len(H)
      BY <1>8, <1>9, <1>10
    <3> QED BY <1>12, <3>1, <3>2
  <2>2. c.op = "tap" \/ c.op = "drive"
    BY <2>1, CutIs
  <2> HIDE DEF H
  <2>3. CASE c.op = "drive"
    <3>1. driver' = [driver EXCEPT ![c.wire] = <<"contract", c.at>>] /\ taps' = taps
      BY <1>1, <2>3 DEF Miter!Command
    <3>2. c.wire \in Miter!Wires /\ \E i \in DOMAIN nets.cells : Miter!BitOf(c.wire) \in Miter!Outputs(i)
      BY <2>1, <2>3, SameDriver
    <3>3. DOMAIN driver' = Miter!Wires /\ driver'[c.wire] = <<"contract", c.at>>
          /\ \A w \in Miter!Wires : w # c.wire => driver'[w] = driver[w]
      BY <1>4, <3>1, <3>2
    <3>4. ASSUME NEW k \in 1 .. n + 1, H[k].op = "drive" PROVE driver'[H[k].wire] = <<"contract", H[k].at>>
      <4>1. CASE k = n + 1
        BY <3>3, <4>1
      <4>2. CASE k # n + 1
        <5>1. k \in 1 .. n /\ H[k] \in Cuts
          BY <1>6, <2>1, <3>4, <4>2
        <5>2. CASE H[k].wire = c.wire
          <6>1. H[k].at = c.at
            BY <2>1, <2>3, <3>4, <5>1, <5>2, SameDriver
          <6> QED BY <3>3, <5>2, <6>1
        <5>3. CASE H[k].wire # c.wire
          <6>1. H[k].wire \in Miter!Wires
            BY <3>4, <5>1, SameDriver
          <6> QED BY <1>4, <3>3, <3>4, <5>1, <5>3, <6>1
        <5> QED BY <5>2, <5>3
      <4> QED BY <4>1, <4>2
    <3>5. \A k \in 1 .. n + 1 : H[k].op = "tap" => <<H[k].at, H[k].wire>> \in Miter!Members(taps')
      <4>1. H[n + 1].op # "tap"
        BY <2>3
      <4> QED BY <1>4, <1>6, <3>1, <4>1
    <3>6. ASSUME NEW w \in Miter!Wires, \A i \in DOMAIN nets.cells : Miter!BitOf(w) \notin Miter!Outputs(i)
          PROVE  driver'[w] = Miter!Logic
      <4>1. w # c.wire
        BY <3>2, <3>6
      <4> QED BY <1>4, <3>3, <3>6, <4>1
    <3> QED BY <1>8, <3>1, <3>3, <3>4, <3>5, <3>6
  <2>4. CASE c.op = "tap"
    <3>1. taps' = Append(taps, <<c.at, c.wire>>) /\ driver' = driver
      BY <1>1, <2>4 DEF Miter!Command
    <3> DEFINE x == <<c.at, c.wire>>
    <3>2. taps \in Seq(S \cup {x}) /\ x \in S \cup {x}
      <4> HIDE DEF x
      <4> QED OBVIOUS
    <3>3. taps' \in Seq(S \cup {x}) /\ Miter!Members(taps') = Miter!Members(taps) \cup {x}
      <4> HIDE DEF x
      <4>1. <<x>> \in Seq(S \cup {x}) /\ Append(taps, x) = taps \o <<x>> /\ Miter!Members(<<x>>) = {x}
        BY <3>2 DEF Miter!Members
      <4>2. taps \o <<x>> \in Seq(S \cup {x}) /\ Miter!Members(taps \o <<x>>) = Miter!Members(taps) \cup {x}
        <5>1. taps \in Seq(S \cup {x}) /\ <<x>> \in Seq(S \cup {x})
          BY <3>2, <4>1
        <5>2. taps \o <<x>> \in Seq(S \cup {x})
          BY <5>1
        <5>3. Miter!Members(taps \o <<x>>) = Miter!Members(taps) \cup Miter!Members(<<x>>)
          <6> DEFINE y == <<x>>
                     U == S \cup {x}
          <6>1. taps \in Seq(U) /\ y \in Seq(U)
            BY <5>1
          <6> HIDE DEF y, U
          <6>2. Miter!Members(taps \o y) = Miter!Members(taps) \cup Miter!Members(y)
            BY <6>1, ConcatMembers
          <6> QED BY <6>2 DEF y
        <5> QED BY <4>1, <5>2, <5>3
      <4>3. taps' = Append(taps, x)
        BY <3>1 DEF x
      <4> QED BY <4>1, <4>2, <4>3
    <3>4. \A k \in 1 .. n + 1 : H[k].op = "tap" => <<H[k].at, H[k].wire>> \in Miter!Members(taps')
      BY <1>4, <1>6, <3>3
    <3>5. \A k \in 1 .. n + 1 : H[k].op = "drive" => driver'[H[k].wire] = <<"contract", H[k].at>>
      <4>1. H[n + 1].op # "drive"
        BY <2>4
      <4> QED BY <1>4, <1>6, <3>1, <4>1
    <3> QED BY <1>4, <1>8, <3>1, <3>3, <3>4, <3>5
  <2> QED BY <2>2, <2>3, <2>4
<1> QED BY <1>7, <1>8

\* A miter step keeps what the harness has done so far.
LEMMA CutsStep == CutsInv /\ [KianvNext]_allVars => CutsInv'
<1> SUFFICES ASSUME CutsInv, [KianvNext]_allVars PROVE CutsInv'
  OBVIOUS
<1>1. CASE UNCHANGED <<part, ofMiter>>
  <2>1. UNCHANGED <<part, miter, relation, nets, todo, driver, taps>>
    BY <1>1 DEF ofMiter
  <2>2. Miter!Harness' = Miter!Harness /\ Miter!Wires' = Miter!Wires
        /\ \A i : Miter!BitOf(i)' = Miter!BitOf(i) /\ Miter!Outputs(i)' = Miter!Outputs(i)
    <3>1. Miter!Deletes' = Miter!Deletes
      BY <2>1 DEF Miter!Deletes
    <3> QED BY <2>1, <3>1 DEF Miter!Harness, Miter!Connects, Miter!Wires, Miter!BitOf, Miter!Outputs
  <2>3. \A n : Executed(n) => Executed(n)'
    BY <2>1, <2>2 DEF Executed
  <2> QED BY <2>1, <2>3 DEF CutsInv, AllNamed
<1>2. CASE MiterStep /\ ~UNCHANGED <<part, ofMiter>>
  <2>1. part = "miter" /\ part' = "miter" /\ nets \in Nets
    BY <1>2 DEF MiterStep, CutsInv
  <2>2. PICK S : taps \in Seq(S)
    BY <2>1 DEF CutsInv
  <2>3. CASE Miter!Relate
    <3>1. nets' = nets /\ miter' = miter /\ taps' = taps
      BY <2>3 DEF Miter!Relate
    <3>2. ASSUME relation' # None, ~miter'.flatten PROVE AllNamed' /\ Executed(0)'
      <4>1. \A i \in DOMAIN nets.cells : \A bit \in Miter!Bits(nets.cells[i]) : nets.aliases[bit] # <<>>
        BY <2>3, <3>1, <3>2 DEF Miter!Relate
      <4>2. AllNamed'
        BY <3>1, <4>1 DEF AllNamed
      <4> QED BY <2>1, <2>3, <3>1, <3>2, <4>2, HarnessBegins
    <3> QED BY <2>1, <2>2, <3>1, <3>2 DEF CutsInv
  <2>4. CASE Miter!Command
    <3>1. nets' = nets /\ miter' = miter /\ relation' = relation
      BY <2>4 DEF Miter!Command
    <3>2. \E U : taps' \in Seq(U)
      <4>1. CASE taps' = taps
        BY <2>2, <4>1
      <4>2. CASE taps' # taps
        <5>1. PICK x : taps' = Append(taps, x)
          BY <2>4, <4>2 DEF Miter!Command
        <5>2. taps \in Seq(S \cup {x}) /\ x \in S \cup {x}
          BY <2>2
        <5>3. Append(taps, x) \in Seq(S \cup {x})
          BY <5>2
        <5> QED BY <5>1, <5>3
      <4> QED BY <4>1, <4>2
    <3>3. ASSUME relation # None, ~miter.flatten PROVE AllNamed' /\ \E n : Executed(n)'
      <4>1. AllNamed /\ \E n : Executed(n)
        BY <2>1, <3>3 DEF CutsInv
      <4>2. PICK n : Executed(n)
        BY <4>1
      <4>3. Executed(n + 1)'
        BY <2>1, <2>2, <2>4, <4>2, CommandKeeps
      <4> QED BY <3>1, <4>1, <4>3 DEF AllNamed
    <3> QED BY <2>1, <3>1, <3>2, <3>3 DEF CutsInv
  <2> QED BY <1>2, <2>3, <2>4 DEF MiterStep, Miter!Next
<1> QED BY <1>1, <1>2 DEF KianvNext, RunnerStep, HandoffStep, allVars

LEMMA CutsInit == KianvInit => CutsInv
<1> SUFFICES ASSUME KianvInit, part = "miter" PROVE CutsInv
  BY DEF CutsInv
<1>1. nets \in Nets /\ taps = <<>> /\ relation = None
  BY DEF KianvInit, Miter!Init
<1>2. <<>> \in Seq({})
  OBVIOUS
<1> QED BY <1>1, <1>2 DEF CutsInv

\* When no command is left, all have been executed.
LEMMA CutsKeep == CutsInv /\ part = "miter" => Miter!CutsKeepContracts
<1> SUFFICES ASSUME CutsInv, part = "miter", relation # None, ~miter.flatten, todo = <<>>,
                    NEW i \in DOMAIN nets.cells, NEW j \in DOMAIN nets.cells[i],
                    NEW b \in DOMAIN nets.cells[i][j].bits
             PROVE  LET bit == nets.cells[i][j].bits[b]
                    IN IF nets.cells[i][j].input
                       THEN \E n \in DOMAIN taps : taps[n][1] = <<i, j, b>> /\ Miter!BitOf(taps[n][2]) = bit
                                                     /\ driver[taps[n][2]][1] \in {"logic", "contract"}
                       ELSE \A w \in Miter!Members(nets.aliases[bit]) : driver[w] = <<"contract", <<i, j, b>>>>
  BY DEF Miter!CutsKeepContracts
<1> DEFINE bit == nets.cells[i][j].bits[b]
           H == Miter!Harness
<1>1. nets \in Nets /\ AllNamed
  BY DEF CutsInv
<1>2. PICK n : Executed(n)
  BY DEF CutsInv
<1>3. Len(H) \in Nat /\ \E S : H \in Seq(S)
  BY <1>1, HarnessIs
<1>4. n = Len(H)
  <2>1. n \in 0 .. Len(H) /\ SubSeq(H, n + 1, Len(H)) = <<>>
    BY <1>2 DEF Executed
  <2>2. PICK S : H \in Seq(S)
    BY <1>3
  <2> HIDE DEF H
  <2>3. Len(H) \in Nat
    BY <1>3
  <2>4. Len(SubSeq(H, n + 1, Len(H))) = Len(H) - n
    BY <2>1, <2>2, <2>3
  <2>5. Len(H) - n = 0
    BY <2>1, <2>4
  <2> QED BY <2>1, <2>3, <2>5
<1>5. \A c \in Cuts : \E k \in 1 .. n : H[k] = c
  <2>1. SUFFICES ASSUME NEW c \in Cuts PROVE \E k \in 1 .. n : H[k] = c
    OBVIOUS
  <2>2. PICK k \in Len(nets.cells) + 1 .. Len(H) : H[k] = c
    BY <1>1, HarnessIs
  <2>3. Len(nets.cells) \in Nat
    BY <1>1, HarnessIs
  <2>4. k \in 1 .. n
    BY <1>3, <1>4, <2>3
  <2> QED BY <2>2, <2>4
<1>6. ASSUME NEW x \in DOMAIN nets.cells, NEW y \in DOMAIN nets.cells[x], NEW z \in DOMAIN nets.cells[x][y].bits,
             ~nets.cells[x][y].input, NEW w \in Miter!Members(nets.aliases[nets.cells[x][y].bits[z]])
      PROVE  driver[w] = <<"contract", <<x, y, z>>>>
  <2> DEFINE c == [op |-> "drive", at |-> <<x, y, z>>, wire |-> w]
  <2>1. c \in Cuts
    BY <1>1, <1>6, CutsAre DEF NamesAt
  <2>2. PICK k \in 1 .. n : H[k] = c
    BY <1>5, <2>1
  <2>3. H[k].op = "drive" /\ H[k].wire = w /\ H[k].at = <<x, y, z>>
    BY <2>2
  <2> QED BY <1>2, <2>3 DEF Executed
<1>7. bit \in DOMAIN nets.aliases /\ IsSequence(nets.aliases[bit])
  BY <1>1, CutIsSequence DEF NamesAt
<1>8. CASE nets.cells[i][j].input
  <2> DEFINE w == nets.aliases[bit][1]
             c == [op |-> "tap", at |-> <<i, j, b>>, wire |-> w]
  <2>1. nets.aliases[bit] # <<>>
    <3>1. bit \in Miter!Bits(nets.cells[i])
      BY DEF Miter!Bits, Miter!Members
    <3> QED BY <1>1, <3>1 DEF AllNamed
  <2>2. w \in Miter!Members(nets.aliases[bit])
    <3> DEFINE names == nets.aliases[bit]
    <3>1. names # <<>> /\ DOMAIN names = 1 .. Len(names) /\ Len(names) \in Nat
      BY <1>7, <2>1 DEF IsSequence
    <3>2. 1 \in DOMAIN names
      <4>1. names = [m \in 1 .. Len(names) |-> names[m]]
        BY <1>7 DEF IsSequence
      <4> HIDE DEF names
      <4>2. Len(names) # 0
        <5>1. SUFFICES ASSUME Len(names) = 0 PROVE FALSE
          OBVIOUS
        <5>2. names = [m \in {} |-> names[m]] /\ 1 .. 0 = {}
          BY <4>1, <5>1
        <5> QED BY <3>1, <5>2
      <4> QED BY <3>1, <4>2
    <3> QED BY <3>2 DEF Miter!Members
  <2>3. w \in Miter!Wires /\ Miter!BitOf(w) = bit
    BY <1>1, <1>7, <2>2, BitOfWire
  <2>4. c \in Cuts
    BY <1>1, <1>8, CutsAre DEF NamesAt
  <2>5. PICK k \in 1 .. n : H[k] = c
    BY <1>5, <2>4
  <2>6. H[k].op = "tap" /\ H[k].wire = w /\ H[k].at = <<i, j, b>>
    BY <2>5
  <2>7. <<<<i, j, b>>, w>> \in Miter!Members(taps)
    BY <1>2, <2>6 DEF Executed
  <2>8. driver[w][1] \in {"logic", "contract"}
    <3>1. CASE \E x \in DOMAIN nets.cells : bit \in Miter!Outputs(x)
      <4>1. PICK x \in DOMAIN nets.cells : bit \in Miter!Outputs(x)
        BY <3>1
      <4>2. PICK y \in DOMAIN nets.cells[x] : \E z \in DOMAIN nets.cells[x][y].bits :
               ~nets.cells[x][y].input /\ nets.cells[x][y].bits[z] = bit
        BY <1>1, <4>1, OutputPlace
      <4>3. PICK z \in DOMAIN nets.cells[x][y].bits : ~nets.cells[x][y].input /\ nets.cells[x][y].bits[z] = bit
        BY <4>2
      <4>4. driver[w] = <<"contract", <<x, y, z>>>>
        BY <1>6, <2>2, <4>3
      <4> HIDE DEF w
      <4> QED BY <4>4
    <3>2. CASE \A x \in DOMAIN nets.cells : bit \notin Miter!Outputs(x)
      <4>1. driver[w] = Miter!Logic
        BY <1>2, <2>3, <3>2 DEF Executed
      <4> HIDE DEF w
      <4> QED BY <4>1 DEF Miter!Logic
    <3> QED BY <3>1, <3>2
  <2>9. PICK m \in DOMAIN taps : taps[m] = <<<<i, j, b>>, w>>
    BY <2>7 DEF Miter!Members
  <2>10. taps[m][1] = <<i, j, b>> /\ taps[m][2] = w
    BY <2>9
  <2> HIDE DEF w
  <2> QED BY <1>8, <2>3, <2>8, <2>10
<1>9. CASE ~nets.cells[i][j].input
  BY <1>6, <1>9
<1> QED BY <1>8, <1>9
--------------------------------------------------------------------------------
(* The walk of a package.                                                    *)

\* What the miters are known to be.
Ranked(P, M, rank) ==
  /\ Ranks(rank, DOMAIN P, M)
  /\ \A n \in DOMAIN P : \A c \in Miter!Present(P, P[n].children) : rank[c.of] < rank[n]
  /\ \A n \in DOMAIN P : IsSequence(P[n].children)

ChildNames(P) == UNION {{c.name : c \in Miter!Members(P[n].children)} : n \in DOMAIN P}
Visits(P) == [path : Seq(ChildNames(P)), of : DOMAIN P]
ChildVisits(P, children, walk) ==
  [c \in DOMAIN children |->
     IF children[c].of \in DOMAIN P THEN Miter!Under(children[c].name, walk[children[c].of]) ELSE <<>>]

Seen(visits) == {<<v.path, v.of>> : v \in Miter!Members(visits)}
Moved(name, seen) == {<<<<name>> \o i[1], i[2]>> : i \in seen}

\* The modules under a child, with its name before their paths.
LEMMA UnderIs ==
  ASSUME NEW P, NEW name \in ChildNames(P), NEW visits \in Seq(Visits(P))
  PROVE  /\ Miter!Under(name, visits) \in Seq(Visits(P))
         /\ Seen(Miter!Under(name, visits)) = Moved(name, Seen(visits))
<1> DEFINE U == Miter!Under(name, visits)
           V == Visits(P)
           N == ChildNames(P)
<1>1. U = [k \in 1 .. Len(visits) |-> [path |-> <<name>> \o visits[k].path, of |-> visits[k].of]]
  BY DEF Miter!Under
<1>2. ASSUME NEW k \in 1 .. Len(visits)
      PROVE  [path |-> <<name>> \o visits[k].path, of |-> visits[k].of] \in V
  <2>1. visits[k] \in V
    <3>1. visits \in Seq(V)
      OBVIOUS
    <3> HIDE DEF V
    <3> QED BY <3>1
  <2>2. visits[k].path \in Seq(N) /\ visits[k].of \in DOMAIN P
    BY <2>1 DEF Visits
  <2>3. <<name>> \o visits[k].path \in Seq(N)
    BY <2>2
  <2> QED BY <2>2, <2>3 DEF Visits
<1>3. U \in Seq(V)
  <2>1. Len(visits) \in Nat
    OBVIOUS
  <2> HIDE DEF V, U
  <2> QED BY <1>1, <1>2, <2>1
<1>4. \A k \in DOMAIN visits : U[k].path = <<name>> \o visits[k].path /\ U[k].of = visits[k].of
  BY <1>1
<1>5. DOMAIN U = DOMAIN visits
  BY <1>1
<1> HIDE DEF U
<1>6. ASSUME NEW x \in Seen(U) PROVE x \in Moved(name, Seen(visits))
  <2>1. PICK k \in DOMAIN visits : x = <<U[k].path, U[k].of>>
    BY <1>5 DEF Miter!Members, Seen
  <2> DEFINE i == <<visits[k].path, visits[k].of>>
  <2>2. i \in Seen(visits)
    BY DEF Miter!Members, Seen
  <2>3. x = <<<<name>> \o i[1], i[2]>>
    BY <1>4, <2>1
  <2> HIDE DEF i
  <2> QED BY <2>2, <2>3 DEF Moved
<1>7. ASSUME NEW x \in Moved(name, Seen(visits)) PROVE x \in Seen(U)
  <2>1. PICK i \in Seen(visits) : x = <<<<name>> \o i[1], i[2]>>
    BY DEF Moved
  <2>2. PICK k \in DOMAIN visits : i = <<visits[k].path, visits[k].of>>
    BY DEF Miter!Members, Seen
  <2>3. x = <<U[k].path, U[k].of>>
    BY <1>4, <2>1, <2>2
  <2> QED BY <1>5, <2>3 DEF Miter!Members, Seen
<1> QED BY <1>3, <1>6, <1>7 DEF U

\* The sequence that the walk flattens.
LEMMA ChildVisitsAre ==
  ASSUME NEW P, NEW n \in DOMAIN P, IsSequence(P[n].children), NEW walk,
         \A c \in Miter!Present(P, P[n].children) : walk[c.of] \in Seq(Visits(P))
  PROVE  /\ ChildVisits(P, P[n].children, walk) \in Seq(Seq(Visits(P)))
         /\ DOMAIN ChildVisits(P, P[n].children, walk) = DOMAIN P[n].children
<1> DEFINE C == P[n].children
           s == ChildVisits(P, C, walk)
<1>1. ASSUME NEW c \in DOMAIN C PROVE s[c] \in Seq(Visits(P))
  <2>1. s[c] = IF C[c].of \in DOMAIN P THEN Miter!Under(C[c].name, walk[C[c].of]) ELSE <<>>
    BY DEF ChildVisits
  <2>2. CASE C[c].of \in DOMAIN P
    <3>1. C[c] \in Miter!Members(C)
      BY DEF Miter!Members
    <3>2. C[c] \in Miter!Present(P, C) /\ C[c].name \in ChildNames(P)
      BY <2>2, <3>1 DEF Miter!Present, ChildNames
    <3>3. walk[C[c].of] \in Seq(Visits(P))
      BY <3>2
    <3> QED BY <2>1, <2>2, <3>2, <3>3, UnderIs
  <2>3. CASE C[c].of \notin DOMAIN P
    BY <2>1, <2>3
  <2> QED BY <2>2, <2>3
<1>2. DOMAIN s = DOMAIN C /\ s = [c \in DOMAIN C |-> s[c]]
  BY DEF ChildVisits
<1> HIDE DEF s
<1>3. s \in [DOMAIN C -> Seq(Visits(P))]
  BY <1>1, <1>2
<1>4. s \in Seq(Seq(Visits(P)))
  BY <1>3, SequenceIs
<1> QED BY <1>2, <1>4 DEF s

\* The walk of a package whose hierarchy is not recursive: a module, then what
\* is under each of its children.
LEMMA WalkIs ==
  ASSUME NEW P, NEW M, NEW rank, Ranked(P, M, rank)
  PROVE  \A n \in DOMAIN P :
           /\ Miter!Walk(P, TRUE)[n]
                = <<[path |-> <<>>, of |-> n]>> \o Miter!FlattenSeq(ChildVisits(P, P[n].children, Miter!Walk(P, TRUE)))
           /\ Miter!Walk(P, TRUE)[n] \in Seq(Visits(P))
<1> DEFINE D == DOMAIN P
           R == Seq(Visits(P))
           One(n) == <<[path |-> <<>>, of |-> n]>>
           At(f, n) == One(n) \o Miter!FlattenSeq(ChildVisits(P, P[n].children, f))
           Body(f) == [n \in D |-> At(f, n)]
           F == [f \in [D -> R] |-> Body(f)]
           walk == CHOOSE w : w = Body(w)
<1>1. /\ Ranks(rank, D, M)
      /\ \A n \in D : IsSequence(P[n].children)
      /\ \A n \in D : \A c \in Miter!Present(P, P[n].children) : c.of \in D /\ rank[c.of] < rank[n]
  BY DEF Ranked, Miter!Present
<1>2. Miter!Walk(P, TRUE) = walk
  BY DEF Miter!Walk, ChildVisits
<1>3. \A n \in D : One(n) \in R
  <2>1. <<>> \in Seq(ChildNames(P))
    OBVIOUS
  <2>2. ASSUME NEW n \in D PROVE [path |-> <<>>, of |-> n] \in Visits(P)
    BY <2>1 DEF Visits
  <2>3. \A v \in Visits(P) : <<v>> \in Seq(Visits(P))
    OBVIOUS
  <2> QED BY <2>2, <2>3
<1>4. ASSUME NEW f, NEW n \in D, \A c \in Miter!Present(P, P[n].children) : f[c.of] \in R
      PROVE  At(f, n) \in R
  <2>1. ChildVisits(P, P[n].children, f) \in Seq(Seq(Visits(P)))
    BY <1>1, <1>4, ChildVisitsAre
  <2>2. Miter!FlattenSeq(ChildVisits(P, P[n].children, f)) \in Seq(Visits(P))
    BY <2>1, FlattenMembers
  <2>3. One(n) \in Seq(Visits(P))
    BY <1>3
  <2> HIDE DEF One
  <2> QED BY <2>2, <2>3, ConcatMembers
<1>5. ASSUME NEW f, NEW g, NEW n \in D, \A c \in Miter!Present(P, P[n].children) : f[c.of] = g[c.of]
      PROVE  At(f, n) = At(g, n)
  <2>1. ASSUME NEW c \in DOMAIN P[n].children, P[n].children[c].of \in D
        PROVE  f[P[n].children[c].of] = g[P[n].children[c].of]
    <3>1. P[n].children[c] \in Miter!Present(P, P[n].children)
      BY <2>1 DEF Miter!Present, Miter!Members
    <3> QED BY <1>5, <3>1
  <2>2. ChildVisits(P, P[n].children, f) = ChildVisits(P, P[n].children, g)
    BY <2>1 DEF ChildVisits
  <2> QED BY <2>2
<1>6. F \in [[D -> R] -> [D -> R]]
  <2>1. ASSUME NEW f \in [D -> R], NEW n \in D PROVE At(f, n) \in R
    <3>1. \A c \in Miter!Present(P, P[n].children) : f[c.of] \in R
      <4> HIDE DEF R
      <4> QED BY <1>1
    <3> HIDE DEF R, At
    <3> QED BY <1>4, <3>1
  <2> HIDE DEF R, At
  <2> QED BY <2>1
<1>7. ASSUME NEW f \in [D -> R], NEW g \in [D -> R], NEW n \in D,
             \A y \in D : rank[y] < rank[n] => f[y] = g[y]
      PROVE  F[f][n] = F[g][n]
  <2>1. \A c \in Miter!Present(P, P[n].children) : f[c.of] = g[c.of]
    BY <1>1, <1>7
  <2>2. At(f, n) = At(g, n)
    <3> HIDE DEF At
    <3> QED BY <1>5, <2>1
  <2>3. F[f][n] = At(f, n) /\ F[g][n] = At(g, n)
    <3> HIDE DEF At, R
    <3> QED OBVIOUS
  <2> QED BY <2>2, <2>3
<1>8. PICK f \in [D -> R] : f = F[f]
  <2>1. <<>> \in R
    OBVIOUS
  <2> HIDE DEF F, R, D
  <2>2. LocalTo(F, R, rank, D)
    BY <1>6, <1>7 DEF LocalTo
  <2> QED BY <1>1, <2>1, <2>2, RankRecursion
<1>9. f = Body(f)
  <2> HIDE DEF At, R
  <2> QED BY <1>8
<1>10. walk = Body(walk)
  <2> HIDE DEF Body
  <2> QED BY <1>9
<1> HIDE DEF walk
<1>11. \A n \in D : walk[n] = At(walk, n)
  <2>1. \A n \in D : Body(walk)[n] = At(walk, n)
    <3> HIDE DEF At
    <3> QED OBVIOUS
  <2> HIDE DEF Body, At
  <2> QED BY <1>10, <2>1
<1> DEFINE S == {n \in D : walk[n] \in R}
<1>12. ASSUME NEW n \in D, \A y \in D : rank[y] < rank[n] => y \in S PROVE n \in S
  <2>1. \A c \in Miter!Present(P, P[n].children) : walk[c.of] \in R
    <3> HIDE DEF R
    <3> QED BY <1>1, <1>12
  <2>2. At(walk, n) \in R
    <3> HIDE DEF At, R
    <3> QED BY <1>4, <2>1
  <2> HIDE DEF At, R
  <2> QED BY <1>11, <2>2
<1>13. D \subseteq S
  <2> HIDE DEF S, D
  <2>1. Inherited(S, rank, D)
    BY <1>12 DEF Inherited
  <2> QED BY <1>1, <2>1, RankInduction
<1>14. \A n \in D : walk[n] \in R
  BY <1>13
<1> QED BY <1>2, <1>11, <1>14

\* The instances below a module: itself, and those below each of its children.
LEMMA InstancesAre ==
  ASSUME NEW P, NEW M, NEW rank, Ranked(P, M, rank)
  PROVE  \A n \in DOMAIN P :
           Miter!Instances(P)[n]
             = {<<<<>>, n>>} \cup UNION {Moved(c.name, Miter!Instances(P)[c.of]) : c \in Miter!Present(P, P[n].children)}
<1> DEFINE D == DOMAIN P
           U == Seq(ChildNames(P)) \X D
           R == SUBSET U
           At(f, n) == {<<<<>>, n>>} \cup UNION {Moved(c.name, f[c.of]) : c \in Miter!Present(P, P[n].children)}
           Body(f) == [n \in D |-> At(f, n)]
           F == [f \in [D -> R] |-> Body(f)]
           under == CHOOSE w : w = Body(w)
<1>1. /\ Ranks(rank, D, M)
      /\ \A n \in D : \A c \in Miter!Present(P, P[n].children) : c.of \in D /\ rank[c.of] < rank[n]
  BY DEF Ranked, Miter!Present
<1>2. Miter!Instances(P) = under
  BY DEF Miter!Instances, Moved
<1>3. ASSUME NEW f, NEW n \in D, \A c \in Miter!Present(P, P[n].children) : f[c.of] \in R
      PROVE  At(f, n) \in R
  <2>1. <<<<>>, n>> \in U
    <3>1. <<>> \in Seq(ChildNames(P))
      OBVIOUS
    <3> QED BY <3>1
  <2>2. ASSUME NEW c \in Miter!Present(P, P[n].children), NEW i \in f[c.of]
        PROVE  <<<<c.name>> \o i[1], i[2]>> \in U
    <3>1. i[1] \in Seq(ChildNames(P)) /\ i[2] \in D
      BY <1>3
    <3>2. c.name \in ChildNames(P)
      BY DEF Miter!Present, ChildNames
    <3>3. <<c.name>> \o i[1] \in Seq(ChildNames(P))
      BY <3>1, <3>2
    <3> QED BY <3>1, <3>3
  <2>3. ASSUME NEW c \in Miter!Present(P, P[n].children) PROVE Moved(c.name, f[c.of]) \subseteq U
    BY <2>2 DEF Moved
  <2> HIDE DEF U
  <2> QED BY <2>1, <2>3
<1>4. ASSUME NEW f, NEW g, NEW n \in D, \A c \in Miter!Present(P, P[n].children) : f[c.of] = g[c.of]
      PROVE  At(f, n) = At(g, n)
  BY <1>4
<1>5. F \in [[D -> R] -> [D -> R]]
  <2>1. ASSUME NEW f \in [D -> R], NEW n \in D PROVE At(f, n) \in R
    <3>1. \A c \in Miter!Present(P, P[n].children) : f[c.of] \in R
      <4> HIDE DEF R
      <4> QED BY <1>1
    <3> HIDE DEF R, At
    <3> QED BY <1>3, <3>1
  <2> HIDE DEF R, At
  <2> QED BY <2>1
<1>6. ASSUME NEW f \in [D -> R], NEW g \in [D -> R], NEW n \in D,
             \A y \in D : rank[y] < rank[n] => f[y] = g[y]
      PROVE  F[f][n] = F[g][n]
  <2>1. \A c \in Miter!Present(P, P[n].children) : f[c.of] = g[c.of]
    BY <1>1, <1>6
  <2>2. At(f, n) = At(g, n)
    <3> HIDE DEF At
    <3> QED BY <1>4, <2>1
  <2>3. F[f][n] = At(f, n) /\ F[g][n] = At(g, n)
    <3> HIDE DEF At, R
    <3> QED OBVIOUS
  <2> QED BY <2>2, <2>3
<1>7. PICK f \in [D -> R] : f = F[f]
  <2>1. {} \in R
    OBVIOUS
  <2> HIDE DEF F, R, D
  <2>2. LocalTo(F, R, rank, D)
    BY <1>5, <1>6 DEF LocalTo
  <2> QED BY <1>1, <2>1, <2>2, RankRecursion
<1>8. f = Body(f)
  <2> HIDE DEF At, R
  <2> QED BY <1>7
<1>9. under = Body(under)
  <2> HIDE DEF Body
  <2> QED BY <1>8
<1> HIDE DEF under
<1>10. \A n \in D : under[n] = At(under, n)
  <2>1. \A n \in D : Body(under)[n] = At(under, n)
    <3> HIDE DEF At
    <3> QED OBVIOUS
  <2> HIDE DEF Body, At
  <2> QED BY <1>9, <2>1
<1> QED BY <1>2, <1>10

\* What a walk sees, from what its parts see.
LEMMA SeenTogether ==
  ASSUME NEW T, NEW a \in Seq(T), NEW ss \in Seq(Seq(T))
  PROVE  Seen(a \o Miter!FlattenSeq(ss)) = Seen(a) \cup UNION {Seen(ss[i]) : i \in DOMAIN ss}
<1> DEFINE b == Miter!FlattenSeq(ss)
<1>1. b \in Seq(T) /\ Miter!Members(b) = UNION {Miter!Members(ss[i]) : i \in DOMAIN ss}
  BY FlattenMembers
<1> HIDE DEF b
<1>2. Miter!Members(a \o b) = Miter!Members(a) \cup Miter!Members(b)
  BY <1>1, ConcatMembers
<1>3. ASSUME NEW x PROVE x \in Seen(a \o b) <=> x \in Seen(a) \/ \E i \in DOMAIN ss : x \in Seen(ss[i])
  <2>1. x \in Seen(a \o b) <=> \E v \in Miter!Members(a) \cup Miter!Members(b) : x = <<v.path, v.of>>
    BY <1>2 DEF Seen
  <2>2. \A v : v \in Miter!Members(b) <=> \E i \in DOMAIN ss : v \in Miter!Members(ss[i])
    BY <1>1
  <2>3. (\E v \in Miter!Members(b) : x = <<v.path, v.of>>)
          <=> \E i \in DOMAIN ss : \E v \in Miter!Members(ss[i]) : x = <<v.path, v.of>>
    BY <2>2
  <2> QED BY <2>1, <2>3 DEF Seen
<1> QED BY <1>3 DEF b

\* The walk meets every instance below a module.
LEMMA WalkSees ==
  ASSUME NEW P, NEW M, NEW rank, Ranked(P, M, rank)
  PROVE  \A n \in DOMAIN P : Seen(Miter!Walk(P, TRUE)[n]) = Miter!Instances(P)[n]
<1> DEFINE D == DOMAIN P
           W == Miter!Walk(P, TRUE)
           I == Miter!Instances(P)
           S == {n \in D : Seen(W[n]) = I[n]}
<1>1. /\ Ranks(rank, D, M)
      /\ \A n \in D : IsSequence(P[n].children)
      /\ \A n \in D : \A c \in Miter!Present(P, P[n].children) : c.of \in D /\ rank[c.of] < rank[n]
  BY DEF Ranked, Miter!Present
<1>2. ASSUME NEW n \in D, \A y \in D : rank[y] < rank[n] => y \in S PROVE n \in S
  <2> DEFINE C == P[n].children
             one == <<[path |-> <<>>, of |-> n]>>
             ss == ChildVisits(P, C, W)
  <2>1. W[n] = one \o Miter!FlattenSeq(ss)
    BY WalkIs
  <2>2. \A c \in Miter!Present(P, C) : W[c.of] \in Seq(Visits(P))
    BY <1>1, WalkIs
  <2>3. ss \in Seq(Seq(Visits(P))) /\ DOMAIN ss = DOMAIN C
    BY <1>1, <2>2, ChildVisitsAre
  <2>4. one \in Seq(Visits(P)) /\ Seen(one) = {<<<<>>, n>>}
    <3> DEFINE v == [path |-> <<>>, of |-> n]
    <3>1. v \in Visits(P) /\ v.path = <<>> /\ v.of = n
      BY DEF Visits
    <3>2. Miter!Members(one) = {v}
      BY DEF Miter!Members
    <3> HIDE DEF v
    <3>3. Seen(one) = {<<v.path, v.of>>}
      BY <3>2, Zenon DEF Seen
    <3>4. one \in Seq(Visits(P))
      BY <3>1 DEF v
    <3> HIDE DEF one
    <3> QED BY <3>1, <3>3, <3>4
  <2>5. Seen(W[n]) = Seen(one) \cup UNION {Seen(ss[i]) : i \in DOMAIN ss}
    <3> HIDE DEF one, ss, W
    <3> QED BY <2>1, <2>3, <2>4, SeenTogether
  <2>6. ASSUME NEW i \in DOMAIN C
        PROVE  Seen(ss[i]) = IF C[i].of \in D THEN Moved(C[i].name, I[C[i].of]) ELSE {}
    <3>1. ss[i] = IF C[i].of \in D THEN Miter!Under(C[i].name, W[C[i].of]) ELSE <<>>
      BY DEF ChildVisits
    <3>2. CASE C[i].of \in D
      <4>1. C[i] \in Miter!Members(C)
        BY DEF Miter!Members
      <4>2. C[i] \in Miter!Present(P, C) /\ C[i].name \in ChildNames(P)
        BY <3>2, <4>1 DEF Miter!Present, ChildNames
      <4>3. Seen(W[C[i].of]) = I[C[i].of]
        BY <1>1, <1>2, <4>2
      <4>4. W[C[i].of] \in Seq(Visits(P))
        BY <2>2, <4>2
      <4>5. Seen(Miter!Under(C[i].name, W[C[i].of])) = Moved(C[i].name, Seen(W[C[i].of]))
        BY <4>2, <4>4, UnderIs
      <4> QED BY <3>1, <3>2, <4>3, <4>5
    <3>3. CASE C[i].of \notin D
      <4>1. ss[i] = <<>>
        BY <3>1, <3>3
      <4>2. Miter!Members(<<>>) = {}
        BY DEF Miter!Members
      <4>3. Seen(<<>>) = {}
        BY <4>2 DEF Seen
      <4> QED BY <3>3, <4>1, <4>3
    <3> QED BY <3>2, <3>3
  <2>7. I[n] = {<<<<>>, n>>} \cup UNION {Moved(c.name, I[c.of]) : c \in Miter!Present(P, C)}
    BY InstancesAre
  <2>8. ASSUME NEW x
        PROVE  x \in UNION {Seen(ss[i]) : i \in DOMAIN ss}
                 <=> x \in UNION {Moved(c.name, I[c.of]) : c \in Miter!Present(P, C)}
    <3>1. x \in UNION {Seen(ss[i]) : i \in DOMAIN ss}
            <=> \E i \in DOMAIN C : C[i].of \in D /\ x \in Moved(C[i].name, I[C[i].of])
      <4> HIDE DEF ss, C, I, D
      <4> QED BY <2>3, <2>6
    <3>2. x \in UNION {Moved(c.name, I[c.of]) : c \in Miter!Present(P, C)}
            <=> \E c \in Miter!Present(P, C) : x \in Moved(c.name, I[c.of])
      OBVIOUS
    <3>3. \A c : c \in Miter!Present(P, C) <=> \E i \in DOMAIN C : c = C[i] /\ C[i].of \in D
      BY DEF Miter!Present, Miter!Members
    <3> HIDE DEF C, I, D, ss
    <3> QED BY <3>1, <3>2, <3>3
  <2> HIDE DEF ss, C, I, W, one
  <2> QED BY <2>4, <2>5, <2>7, <2>8
<1>3. D \subseteq S
  <2> HIDE DEF S, D
  <2>1. Inherited(S, rank, D)
    BY <1>2 DEF Inherited
  <2> QED BY <1>1, <2>1, RankInduction
<1> QED BY <1>3
--------------------------------------------------------------------------------
(* The pairs of one module.                                                  *)

WellFormed(module) ==
  /\ IsSequence(module.registers) /\ IsSequence(module.memories)
  /\ \A i \in DOMAIN module.memories : module.memories[i].size \in Nat /\ module.memories[i].width \in Nat

RegisterAt(module, path, r) ==
  [kind |-> "register", path |-> path, name |-> module.registers[r].name, group |-> 0, address |-> 0,
   offset |-> module.registers[r].offset, width |-> module.registers[r].width,
   body |-> Miter!Body(module, module.registers[r])]
WordAt(module, path, group, m, a) ==
  [kind |-> "memory", path |-> path, name |-> module.memories[m].name, group |-> group + m - 1, address |-> a - 1,
   offset |-> 0, width |-> module.memories[m].width, body |-> {0}]
OfRegisters(module, path) == {RegisterAt(module, path, r) : r \in DOMAIN module.registers}
OfMemories(module, path, group) ==
  UNION {{WordAt(module, path, group, m, a) : a \in 1 .. module.memories[m].size} : m \in DOMAIN module.memories}

LEMMA RegisterPairsAre ==
  ASSUME NEW module, WellFormed(module), NEW path
  PROVE  /\ Miter!RegisterPairs(module, path) \in Seq(OfRegisters(module, path))
         /\ Miter!Members(Miter!RegisterPairs(module, path)) = OfRegisters(module, path)
<1> DEFINE f == Miter!RegisterPairs(module, path)
<1>1. f = [r \in DOMAIN module.registers |-> RegisterAt(module, path, r)]
  BY DEF Miter!RegisterPairs, RegisterAt
<1>2. IsSequence(module.registers)
  BY DEF WellFormed
<1> HIDE DEF f
<1>3. f \in [DOMAIN module.registers -> OfRegisters(module, path)]
  BY <1>1 DEF OfRegisters
<1>4. f \in Seq(OfRegisters(module, path))
  BY <1>2, <1>3, SequenceIs
<1>5. Miter!Members(f) = OfRegisters(module, path)
  BY <1>1 DEF Miter!Members, OfRegisters
<1> QED BY <1>4, <1>5 DEF f

LEMMA MemoryPairsAre ==
  ASSUME NEW module, WellFormed(module), NEW path, NEW group
  PROVE  /\ Miter!MemoryPairs(module, path, group) \in Seq(OfMemories(module, path, group))
         /\ Miter!Members(Miter!MemoryPairs(module, path, group)) = OfMemories(module, path, group)
<1> DEFINE M == module.memories
           T == OfMemories(module, path, group)
           Of(m) == [a \in 1 .. M[m].size |-> WordAt(module, path, group, m, a)]
           ss == [m \in DOMAIN M |-> Of(m)]
<1>1. Miter!MemoryPairs(module, path, group) = Miter!FlattenSeq(ss)
  BY DEF Miter!MemoryPairs, WordAt
<1>2. IsSequence(M) /\ \A m \in DOMAIN M : M[m].size \in Nat
  BY DEF WellFormed
<1>3. ASSUME NEW m \in DOMAIN M
      PROVE  /\ Of(m) \in Seq(T)
             /\ Miter!Members(Of(m)) = {WordAt(module, path, group, m, a) : a \in 1 .. M[m].size}
  <2>1. \A a \in 1 .. M[m].size : WordAt(module, path, group, m, a) \in T
    BY DEF OfMemories
  <2> HIDE DEF T
  <2>2. Of(m) \in Seq(T)
    BY <1>2, <2>1
  <2>3. Miter!Members(Of(m)) = {WordAt(module, path, group, m, a) : a \in 1 .. M[m].size}
    BY DEF Miter!Members
  <2> QED BY <2>2, <2>3
<1>4. ss \in [DOMAIN M -> Seq(T)]
  <2> HIDE DEF Of, T
  <2> QED BY <1>3
<1>5. \A m \in DOMAIN M : ss[m] = Of(m)
  OBVIOUS
<1> HIDE DEF ss, Of, T
<1>6. ss \in Seq(Seq(T)) /\ DOMAIN ss = DOMAIN M
  BY <1>2, <1>4, SequenceIs
<1>7. /\ Miter!FlattenSeq(ss) \in Seq(T)
      /\ Miter!Members(Miter!FlattenSeq(ss)) = UNION {Miter!Members(ss[m]) : m \in DOMAIN ss}
  BY <1>6, FlattenMembers
<1>8. UNION {Miter!Members(ss[m]) : m \in DOMAIN ss} = T
  <2>1. {Miter!Members(ss[m]) : m \in DOMAIN ss}
          = {{WordAt(module, path, group, m, a) : a \in 1 .. M[m].size} : m \in DOMAIN M}
    <3>1. \A m \in DOMAIN M :
            Miter!Members(ss[m]) = {WordAt(module, path, group, m, a) : a \in 1 .. M[m].size}
      BY <1>3, <1>5
    <3>2. DOMAIN ss = DOMAIN M
      BY <1>6
    <3> QED BY <3>1, <3>2, ZenonT(30)
  <2> QED BY <2>1 DEF T, OfMemories
<1> QED BY <1>1, <1>7, <1>8 DEF T
--------------------------------------------------------------------------------
(* The pairs of all modules of a walk.                                       *)

ModuleAt(P, walk, n) == P[walk[n].of]
PairsAt(P, walk, n, group) ==
  OfRegisters(ModuleAt(P, walk, n), walk[n].path) \cup OfMemories(ModuleAt(P, walk, n), walk[n].path, group)
AllPairs(P, walk) == UNION {UNION {PairsAt(P, walk, n, group) : group \in Nat} : n \in 1 .. Len(walk)}
Tallies(P, walk) == [pairs : Seq(AllPairs(P, walk)), groups : Nat]
Tallied(P, walk, n, before) ==
  [pairs |-> before.pairs \o Miter!RegisterPairs(ModuleAt(P, walk, n), walk[n].path)
                          \o Miter!MemoryPairs(ModuleAt(P, walk, n), walk[n].path, before.groups),
   groups |-> before.groups + Len(ModuleAt(P, walk, n).memories)]
IsWalk(P, walk) ==
  /\ walk \in Seq(Visits(P))
  /\ \A n \in DOMAIN P : WellFormed(P[n])

\* One module more.
LEMMA TalliedIs ==
  ASSUME NEW P, NEW walk, IsWalk(P, walk), NEW n \in 1 .. Len(walk), NEW before \in Tallies(P, walk)
  PROVE  LET after == Tallied(P, walk, n, before) IN
         /\ after \in Tallies(P, walk)
         /\ after.groups = before.groups + Len(ModuleAt(P, walk, n).memories)
         /\ Len(ModuleAt(P, walk, n).memories) \in Nat
         /\ Miter!Members(after.pairs) = Miter!Members(before.pairs) \cup PairsAt(P, walk, n, before.groups)
<1> DEFINE X == AllPairs(P, walk)
           module == ModuleAt(P, walk, n)
           path == walk[n].path
           a == Miter!RegisterPairs(module, path)
           b == Miter!MemoryPairs(module, path, before.groups)
           after == Tallied(P, walk, n, before)
<1>1. WellFormed(module)
  <2>1. walk[n] \in Visits(P)
    BY DEF IsWalk
  <2>2. walk[n].of \in DOMAIN P
    BY <2>1 DEF Visits
  <2> QED BY <2>2 DEF IsWalk, ModuleAt
<1>2. before.pairs \in Seq(X) /\ before.groups \in Nat
  BY DEF Tallies
<1>3. PairsAt(P, walk, n, before.groups) \subseteq X
  <2>1. PairsAt(P, walk, n, before.groups) \in {PairsAt(P, walk, n, group) : group \in Nat}
    BY <1>2
  <2>2. UNION {PairsAt(P, walk, n, group) : group \in Nat}
          \in {UNION {PairsAt(P, walk, k, group) : group \in Nat} : k \in 1 .. Len(walk)}
    OBVIOUS
  <2> QED BY <2>1, <2>2, Zenon DEF AllPairs
<1>4. /\ a \in Seq(OfRegisters(module, path)) /\ Miter!Members(a) = OfRegisters(module, path)
      /\ b \in Seq(OfMemories(module, path, before.groups))
      /\ Miter!Members(b) = OfMemories(module, path, before.groups)
  BY <1>1, RegisterPairsAre, MemoryPairsAre
<1>5. OfRegisters(module, path) \subseteq X /\ OfMemories(module, path, before.groups) \subseteq X
  BY <1>3 DEF PairsAt
<1>6. a \in Seq(X) /\ b \in Seq(X)
  <2> HIDE DEF a, b, X, module, path
  <2> QED BY <1>4, <1>5
<1>7. Len(module.memories) \in Nat
  BY <1>1 DEF WellFormed, IsSequence
<1>8. after.pairs = before.pairs \o a \o b /\ after.groups = before.groups + Len(module.memories)
      /\ after = [pairs |-> before.pairs \o a \o b, groups |-> before.groups + Len(module.memories)]
  BY DEF Tallied
<1> HIDE DEF a, b, X, module, path, after
<1>9. before.pairs \o a \in Seq(X) /\ Miter!Members(before.pairs \o a) = Miter!Members(before.pairs) \cup Miter!Members(a)
  BY <1>2, <1>6, ConcatMembers
<1>10. /\ before.pairs \o a \o b \in Seq(X)
       /\ Miter!Members(before.pairs \o a \o b) = Miter!Members(before.pairs \o a) \cup Miter!Members(b)
  <2> DEFINE c == before.pairs \o a
  <2>1. c \in Seq(X)
    BY <1>9
  <2> HIDE DEF c
  <2>2. c \o b \in Seq(X) /\ Miter!Members(c \o b) = Miter!Members(c) \cup Miter!Members(b)
    BY <1>6, <2>1, ConcatMembers
  <2> QED BY <2>2 DEF c
<1>11. after \in Tallies(P, walk)
  <2>1. before.groups + Len(module.memories) \in Nat
    BY <1>2, <1>7
  <2> QED BY <1>8, <1>10, <2>1 DEF Tallies, X
<1>12. PairsAt(P, walk, n, before.groups) = Miter!Members(a) \cup Miter!Members(b)
  BY <1>4 DEF PairsAt, module, path
<1>13. Miter!Members(after.pairs) = Miter!Members(before.pairs) \cup PairsAt(P, walk, n, before.groups)
  BY <1>8, <1>9, <1>10, <1>12
<1> QED BY <1>7, <1>8, <1>11, <1>13 DEF after, module

\* The count of the pairs, module by module.
LEMMA VisitedIs ==
  ASSUME NEW P, NEW walk, IsWalk(P, walk)
  PROVE  /\ Miter!Visited(P, walk)[0] = [pairs |-> <<>>, groups |-> 0]
         /\ \A n \in 1 .. Len(walk) :
              Miter!Visited(P, walk)[n] = Tallied(P, walk, n, Miter!Visited(P, walk)[n - 1])
<1> DEFINE N == Len(walk)
           R == Tallies(P, walk)
           base == [pairs |-> <<>>, groups |-> 0]
           G == [p \in Nat \X R |-> IF p[1] < N THEN Tallied(P, walk, p[1] + 1, p[2]) ELSE p[2]]
           At(f, n) == IF n = 0 THEN base ELSE Tallied(P, walk, n, f[n - 1])
           Body(f) == [n \in 0 .. N |-> At(f, n)]
           visited == CHOOSE v : v = Body(v)
<1>1. N \in Nat
  BY DEF IsWalk
<1>2. Miter!Visited(P, walk) = visited
  BY DEF Miter!Visited, Tallied, ModuleAt
<1>3. base \in R
  BY DEF Tallies
<1>4. G \in [Nat \X R -> R]
  <2>1. ASSUME NEW n \in Nat, NEW r \in R PROVE (IF n < N THEN Tallied(P, walk, n + 1, r) ELSE r) \in R
    <3>1. CASE n < N
      <4>1. n + 1 \in 1 .. Len(walk)
        BY <1>1, <3>1
      <4> QED BY <3>1, <4>1, TalliedIs
    <3>2. CASE ~(n < N)
      BY <3>2
    <3> QED BY <3>1, <3>2
  <2> HIDE DEF R, N
  <2> QED BY <2>1
<1>5. PICK g : Iterates(g, R, base, G, N)
  <2> HIDE DEF R, G, N, base
  <2> QED BY <1>1, <1>3, <1>4, Recursion
<1>6. g \in [0 .. N -> R] /\ g[0] = base /\ \A n \in 0 .. N - 1 : g[n + 1] = Tallied(P, walk, n + 1, g[n])
  <2>1. g \in [0 .. N -> R] /\ g[0] = base /\ \A n \in 0 .. N - 1 : g[n + 1] = G[<<n, g[n]>>]
    <3> HIDE DEF R, G, N, base
    <3> QED BY <1>5 DEF Iterates
  <2>2. ASSUME NEW n \in 0 .. N - 1 PROVE G[<<n, g[n]>>] = Tallied(P, walk, n + 1, g[n])
    <3>1. n \in Nat /\ n < N /\ n \in 0 .. N
      BY <1>1
    <3>2. g[n] \in R
      <4> HIDE DEF R, G
      <4> QED BY <2>1, <3>1
    <3> HIDE DEF R, N
    <3> QED BY <3>1, <3>2
  <2> HIDE DEF G, R, base
  <2> QED BY <2>1, <2>2
<1>7. g = Body(g)
  <2>1. ASSUME NEW n \in 0 .. N PROVE g[n] = At(g, n)
    <3>1. CASE n = 0
      BY <1>6, <3>1
    <3>2. CASE n # 0
      <4>1. PICK k : k = n - 1
        OBVIOUS
      <4>2. k \in 0 .. N - 1 /\ k + 1 = n
        BY <1>1, <3>2, <4>1
      <4>3. g[n] = Tallied(P, walk, n, g[k])
        <5> HIDE DEF R, base, N
        <5> QED BY <1>6, <4>2
      <4> HIDE DEF base
      <4> QED BY <3>2, <4>1, <4>3
    <3> QED BY <3>1, <3>2
  <2> HIDE DEF At, R, base
  <2> QED BY <1>6, <2>1
<1>8. visited = Body(visited)
  <2> HIDE DEF Body
  <2> QED BY <1>7
<1> HIDE DEF visited
<1>9. \A n \in 0 .. N : visited[n] = At(visited, n)
  <2>1. \A n \in 0 .. N : Body(visited)[n] = At(visited, n)
    <3> HIDE DEF At
    <3> QED OBVIOUS
  <2> HIDE DEF Body, At
  <2> QED BY <1>8, <2>1
<1>10. visited[0] = base
  BY <1>1, <1>9
<1>11. ASSUME NEW n \in 1 .. N PROVE visited[n] = Tallied(P, walk, n, visited[n - 1])
  <2>1. n \in 0 .. N /\ n # 0
    BY <1>1
  <2> HIDE DEF base
  <2> QED BY <1>9, <2>1
<1> QED BY <1>2, <1>10, <1>11

GroupsBefore(P, walk, n) == Miter!Visited(P, walk)[n - 1].groups
PairsUpTo(P, walk, n) == UNION {PairsAt(P, walk, i, GroupsBefore(P, walk, i)) : i \in 1 .. n}

\* The count is of natural numbers, and the pairs are those of the modules.
LEMMA VisitedTallies ==
  ASSUME NEW P, NEW walk, IsWalk(P, walk)
  PROVE  /\ Len(walk) \in Nat
         /\ \A n \in 0 .. Len(walk) :
              /\ Miter!Visited(P, walk)[n] \in Tallies(P, walk)
              /\ Miter!Members(Miter!Visited(P, walk)[n].pairs) = PairsUpTo(P, walk, n)
<1> DEFINE N == Len(walk)
           V == Miter!Visited(P, walk)
           Holds(n) == V[n] \in Tallies(P, walk) /\ Miter!Members(V[n].pairs) = PairsUpTo(P, walk, n)
           S == {n \in Nat : n <= N => Holds(n)}
<1>1. N \in Nat
  BY DEF IsWalk
<1>2. V[0] = [pairs |-> <<>>, groups |-> 0]
      /\ \A n \in 1 .. N : V[n] = Tallied(P, walk, n, V[n - 1])
  BY VisitedIs
<1>3. 0 \in S
  <2>1. V[0] \in Tallies(P, walk) /\ V[0].pairs = <<>>
    BY <1>2 DEF Tallies
  <2>2. Miter!Members(<<>>) = {}
    BY DEF Miter!Members
  <2>3. PairsUpTo(P, walk, 0) = {}
    BY DEF PairsUpTo
  <2> HIDE DEF V
  <2>4. Holds(0)
    BY <2>1, <2>2, <2>3
  <2> QED BY <2>4
<1>4. ASSUME NEW n \in Nat, n \in S PROVE n + 1 \in S
  <2>1. SUFFICES ASSUME n + 1 <= N PROVE Holds(n + 1)
    OBVIOUS
  <2>2. Holds(n)
    BY <1>1, <1>4, <2>1
  <2>3. PICK k : k = n + 1
    OBVIOUS
  <2>4. k \in 1 .. N /\ k - 1 = n
    BY <1>1, <2>1, <2>3
  <2>5. V[k] = Tallied(P, walk, k, V[n])
    <3> HIDE DEF V, N
    <3> QED BY <1>2, <2>4
  <2> HIDE DEF V
  <2>6. /\ V[k] \in Tallies(P, walk)
        /\ Miter!Members(V[k].pairs) = Miter!Members(V[n].pairs) \cup PairsAt(P, walk, k, V[n].groups)
    <3>1. V[n] \in Tallies(P, walk) /\ k \in 1 .. Len(walk)
      BY <2>2, <2>4
    <3> DEFINE before == V[n]
    <3> HIDE DEF before
    <3>3. before \in Tallies(P, walk)
      BY <3>1 DEF before
    <3>4. /\ Tallied(P, walk, k, before) \in Tallies(P, walk)
          /\ Miter!Members(Tallied(P, walk, k, before).pairs)
               = Miter!Members(before.pairs) \cup PairsAt(P, walk, k, before.groups)
      BY <3>1, <3>3, TalliedIs
    <3>2. /\ Tallied(P, walk, k, V[n]) \in Tallies(P, walk)
          /\ Miter!Members(Tallied(P, walk, k, V[n]).pairs)
               = Miter!Members(V[n].pairs) \cup PairsAt(P, walk, k, V[n].groups)
      BY <3>4 DEF before
    <3> QED BY <2>5, <3>2
  <2>7. V[n].groups = GroupsBefore(P, walk, k)
    BY <2>4 DEF GroupsBefore, V
  <2>8. PairsUpTo(P, walk, k) = PairsUpTo(P, walk, n) \cup PairsAt(P, walk, k, GroupsBefore(P, walk, k))
    <3>1. \A i : i \in 1 .. k <=> (i \in 1 .. n \/ i = k)
      BY <2>3
    <3> QED BY <3>1, Zenon DEF PairsUpTo
  <2>9. Holds(k)
    BY <2>2, <2>6, <2>7, <2>8
  <2> QED BY <2>3, <2>9
<1>5. Nat \subseteq S
  <2> HIDE DEF S
  <2> QED BY <1>3, <1>4, SetInduction
<1>6. ASSUME NEW n \in 0 .. N PROVE Holds(n)
  <2>1. n \in Nat /\ n <= N
    BY <1>1
  <2>2. n \in S
    BY <1>5, <2>1
  <2> QED BY <2>1, <2>2
<1> QED BY <1>1, <1>6

\* A module is given the groups from the count before it.
LEMMA GroupsGrow ==
  ASSUME NEW P, NEW walk, IsWalk(P, walk), NEW i \in 1 .. Len(walk), NEW j \in 1 .. Len(walk)
  PROVE  /\ GroupsBefore(P, walk, i) \in Nat
         /\ Len(ModuleAt(P, walk, i).memories) \in Nat
         /\ i < j => GroupsBefore(P, walk, i) + Len(ModuleAt(P, walk, i).memories) <= GroupsBefore(P, walk, j)
<1> DEFINE N == Len(walk)
           V == Miter!Visited(P, walk)
           g(n) == V[n].groups
           S == {n \in Nat : i + n <= N => g(i) <= g(i + n)}
<1>1. N \in Nat /\ i \in Nat /\ i <= N /\ 1 <= i
  BY VisitedTallies
<1>2. ASSUME NEW n \in 0 .. N PROVE g(n) \in Nat
  <2>1. V[n] \in Tallies(P, walk)
    BY VisitedTallies
  <2> QED BY <2>1 DEF Tallies
<1>3. ASSUME NEW n \in 1 .. N
      PROVE  g(n) = g(n - 1) + Len(ModuleAt(P, walk, n).memories) /\ Len(ModuleAt(P, walk, n).memories) \in Nat
  <2>1. V[n] = Tallied(P, walk, n, V[n - 1])
    BY VisitedIs
  <2>2. n - 1 \in 0 .. N
    BY <1>1
  <2>3. V[n - 1] \in Tallies(P, walk)
    BY <2>2, VisitedTallies
  <2> HIDE DEF V
  <2> QED BY <2>1, <2>3, TalliedIs
<1> HIDE DEF g
<1>4. 0 \in S
  BY <1>1, <1>2
<1>5. ASSUME NEW n \in Nat, n \in S PROVE n + 1 \in S
  <2>1. SUFFICES ASSUME i + (n + 1) <= N PROVE g(i) <= g(i + (n + 1))
    OBVIOUS
  <2>2. PICK k : k = i + (n + 1)
    OBVIOUS
  <2>3. k \in 1 .. N /\ k - 1 = i + n /\ i + n <= N /\ k \in 0 .. N /\ i + n \in 0 .. N /\ i \in 0 .. N
    BY <1>1, <2>1, <2>2
  <2>4. g(k) = g(i + n) + Len(ModuleAt(P, walk, k).memories) /\ Len(ModuleAt(P, walk, k).memories) \in Nat
    BY <1>3, <2>3
  <2>5. g(i) <= g(i + n)
    BY <1>5, <2>3
  <2>6. g(i) \in Nat /\ g(i + n) \in Nat
    BY <1>2, <2>3
  <2>7. g(i) <= g(k)
    BY <2>4, <2>5, <2>6
  <2> QED BY <2>2, <2>7
<1>6. Nat \subseteq S
  <2> HIDE DEF S
  <2> QED BY <1>4, <1>5, SetInduction
<1>7. GroupsBefore(P, walk, i) = g(i - 1) /\ i - 1 \in 0 .. N
  BY <1>1 DEF GroupsBefore, g
<1>8. ASSUME i < j PROVE g(i) <= GroupsBefore(P, walk, j)
  <2>1. j - i - 1 \in Nat /\ i + (j - i - 1) = j - 1 /\ i + (j - i - 1) <= N
    BY <1>1, <1>8
  <2>2. j - i - 1 \in S
    BY <1>6, <2>1
  <2>3. g(i) <= g(i + (j - i - 1))
    BY <2>1, <2>2
  <2>4. GroupsBefore(P, walk, j) = g(j - 1)
    BY DEF GroupsBefore, g
  <2> QED BY <2>1, <2>3, <2>4
<1>9. g(i) = g(i - 1) + Len(ModuleAt(P, walk, i).memories) /\ Len(ModuleAt(P, walk, i).memories) \in Nat
  BY <1>3
<1> QED BY <1>2, <1>7, <1>8, <1>9
--------------------------------------------------------------------------------
(* The pairs of a miter.                                                     *)

WalkOf(m) == Miter!Walk(m.package, m.flatten)[m.root]

\* A package has a rank, and modules that are well formed.
LEMMA MiterIs ==
  ASSUME NEW m \in Miters
  PROVE  /\ \E M : \E rank : Ranked(m.package, M, rank)
         /\ \A n \in DOMAIN m.package : WellFormed(m.package[n])
         /\ m.flatten \in BOOLEAN
<1> DEFINE P == m.package
           M == Cardinality(DOMAIN P)
<1>1. PICK rank \in [DOMAIN P -> 0 .. M] :
         \A n \in DOMAIN P : \A c \in Miter!Present(P, P[n].children) : rank[c.of] < rank[n]
  BY MitersAssumption
<1>2. \A n \in DOMAIN P : IsSequence(P[n].children) /\ WellFormed(P[n])
  BY MitersAssumption DEF WellFormed
<1>3. m.flatten \in BOOLEAN /\ IsFiniteSet(DOMAIN P)
  BY MitersAssumption
<1>4. M \in Nat
  BY <1>3, FS_CardinalityType
<1> HIDE DEF M
<1>5. Ranked(P, M, rank)
  BY <1>1, <1>2, <1>4 DEF Ranked, Ranks
<1> QED BY <1>2, <1>3, <1>5

\* Without flattening the walk is its root.
LEMMA RootWalk ==
  ASSUME NEW P, NEW n \in DOMAIN P
  PROVE  Miter!Walk(P, FALSE)[n] = <<[path |-> <<>>, of |-> n]>>
<1> DEFINE One(k) == <<[path |-> <<>>, of |-> k]>>
           At(f, k) == One(k) \o Miter!FlattenSeq([c \in DOMAIN <<>> |->
                 IF <<>>[c].of \in DOMAIN P THEN Miter!Under(<<>>[c].name, f[<<>>[c].of]) ELSE <<>>])
           Body(f) == [k \in DOMAIN P |-> At(f, k)]
           walk == CHOOSE w : w = Body(w)
           root == [k \in DOMAIN P |-> One(k)]
<1>1. Miter!Walk(P, FALSE) = walk
  BY DEF Miter!Walk
<1>2. ASSUME NEW f, NEW k PROVE At(f, k) = One(k)
  <2> DEFINE s == [c \in DOMAIN <<>> |->
                 IF <<>>[c].of \in DOMAIN P THEN Miter!Under(<<>>[c].name, f[<<>>[c].of]) ELSE <<>>]
  <2>1. s = <<>>
    OBVIOUS
  <2>2. Miter!FlattenSeq(<<>>) = <<>>
    BY DEF Miter!FlattenSeq
  <2>3. One(k) \o <<>> = One(k)
    OBVIOUS
  <2> HIDE DEF s, One
  <2>4. Miter!FlattenSeq(s) = <<>>
    BY <2>1, <2>2
  <2>5. One(k) \o Miter!FlattenSeq(s) = One(k)
    BY <2>3, <2>4
  <2> QED BY <2>5 DEF s
<1>3. \A f : Body(f) = root
  <2> HIDE DEF At, One
  <2> QED BY <1>2
<1>4. walk = root
  <2>1. root = Body(root)
    <3> HIDE DEF Body, root
    <3> QED BY <1>3
  <2>2. walk = Body(walk)
    <3> HIDE DEF Body, root
    <3> QED BY <2>1
  <2> HIDE DEF Body, root, walk
  <2> QED BY <1>3, <2>2
<1> HIDE DEF walk
<1> QED BY <1>1, <1>4

\* The walk of a miter visits the instances below its root.
LEMMA WalkOfIs ==
  ASSUME NEW m \in Miters, m.root \in DOMAIN m.package
  PROVE  IsWalk(m.package, WalkOf(m)) /\ Seen(WalkOf(m)) = Miter!Below(m)
<1> DEFINE P == m.package
<1>1. PICK M : \E rank : Ranked(P, M, rank)
  BY MiterIs
<1>2. PICK rank : Ranked(P, M, rank)
  BY <1>1
<1>3. \A n \in DOMAIN P : WellFormed(P[n])
  BY MiterIs
<1>4. CASE m.flatten = TRUE
  <2>1. WalkOf(m) = Miter!Walk(P, TRUE)[m.root]
    BY <1>4 DEF WalkOf
  <2>2. Miter!Below(m) = Miter!Instances(P)[m.root]
    BY <1>4 DEF Miter!Below
  <2>3. Miter!Walk(P, TRUE)[m.root] \in Seq(Visits(P))
    BY <1>2, WalkIs
  <2>4. Seen(Miter!Walk(P, TRUE)[m.root]) = Miter!Instances(P)[m.root]
    BY <1>2, WalkSees
  <2> QED BY <1>3, <2>1, <2>2, <2>3, <2>4 DEF IsWalk
<1>5. CASE m.flatten = FALSE
  <2> DEFINE v == [path |-> <<>>, of |-> m.root]
  <2>1. WalkOf(m) = <<v>>
    BY <1>5, RootWalk DEF WalkOf
  <2>2. Miter!Below(m) = {<<<<>>, m.root>>}
    BY <1>5 DEF Miter!Below
  <2>3. v \in Visits(P) /\ v.path = <<>> /\ v.of = m.root
    <3>1. <<>> \in Seq(ChildNames(P))
      OBVIOUS
    <3> QED BY <3>1 DEF Visits
  <2> HIDE DEF v
  <2>4. Miter!Members(<<v>>) = {v}
    BY DEF Miter!Members
  <2>5. Seen(<<v>>) = {<<v.path, v.of>>}
    BY <2>4, Zenon DEF Seen
  <2>6. <<v>> \in Seq(Visits(P))
    BY <2>3
  <2> QED BY <1>3, <2>1, <2>2, <2>3, <2>5, <2>6 DEF IsWalk
<1>6. m.flatten \in BOOLEAN
  BY MiterIs
<1> QED BY <1>4, <1>5, <1>6

\* What a pair says of the register slice or the memory word it stands for.
IsRegister(p, module, path, r) ==
  /\ p.kind = "register" /\ p.path = path /\ p.address = 0
  /\ p.name = module.registers[r].name /\ p.offset = module.registers[r].offset
  /\ p.width = module.registers[r].width /\ p.body = Miter!Body(module, module.registers[r])
IsWord(p, module, path, group, i, a) ==
  /\ p.kind = "memory" /\ p.path = path /\ p.group = group + i - 1 /\ p.address = a
  /\ p.name = module.memories[i].name /\ p.width = module.memories[i].width
  /\ p.offset = 0 /\ p.body = {0}
Stands(p, module, path, group) ==
  \/ \E r \in DOMAIN module.registers : IsRegister(p, module, path, r)
  \/ \E i \in DOMAIN module.memories : \E a \in 0 .. module.memories[i].size - 1 :
       IsWord(p, module, path, group, i, a)

LEMMA PairStands ==
  ASSUME NEW P, NEW walk, NEW n, NEW group, NEW p \in PairsAt(P, walk, n, group), WellFormed(ModuleAt(P, walk, n))
  PROVE  Stands(p, ModuleAt(P, walk, n), walk[n].path, group)
<1> DEFINE module == ModuleAt(P, walk, n)
           path == walk[n].path
<1>1. CASE p \in OfRegisters(module, path)
  <2>1. PICK r \in DOMAIN module.registers : p = RegisterAt(module, path, r)
    BY <1>1 DEF OfRegisters
  <2>2. IsRegister(p, module, path, r)
    BY <2>1 DEF RegisterAt, IsRegister
  <2> QED BY <2>2 DEF Stands
<1>2. CASE p \in OfMemories(module, path, group)
  <2>1. PICK i \in DOMAIN module.memories : \E a \in 1 .. module.memories[i].size : p = WordAt(module, path, group, i, a)
    BY <1>2 DEF OfMemories
  <2>2. PICK a \in 1 .. module.memories[i].size : p = WordAt(module, path, group, i, a)
    BY <2>1
  <2>3. IsWord(p, module, path, group, i, a - 1)
    BY <2>2 DEF WordAt, IsWord
  <2>4. module.memories[i].size \in Nat
    BY DEF WellFormed
  <2>5. a - 1 \in 0 .. module.memories[i].size - 1
    BY <2>2, <2>4
  <2> QED BY <2>3, <2>5 DEF Stands
<1> QED BY <1>1, <1>2 DEF PairsAt

LEMMA SliceHasPair ==
  ASSUME NEW P, NEW walk, NEW n, NEW group, WellFormed(ModuleAt(P, walk, n))
  PROVE  /\ \A r \in DOMAIN ModuleAt(P, walk, n).registers : \E p \in PairsAt(P, walk, n, group) :
              IsRegister(p, ModuleAt(P, walk, n), walk[n].path, r)
         /\ \A i \in DOMAIN ModuleAt(P, walk, n).memories :
              \A a \in 0 .. ModuleAt(P, walk, n).memories[i].size - 1 : \E p \in PairsAt(P, walk, n, group) :
                IsWord(p, ModuleAt(P, walk, n), walk[n].path, group, i, a)
<1> DEFINE module == ModuleAt(P, walk, n)
           path == walk[n].path
<1>1. ASSUME NEW r \in DOMAIN module.registers
      PROVE  \E p \in PairsAt(P, walk, n, group) : IsRegister(p, module, path, r)
  <2>1. RegisterAt(module, path, r) \in PairsAt(P, walk, n, group)
    BY DEF PairsAt, OfRegisters
  <2>2. IsRegister(RegisterAt(module, path, r), module, path, r)
    BY DEF RegisterAt, IsRegister
  <2> QED BY <2>1, <2>2
<1>2. ASSUME NEW i \in DOMAIN module.memories, NEW a \in 0 .. module.memories[i].size - 1
      PROVE  \E p \in PairsAt(P, walk, n, group) : IsWord(p, module, path, group, i, a)
  <2>1. module.memories[i].size \in Nat
    BY DEF WellFormed
  <2>2. a + 1 \in 1 .. module.memories[i].size
    BY <2>1
  <2>3. WordAt(module, path, group, i, a + 1) \in PairsAt(P, walk, n, group)
    BY <2>2 DEF PairsAt, OfMemories
  <2>4. IsWord(WordAt(module, path, group, i, a + 1), module, path, group, i, a)
    BY DEF WordAt, IsWord
  <2> QED BY <2>3, <2>4
<1> QED BY <1>1, <1>2

\* A pair of the miter is one of a module of the walk, and the other way around.
PairsFrom(P, walk) == Miter!Visited(P, walk)[Len(walk)].pairs
ComeFrom(pairs, P, walk) ==
  /\ Len(pairs) \in Nat /\ DOMAIN pairs = 1 .. Len(pairs)
  /\ \A n \in 1 .. Len(walk) : WellFormed(ModuleAt(P, walk, n))
  /\ \A k \in DOMAIN pairs : \E n \in 1 .. Len(walk) :
       pairs[k] \in PairsAt(P, walk, n, GroupsBefore(P, walk, n))
  /\ \A n \in 1 .. Len(walk) : \A p \in PairsAt(P, walk, n, GroupsBefore(P, walk, n)) :
       \E k \in DOMAIN pairs : pairs[k] = p

LEMMA PairsCome ==
  ASSUME NEW P, NEW walk, IsWalk(P, walk)
  PROVE  ComeFrom(PairsFrom(P, walk), P, walk)
<1> DEFINE N == Len(walk)
           pairs == PairsFrom(P, walk)
<1>1. N \in Nat /\ N \in 0 .. N
  BY VisitedTallies
<1>2. /\ Miter!Visited(P, walk)[N] \in Tallies(P, walk)
      /\ Miter!Members(Miter!Visited(P, walk)[N].pairs) = PairsUpTo(P, walk, N)
  BY <1>1, VisitedTallies
<1>3. pairs \in Seq(AllPairs(P, walk)) /\ Miter!Members(pairs) = PairsUpTo(P, walk, N)
  BY <1>2 DEF Tallies, PairsFrom
<1> HIDE DEF pairs
<1>4. Len(pairs) \in Nat /\ DOMAIN pairs = 1 .. Len(pairs)
  BY <1>3
<1>5. ASSUME NEW n \in 1 .. N PROVE WellFormed(ModuleAt(P, walk, n))
  <2>1. walk[n] \in Visits(P)
    BY DEF IsWalk
  <2>2. walk[n].of \in DOMAIN P
    BY <2>1 DEF Visits
  <2> QED BY <2>2 DEF IsWalk, ModuleAt
<1>6. ASSUME NEW k \in DOMAIN pairs
      PROVE  \E n \in 1 .. N : pairs[k] \in PairsAt(P, walk, n, GroupsBefore(P, walk, n))
  <2>1. pairs[k] \in PairsUpTo(P, walk, N)
    BY <1>3 DEF Miter!Members
  <2> QED BY <2>1 DEF PairsUpTo
<1>7. ASSUME NEW n \in 1 .. N, NEW p \in PairsAt(P, walk, n, GroupsBefore(P, walk, n))
      PROVE  \E k \in DOMAIN pairs : pairs[k] = p
  <2>1. p \in PairsUpTo(P, walk, N)
    BY DEF PairsUpTo
  <2> QED BY <1>3, <2>1 DEF Miter!Members
<1> QED BY <1>4, <1>5, <1>6, <1>7 DEF ComeFrom, pairs

\* Distinct names: a pair is found by its name.
LEMMA SidesDiffer ==
  ASSUME NEW pairs, Len(pairs) \in Nat, DOMAIN pairs = 1 .. Len(pairs),
         Miter!Cardinality({Miter!Side(p) : p \in Miter!Members(pairs)}) = Len(pairs),
         NEW k \in DOMAIN pairs, NEW l \in DOMAIN pairs, Miter!Side(pairs[k]) = Miter!Side(pairs[l])
  PROVE  k = l
<1> DEFINE T == {Miter!Side(p) : p \in Miter!Members(pairs)}
           f == [x \in 1 .. Len(pairs) |-> Miter!Side(pairs[x])]
<1>1. IsFiniteSet(1 .. Len(pairs)) /\ Cardinality(1 .. Len(pairs)) = Len(pairs)
  BY CountTo
<1>2. Cardinality(T) = Len(pairs)
  <2>1. Miter!Cardinality(T) = Cardinality(T)
    BY DEF Miter!Cardinality, Cardinality
  <2> QED BY <2>1
<1>3. T = {Miter!Side(pairs[x]) : x \in 1 .. Len(pairs)}
  BY DEF Miter!Members
<1>4. f \in Surjection(1 .. Len(pairs), T)
  <2>1. f \in [1 .. Len(pairs) -> T]
    BY <1>3
  <2> HIDE DEF T
  <2>2. \A t \in T : \E x \in 1 .. Len(pairs) : f[x] = t
    BY <1>3
  <2> HIDE DEF f
  <2> QED BY <2>1, <2>2 DEF Surjection
<1> HIDE DEF T, f
<1>5. f \in Injection(1 .. Len(pairs), T)
  BY <1>1, <1>2, <1>4, FS_Surjection
<1>6. f[k] = f[l]
  BY DEF f
<1> QED BY <1>5, <1>6 DEF Injection, IsInjective

\* The relation of a miter that was not refused.
IsRelated ==
  /\ miter \in Miters /\ miter.root \in DOMAIN miter.package
  /\ relation = Miter!Visit(miter.package, miter.root, miter.flatten)
  /\ Miter!Cardinality({Miter!Side(p) : p \in Miter!Members(relation)}) = Len(relation)

\* What is known of the pairs of a relation.
Comes(k, n) == Stands(relation[k], miter.package[WalkOf(miter)[n].of], WalkOf(miter)[n].path,
                      GroupsBefore(miter.package, WalkOf(miter), n))
LEMMA RelationIs ==
  ASSUME IsRelated
  PROVE  /\ IsWalk(miter.package, WalkOf(miter)) /\ Len(WalkOf(miter)) \in Nat
         /\ Len(relation) \in Nat /\ DOMAIN relation = 1 .. Len(relation)
         /\ \A n \in 1 .. Len(WalkOf(miter)) :
              /\ <<WalkOf(miter)[n].path, WalkOf(miter)[n].of>> \in Miter!Below(miter)
              /\ WellFormed(miter.package[WalkOf(miter)[n].of])
         /\ \A i \in Miter!Below(miter) : \E n \in 1 .. Len(WalkOf(miter)) :
              WalkOf(miter)[n].path = i[1] /\ WalkOf(miter)[n].of = i[2]
         /\ \A k \in DOMAIN relation : \E n \in 1 .. Len(WalkOf(miter)) : Comes(k, n)
         /\ \A n \in 1 .. Len(WalkOf(miter)) :
              /\ \A r \in DOMAIN miter.package[WalkOf(miter)[n].of].registers : \E k \in DOMAIN relation :
                   IsRegister(relation[k], miter.package[WalkOf(miter)[n].of], WalkOf(miter)[n].path, r)
              /\ \A i \in DOMAIN miter.package[WalkOf(miter)[n].of].memories :
                   \A a \in 0 .. miter.package[WalkOf(miter)[n].of].memories[i].size - 1 : \E k \in DOMAIN relation :
                     IsWord(relation[k], miter.package[WalkOf(miter)[n].of], WalkOf(miter)[n].path,
                            GroupsBefore(miter.package, WalkOf(miter), n), i, a)
<1> DEFINE P == miter.package
           walk == WalkOf(miter)
<1>1. miter \in Miters /\ miter.root \in DOMAIN P /\ relation = Miter!Visited(P, walk)[Len(walk)].pairs
  BY DEF IsRelated, Miter!Visit, WalkOf
<1>2. IsWalk(P, walk) /\ Seen(walk) = Miter!Below(miter)
  BY <1>1, WalkOfIs
<1> HIDE DEF P, walk
<1>3. Len(walk) \in Nat /\ DOMAIN walk = 1 .. Len(walk)
  BY <1>2 DEF IsWalk
<1>4. /\ Len(relation) \in Nat /\ DOMAIN relation = 1 .. Len(relation)
      /\ \A n \in 1 .. Len(walk) : WellFormed(ModuleAt(P, walk, n))
      /\ \A k \in DOMAIN relation : \E n \in 1 .. Len(walk) :
           relation[k] \in PairsAt(P, walk, n, GroupsBefore(P, walk, n))
      /\ \A n \in 1 .. Len(walk) : \A p \in PairsAt(P, walk, n, GroupsBefore(P, walk, n)) :
           \E k \in DOMAIN relation : relation[k] = p
  <2>1. IsWalk(P, walk)
    BY <1>2
  <2>2. relation = PairsFrom(P, walk)
    BY <1>1 DEF PairsFrom
  <2>3. ComeFrom(relation, P, walk)
    BY <2>1, <2>2, PairsCome
  <2> QED BY <2>3 DEF ComeFrom
<1>5. \A n \in 1 .. Len(walk) : <<walk[n].path, walk[n].of>> \in Miter!Below(miter)
  BY <1>2, <1>3 DEF Seen, Miter!Members
<1>6. ASSUME NEW i \in Miter!Below(miter)
      PROVE  \E n \in 1 .. Len(walk) : walk[n].path = i[1] /\ walk[n].of = i[2]
  <2>1. PICK n \in 1 .. Len(walk) : i = <<walk[n].path, walk[n].of>>
    BY <1>2, <1>3 DEF Seen, Miter!Members
  <2> QED BY <2>1
<1>7. ASSUME NEW k \in DOMAIN relation
      PROVE  \E n \in 1 .. Len(walk) : Stands(relation[k], P[walk[n].of], walk[n].path, GroupsBefore(P, walk, n))
  <2>1. PICK n \in 1 .. Len(walk) : relation[k] \in PairsAt(P, walk, n, GroupsBefore(P, walk, n))
    BY <1>4
  <2>2. Stands(relation[k], ModuleAt(P, walk, n), walk[n].path, GroupsBefore(P, walk, n))
    BY <1>4, <2>1, PairStands
  <2> QED BY <2>2 DEF ModuleAt
<1>8. ASSUME NEW n \in 1 .. Len(walk)
      PROVE  /\ \A r \in DOMAIN P[walk[n].of].registers : \E k \in DOMAIN relation :
                  IsRegister(relation[k], P[walk[n].of], walk[n].path, r)
             /\ \A i \in DOMAIN P[walk[n].of].memories :
                  \A a \in 0 .. P[walk[n].of].memories[i].size - 1 : \E k \in DOMAIN relation :
                    IsWord(relation[k], P[walk[n].of], walk[n].path, GroupsBefore(P, walk, n), i, a)
  <2> DEFINE module == ModuleAt(P, walk, n)
             group == GroupsBefore(P, walk, n)
  <2>1. WellFormed(module)
    BY <1>4
  <2>2. /\ \A r \in DOMAIN module.registers : \E p \in PairsAt(P, walk, n, group) :
             IsRegister(p, module, walk[n].path, r)
        /\ \A i \in DOMAIN module.memories : \A a \in 0 .. module.memories[i].size - 1 :
             \E p \in PairsAt(P, walk, n, group) : IsWord(p, module, walk[n].path, group, i, a)
    BY <2>1, SliceHasPair
  <2>3. \A p \in PairsAt(P, walk, n, group) : \E k \in DOMAIN relation : relation[k] = p
    BY <1>4
  <2>4. module = P[walk[n].of]
    BY DEF ModuleAt
  <2> HIDE DEF module, group
  <2>5. \A r \in DOMAIN module.registers : \E k \in DOMAIN relation : IsRegister(relation[k], module, walk[n].path, r)
    BY <2>2, <2>3
  <2>6. \A i \in DOMAIN module.memories : \A a \in 0 .. module.memories[i].size - 1 :
          \E k \in DOMAIN relation : IsWord(relation[k], module, walk[n].path, group, i, a)
    BY <2>2, <2>3
  <2> QED BY <2>4, <2>5, <2>6 DEF group
<1>9. \A n \in 1 .. Len(walk) : WellFormed(P[walk[n].of])
  BY <1>4 DEF ModuleAt
<1> QED BY <1>2, <1>3, <1>4, <1>5, <1>6, <1>7, <1>8, <1>9 DEF P, walk, Comes

\* Every slice and word of an instance is paired once, and nothing else is.
LEMMA PairsExact == IsRelated => Miter!PairsAreExact
<1> SUFFICES ASSUME IsRelated PROVE Miter!PairsAreExact
  OBVIOUS
<1> DEFINE P == miter.package
           walk == WalkOf(miter)
           G(n) == GroupsBefore(P, walk, n)
<1>1. ASSUME NEW k \in DOMAIN relation, NEW l \in DOMAIN relation, Miter!Side(relation[k]) = Miter!Side(relation[l])
      PROVE  k = l
  BY <1>1, RelationIs, SidesDiffer DEF IsRelated
<1>2. ASSUME NEW k \in DOMAIN relation
      PROVE  /\ relation[k].kind = "register" => relation[k].address = 0
             /\ relation[k].kind = "memory" => relation[k].offset = 0 /\ relation[k].body = {0}
  <2>1. PICK n \in 1 .. Len(walk) : Comes(k, n)
    BY RelationIs
  <2> QED BY <2>1 DEF Comes, Stands, IsRegister, IsWord
<1>3. ASSUME NEW i \in Miter!Below(miter)
      PROVE  /\ \A r \in Miter!Members(P[i[2]].registers) : Miter!IsSingle(Miter!OfRegister(relation, P[i[2]], i[1], r))
             /\ \A m \in Miter!Members(P[i[2]].memories) : \A a \in 0 .. m.size - 1 :
                  Miter!IsSingle(Miter!OfWord(relation, i[1], m, a))
  <2>1. PICK n \in 1 .. Len(walk) : walk[n].path = i[1] /\ walk[n].of = i[2]
    BY RelationIs
  <2>2. ASSUME NEW r \in Miter!Members(P[i[2]].registers)
        PROVE  Miter!IsSingle(Miter!OfRegister(relation, P[i[2]], i[1], r))
    <3> DEFINE S == Miter!OfRegister(relation, P[i[2]], i[1], r)
    <3>1. PICK x \in DOMAIN P[i[2]].registers : r = P[i[2]].registers[x]
      BY DEF Miter!Members
    <3>2. PICK k \in DOMAIN relation : IsRegister(relation[k], P[i[2]], i[1], x)
      BY <2>1, <3>1, RelationIs
    <3>3. k \in S
      BY <3>1, <3>2 DEF Miter!OfRegister, IsRegister
    <3>4. ASSUME NEW l \in S PROVE l = k
      <4>1. Miter!Side(relation[l]) = Miter!Side(relation[k])
        BY <1>2, <3>3, <3>4 DEF Miter!OfRegister, Miter!Side
      <4>2. l \in DOMAIN relation
        BY <3>4 DEF Miter!OfRegister
      <4> QED BY <1>1, <4>1, <4>2
    <3> HIDE DEF S
    <3>5. S = {k}
      BY <3>3, <3>4
    <3> QED BY <3>3, <3>5 DEF Miter!IsSingle, S
  <2>3. ASSUME NEW m \in Miter!Members(P[i[2]].memories), NEW a \in 0 .. m.size - 1
        PROVE  Miter!IsSingle(Miter!OfWord(relation, i[1], m, a))
    <3> DEFINE S == Miter!OfWord(relation, i[1], m, a)
    <3>1. PICK x \in DOMAIN P[i[2]].memories : m = P[i[2]].memories[x]
      BY DEF Miter!Members
    <3>2. PICK k \in DOMAIN relation : IsWord(relation[k], P[i[2]], i[1], G(n), x, a)
      BY <2>1, <3>1, RelationIs
    <3>3. k \in S
      BY <3>1, <3>2 DEF Miter!OfWord, IsWord
    <3>4. ASSUME NEW l \in S PROVE l = k
      <4>1. Miter!Side(relation[l]) = Miter!Side(relation[k])
        BY <1>2, <3>3, <3>4 DEF Miter!OfWord, Miter!Side
      <4>2. l \in DOMAIN relation
        BY <3>4 DEF Miter!OfWord
      <4> QED BY <1>1, <4>1, <4>2
    <3> HIDE DEF S
    <3>5. S = {k}
      BY <3>3, <3>4
    <3> QED BY <3>3, <3>5 DEF Miter!IsSingle, S
  <2> QED BY <2>2, <2>3
<1>4. ASSUME NEW k \in DOMAIN relation
      PROVE  \E i \in Miter!Below(miter) :
               \/ \E r \in Miter!Members(P[i[2]].registers) : k \in Miter!OfRegister(relation, P[i[2]], i[1], r)
               \/ \E m \in Miter!Members(P[i[2]].memories) : \E a \in 0 .. m.size - 1 :
                    k \in Miter!OfWord(relation, i[1], m, a)
  <2>1. PICK n \in 1 .. Len(walk) : Comes(k, n)
    BY RelationIs
  <2> DEFINE i == <<walk[n].path, walk[n].of>>
             module == P[walk[n].of]
  <2>2. i \in Miter!Below(miter)
    BY RelationIs
  <2>3. CASE \E r \in DOMAIN module.registers : IsRegister(relation[k], module, walk[n].path, r)
    <3>1. PICK r \in DOMAIN module.registers : IsRegister(relation[k], module, walk[n].path, r)
      BY <2>3
    <3>2. k \in Miter!OfRegister(relation, P[i[2]], i[1], module.registers[r])
      BY <3>1 DEF Miter!OfRegister, IsRegister
    <3>3. module.registers[r] \in Miter!Members(P[i[2]].registers)
      BY DEF Miter!Members
    <3> HIDE DEF i, module
    <3> QED BY <2>2, <3>2, <3>3
  <2>4. CASE \E x \in DOMAIN module.memories : \E a \in 0 .. module.memories[x].size - 1 :
               IsWord(relation[k], module, walk[n].path, G(n), x, a)
    <3>1. PICK x \in DOMAIN module.memories : \E a \in 0 .. module.memories[x].size - 1 :
               IsWord(relation[k], module, walk[n].path, G(n), x, a)
      BY <2>4
    <3>2. PICK a \in 0 .. module.memories[x].size - 1 : IsWord(relation[k], module, walk[n].path, G(n), x, a)
      BY <3>1
    <3>3. k \in Miter!OfWord(relation, i[1], module.memories[x], a)
      BY <3>2 DEF Miter!OfWord, IsWord
    <3>4. module.memories[x] \in Miter!Members(P[i[2]].memories)
      BY DEF Miter!Members
    <3> HIDE DEF i, module
    <3> QED BY <2>2, <3>3, <3>4
  <2> QED BY <2>1, <2>3, <2>4 DEF Comes, Stands
<1> QED BY <1>3, <1>4, Zenon DEF Miter!PairsAreExact

\* The words of a group.
IsGroup(pairs, group) ==
  /\ Len(pairs) \in Nat
  /\ \A k \in 1 .. Len(pairs) : Miter!InGroup(pairs[k], group) => pairs[k].width \in Nat
Wide(pairs, group, k) == IF Miter!InGroup(pairs[k], group) THEN pairs[k].width ELSE 0

LEMMA OffsetsAre ==
  ASSUME NEW pairs, NEW group, IsGroup(pairs, group)
  PROVE  /\ Len(pairs) \in Nat /\ Miter!Offsets(pairs, group)[0] = 0
         /\ \A k \in 0 .. Len(pairs) : Miter!Offsets(pairs, group)[k] \in Nat
         /\ \A k \in 0 .. Len(pairs) - 1 : Wide(pairs, group, k + 1) \in Nat
              /\ Miter!Offsets(pairs, group)[k + 1] = Miter!Offsets(pairs, group)[k] + Wide(pairs, group, k + 1)
<1> DEFINE N == Len(pairs)
           G == [p \in Nat \X Nat |-> IF p[1] < N THEN p[2] + Wide(pairs, group, p[1] + 1) ELSE p[2]]
           At(f, k) == IF k = 0 THEN 0 ELSE f[k - 1] + Wide(pairs, group, k)
           Body(f) == [k \in 0 .. N |-> At(f, k)]
           offset == CHOOSE f : f = Body(f)
<1>1. N \in Nat
  BY DEF IsGroup
<1>2. ASSUME NEW k \in 0 .. N - 1 PROVE Wide(pairs, group, k + 1) \in Nat
  <2>1. k + 1 \in 1 .. Len(pairs)
    BY <1>1
  <2> QED BY <2>1 DEF IsGroup, Wide
<1>3. Miter!Offsets(pairs, group) = offset
  BY DEF Miter!Offsets, Wide
<1>4. G \in [Nat \X Nat -> Nat]
  <2>1. ASSUME NEW n \in Nat, NEW r \in Nat PROVE (IF n < N THEN r + Wide(pairs, group, n + 1) ELSE r) \in Nat
    <3>1. CASE n < N
      <4>1. n \in 0 .. N - 1
        BY <1>1, <3>1
      <4>2. Wide(pairs, group, n + 1) \in Nat
        BY <1>2, <4>1
      <4> QED BY <3>1, <4>2
    <3>2. CASE ~(n < N)
      BY <3>2
    <3> QED BY <3>1, <3>2
  <2> HIDE DEF N
  <2> QED BY <2>1
<1>5. PICK g : Iterates(g, Nat, 0, G, N)
  <2> HIDE DEF G, N
  <2> QED BY <1>1, <1>4, Recursion
<1>6. g \in [0 .. N -> Nat] /\ g[0] = 0 /\ \A k \in 0 .. N - 1 : g[k + 1] = g[k] + Wide(pairs, group, k + 1)
  <2>1. g \in [0 .. N -> Nat] /\ g[0] = 0 /\ \A k \in 0 .. N - 1 : g[k + 1] = G[<<k, g[k]>>]
    <3> HIDE DEF G, N
    <3> QED BY <1>5 DEF Iterates
  <2>2. ASSUME NEW k \in 0 .. N - 1 PROVE G[<<k, g[k]>>] = g[k] + Wide(pairs, group, k + 1)
    <3>1. k \in Nat /\ k < N /\ k \in 0 .. N
      BY <1>1
    <3>2. g[k] \in Nat
      BY <2>1, <3>1
    <3> HIDE DEF N
    <3> QED BY <3>1, <3>2
  <2> HIDE DEF G
  <2> QED BY <2>1, <2>2
<1>7. g = Body(g)
  <2>1. ASSUME NEW k \in 0 .. N PROVE g[k] = At(g, k)
    <3>1. CASE k = 0
      BY <1>6, <3>1
    <3>2. CASE k # 0
      <4>1. PICK j : j = k - 1
        OBVIOUS
      <4>2. j \in 0 .. N - 1 /\ j + 1 = k
        BY <1>1, <3>2, <4>1
      <4>3. g[k] = g[j] + Wide(pairs, group, k)
        <5> HIDE DEF N
        <5> QED BY <1>6, <4>2
      <4> QED BY <3>2, <4>1, <4>3
    <3> QED BY <3>1, <3>2
  <2> HIDE DEF At
  <2> QED BY <1>6, <2>1
<1>8. offset = Body(offset)
  <2> HIDE DEF Body
  <2> QED BY <1>7
<1> HIDE DEF offset
<1>9. ASSUME NEW k \in 0 .. N PROVE offset[k] = At(offset, k)
  <2>1. Body(offset)[k] = At(offset, k)
    <3> HIDE DEF At
    <3> QED OBVIOUS
  <2> HIDE DEF Body, At
  <2> QED BY <1>8, <2>1
<1>10. offset[0] = 0
  BY <1>1, <1>9
<1>11. ASSUME NEW k \in 0 .. N - 1 PROVE offset[k + 1] = offset[k] + Wide(pairs, group, k + 1)
  <2>1. PICK j : j = k + 1
    OBVIOUS
  <2>2. j \in 0 .. N /\ j # 0 /\ j - 1 = k
    BY <1>1, <2>1
  <2>3. offset[j] = offset[j - 1] + Wide(pairs, group, j)
    BY <1>9, <2>2
  <2> QED BY <2>1, <2>2, <2>3
<1> DEFINE S == {k \in Nat : k <= N => offset[k] \in Nat}
<1>12. 0 \in S
  BY <1>10
<1>13. ASSUME NEW k \in Nat, k \in S PROVE k + 1 \in S
  <2>1. SUFFICES ASSUME k + 1 <= N PROVE offset[k + 1] \in Nat
    OBVIOUS
  <2>2. k \in 0 .. N - 1 /\ k <= N
    BY <1>1, <2>1
  <2>3. offset[k] \in Nat
    BY <1>13, <2>2
  <2> HIDE DEF N
  <2> QED BY <1>2, <1>11, <2>2, <2>3
<1>14. Nat \subseteq S
  <2> HIDE DEF S
  <2> QED BY <1>12, <1>13, SetInduction
<1>15. \A k \in 0 .. N : offset[k] \in Nat
  BY <1>1, <1>14
<1> QED BY <1>1, <1>2, <1>3, <1>10, <1>11, <1>15

\* The slices of a group take the bits from 0 on.
SliceOf(pairs, group, k) == Miter!Offsets(pairs, group)[k - 1] .. Miter!Offsets(pairs, group)[k] - 1
SlicesUpTo(pairs, group, n) ==
  UNION {SliceOf(pairs, group, k) : k \in {l \in 1 .. n : Miter!InGroup(pairs[l], group)}}
LEMMA SlicesTake ==
  ASSUME NEW pairs, NEW group, IsGroup(pairs, group)
  PROVE  \A n \in 0 .. Len(pairs) : SlicesUpTo(pairs, group, n) = 0 .. Miter!Offsets(pairs, group)[n] - 1
<1> DEFINE N == Len(pairs)
           o == Miter!Offsets(pairs, group)
           Takes(n) == SlicesUpTo(pairs, group, n) = 0 .. o[n] - 1
           S == {n \in Nat : n <= N => Takes(n)}
<1>1. N \in Nat /\ o[0] = 0
  BY OffsetsAre
<1>2. 0 \in S
  <2>1. SlicesUpTo(pairs, group, 0) = {}
    BY DEF SlicesUpTo
  <2>2. 0 .. o[0] - 1 = {}
    BY <1>1
  <2> QED BY <2>1, <2>2
<1>3. ASSUME NEW n \in Nat, n \in S PROVE n + 1 \in S
  <2>1. SUFFICES ASSUME n + 1 <= N PROVE Takes(n + 1)
    OBVIOUS
  <2>2. n \in 0 .. N - 1 /\ n \in 0 .. N /\ n <= N
    BY <1>1, <2>1
  <2>3. Takes(n)
    BY <1>3, <2>2
  <2>4. o[n] \in Nat /\ Wide(pairs, group, n + 1) \in Nat /\ o[n + 1] = o[n] + Wide(pairs, group, n + 1)
    BY <2>2, OffsetsAre
  <2>5. PICK k : k = n + 1
    OBVIOUS
  <2>6. SliceOf(pairs, group, k) = o[n] .. o[k] - 1
    <3>1. k - 1 = n
      BY <2>5
    <3> QED BY <3>1 DEF SliceOf
  <2>7. \A l : l \in 1 .. k <=> (l \in 1 .. n \/ l = k)
    BY <2>5
  <2> HIDE DEF o
  <2>8. CASE Miter!InGroup(pairs[k], group)
    <3>1. SlicesUpTo(pairs, group, k) = SlicesUpTo(pairs, group, n) \cup SliceOf(pairs, group, k)
      BY <2>7, <2>8, Zenon DEF SlicesUpTo
    <3>2. SlicesUpTo(pairs, group, k) = (0 .. o[n] - 1) \cup (o[n] .. o[k] - 1)
      BY <2>3, <2>6, <3>1
    <3>3. o[k] \in Nat /\ o[n] <= o[k]
      BY <2>4, <2>5
    <3>4. (0 .. o[n] - 1) \cup (o[n] .. o[k] - 1) = 0 .. o[k] - 1
      BY <2>4, <3>3
    <3> QED BY <2>5, <3>2, <3>4
  <2>9. CASE ~Miter!InGroup(pairs[k], group)
    <3>1. SlicesUpTo(pairs, group, k) = SlicesUpTo(pairs, group, n)
      BY <2>7, <2>9, Zenon DEF SlicesUpTo
    <3>2. o[k] = o[n]
      BY <2>4, <2>5, <2>9 DEF Wide
    <3> QED BY <2>3, <2>5, <3>1, <3>2
  <2> QED BY <2>8, <2>9
<1>4. Nat \subseteq S
  <2> HIDE DEF S
  <2> QED BY <1>2, <1>3, SetInduction
<1> QED BY <1>1, <1>4

\* Words of one group are words of one memory of one instance.
LEMMA SameGroup ==
  ASSUME IsRelated, NEW k \in DOMAIN relation, NEW l \in DOMAIN relation,
         relation[k].kind = "memory", relation[l].kind = "memory", relation[k].group = relation[l].group
  PROVE  /\ relation[l].path = relation[k].path /\ relation[l].name = relation[k].name
         /\ relation[k].width \in Nat
<1> DEFINE P == miter.package
           walk == WalkOf(miter)
           G(n) == GroupsBefore(P, walk, n)
           M(n) == P[walk[n].of].memories
<1>1. ASSUME NEW x \in DOMAIN relation, relation[x].kind = "memory"
      PROVE  \E n \in 1 .. Len(walk) : \E i \in DOMAIN M(n) :
               /\ relation[x].path = walk[n].path /\ relation[x].group = G(n) + i - 1
               /\ relation[x].name = M(n)[i].name /\ relation[x].width = M(n)[i].width
  <2>1. PICK n \in 1 .. Len(walk) : Comes(x, n)
    BY RelationIs
  <2>2. \E i \in DOMAIN M(n) : \E a \in 0 .. M(n)[i].size - 1 : IsWord(relation[x], P[walk[n].of], walk[n].path, G(n), i, a)
    BY <1>1, <2>1 DEF Comes, Stands, IsRegister
  <2>3. PICK i \in DOMAIN M(n) : \E a \in 0 .. M(n)[i].size - 1 : IsWord(relation[x], P[walk[n].of], walk[n].path, G(n), i, a)
    BY <2>2
  <2> QED BY <2>3 DEF IsWord
<1>2. PICK n \in 1 .. Len(walk) : \E i \in DOMAIN M(n) :
         /\ relation[k].path = walk[n].path /\ relation[k].group = G(n) + i - 1
         /\ relation[k].name = M(n)[i].name /\ relation[k].width = M(n)[i].width
  BY <1>1
<1>3. PICK i \in DOMAIN M(n) :
         /\ relation[k].path = walk[n].path /\ relation[k].group = G(n) + i - 1
         /\ relation[k].name = M(n)[i].name /\ relation[k].width = M(n)[i].width
  BY <1>2
<1>4. PICK o \in 1 .. Len(walk) : \E j \in DOMAIN M(o) :
         /\ relation[l].path = walk[o].path /\ relation[l].group = G(o) + j - 1
         /\ relation[l].name = M(o)[j].name /\ relation[l].width = M(o)[j].width
  BY <1>1
<1>5. PICK j \in DOMAIN M(o) :
         /\ relation[l].path = walk[o].path /\ relation[l].group = G(o) + j - 1
         /\ relation[l].name = M(o)[j].name /\ relation[l].width = M(o)[j].width
  BY <1>4
<1>6. IsWalk(P, walk) /\ Len(walk) \in Nat
  BY RelationIs
<1>7. /\ WellFormed(P[walk[n].of]) /\ WellFormed(P[walk[o].of])
  BY RelationIs
<1>8. /\ i \in 1 .. Len(M(n)) /\ Len(M(n)) \in Nat /\ M(n)[i].width \in Nat
      /\ j \in 1 .. Len(M(o)) /\ Len(M(o)) \in Nat
  BY <1>7 DEF WellFormed, IsSequence
<1>9. G(n) \in Nat /\ G(o) \in Nat
  BY <1>6, GroupsGrow
<1>10. n < o => G(n) + Len(M(n)) <= G(o)
  BY <1>6, GroupsGrow DEF ModuleAt
<1>11. o < n => G(o) + Len(M(o)) <= G(n)
  BY <1>6, GroupsGrow DEF ModuleAt
<1>12. G(n) + i - 1 = G(o) + j - 1
  BY <1>3, <1>5
<1>13. n = o
  <2>1. n \in Nat /\ o \in Nat
    BY <1>6
  <2>2. i \in Nat /\ i <= Len(M(n)) /\ 1 <= i /\ Len(M(n)) \in Nat
    BY <1>8
  <2>3. j \in Nat /\ j <= Len(M(o)) /\ 1 <= j /\ Len(M(o)) \in Nat
    BY <1>8
  <2> HIDE DEF G, M, walk
  <2>4. ~(n < o)
    BY <1>9, <1>10, <1>12, <2>2, <2>3, SMTT(30)
  <2>5. ~(o < n)
    BY <1>9, <1>11, <1>12, <2>2, <2>3, SMTT(30)
  <2> QED BY <2>1, <2>4, <2>5
<1>14. i = j
  <2> HIDE DEF G, M, walk
  <2>1. i \in Nat /\ j \in Nat
    BY <1>8
  <2> QED BY <1>9, <1>12, <1>13, <2>1
<1> HIDE DEF G, M, walk
<1> QED BY <1>3, <1>5, <1>8, <1>13, <1>14

\* The words of a memory take its bits, each word its own.
LEMMA WordsDisjoint == IsRelated => Miter!WordsAreDisjoint
<1> SUFFICES ASSUME IsRelated, NEW k \in DOMAIN relation, relation[k].kind = "memory"
             PROVE  LET group == {l \in DOMAIN relation : Miter!InGroup(relation[l], relation[k].group)}
                    IN /\ \A l \in group : relation[l].path = relation[k].path /\ relation[l].name = relation[k].name
                       /\ \A l \in group \ {k} : Miter!Slice(relation, l) \cap Miter!Slice(relation, k) = {}
                       /\ UNION {Miter!Slice(relation, l) : l \in group}
                            = 0 .. (Miter!Offsets(relation, relation[k].group)[Len(relation)] - 1)
  BY DEF Miter!WordsAreDisjoint
<1> DEFINE g == relation[k].group
           group == {l \in DOMAIN relation : Miter!InGroup(relation[l], g)}
           N == Len(relation)
           o == Miter!Offsets(relation, g)
<1>1. N \in Nat /\ DOMAIN relation = 1 .. N
  BY RelationIs
<1>2. ASSUME NEW l \in group
      PROVE  relation[l].path = relation[k].path /\ relation[l].name = relation[k].name /\ relation[l].width \in Nat
  <2>1. relation[l].kind = "memory" /\ relation[l].group = relation[k].group
    BY DEF Miter!InGroup
  <2> QED BY <2>1, SameGroup
<1>3. IsGroup(relation, g)
  BY <1>1, <1>2 DEF IsGroup
<1>4. /\ \A n \in 0 .. N : o[n] \in Nat
      /\ \A n \in 0 .. N : SlicesUpTo(relation, g, n) = 0 .. o[n] - 1
  BY <1>3, OffsetsAre, SlicesTake
<1>5. ASSUME NEW l \in group PROVE Miter!Slice(relation, l) = SliceOf(relation, g, l)
  <2>1. relation[l].group = g
    BY DEF Miter!InGroup
  <2> QED BY <2>1 DEF Miter!Slice, SliceOf
<1>6. k \in group
  BY DEF Miter!InGroup
<1>7. ASSUME NEW l \in group, NEW m \in group, l < m
      PROVE  SliceOf(relation, g, l) \cap SliceOf(relation, g, m) = {}
  <2>1. l \in 1 .. m - 1 /\ m - 1 \in 0 .. N /\ m \in 0 .. N
    BY <1>1, <1>7
  <2>2. SliceOf(relation, g, l) \subseteq SlicesUpTo(relation, g, m - 1)
    <3>1. l \in {x \in 1 .. m - 1 : Miter!InGroup(relation[x], g)}
      BY <2>1
    <3> QED BY <3>1, Zenon DEF SlicesUpTo
  <2>3. SliceOf(relation, g, l) \subseteq 0 .. o[m - 1] - 1
    BY <1>4, <2>1, <2>2
  <2>4. SliceOf(relation, g, m) = o[m - 1] .. o[m] - 1
    BY DEF SliceOf
  <2>5. o[m - 1] \in Nat /\ o[m] \in Nat
    BY <1>4, <2>1
  <2>6. (0 .. o[m - 1] - 1) \cap (o[m - 1] .. o[m] - 1) = {}
    <3> HIDE DEF o
    <3> QED BY <2>5
  <2> HIDE DEF o
  <2> QED BY <2>3, <2>4, <2>6
<1>8. ASSUME NEW l \in group \ {k} PROVE Miter!Slice(relation, l) \cap Miter!Slice(relation, k) = {}
  <2>1. l \in Nat /\ k \in Nat /\ l # k /\ l \in group
    BY <1>1
  <2>2. l < k \/ k < l
    BY <2>1
  <2>3. SliceOf(relation, g, l) \cap SliceOf(relation, g, k) = {}
    <3> HIDE DEF group, g
    <3>1. CASE l < k
      BY <1>6, <1>7, <2>1, <3>1
    <3>2. CASE k < l
      BY <1>6, <1>7, <2>1, <3>2
    <3> QED BY <2>2, <3>1, <3>2
  <2> HIDE DEF group, g
  <2> QED BY <1>5, <1>6, <2>1, <2>3
<1>9. UNION {Miter!Slice(relation, l) : l \in group} = 0 .. (o[N] - 1)
  <2>1. group = {x \in 1 .. N : Miter!InGroup(relation[x], g)}
    BY <1>1
  <2>2. {Miter!Slice(relation, l) : l \in group} = {SliceOf(relation, g, l) : l \in group}
    <3> HIDE DEF group, g
    <3> QED BY <1>5
  <2>3. UNION {Miter!Slice(relation, l) : l \in group} = SlicesUpTo(relation, g, N)
    BY <2>1, <2>2, Zenon DEF SlicesUpTo
  <2>4. N \in 0 .. N
    BY <1>1
  <2> HIDE DEF group, g, o
  <2> QED BY <1>4, <2>3, <2>4
<1> QED BY <1>2, <1>8, <1>9
--------------------------------------------------------------------------------
(* The steps of the miter.                                                   *)

RelationInv ==
  part = "miter" =>
    /\ miter \in Miters
    /\ relation # None => IsRelated

LEMMA RelationInit == KianvInit => RelationInv
BY DEF KianvInit, Miter!Init, RelationInv

\* A miter that was not refused has its root.
LEMMA RootPresent ==
  ASSUME NEW m, ~Miter!Raises(m)
  PROVE  m.root \in DOMAIN m.package
<1> DEFINE reached == Miter!Reached(m.package, m.root, m.flatten)
<1>1. \A n \in reached : n \in DOMAIN m.package
  BY DEF Miter!Raises
<1>2. m.root \in reached
  BY DEF Miter!Reached
<1> QED BY <1>1, <1>2

LEMMA RelationStep == RelationInv /\ [KianvNext]_allVars => RelationInv'
<1> SUFFICES ASSUME RelationInv, [KianvNext]_allVars, part' = "miter" PROVE RelationInv'
  BY DEF RelationInv
<1>1. CASE UNCHANGED <<part, miter, relation>>
  BY <1>1 DEF RelationInv, IsRelated
<1>2. CASE part = "miter" /\ Miter!Relate
  <2>1. /\ miter' = miter /\ ~Miter!Raises(miter)
        /\ relation' = Miter!Visit(miter.package, miter.root, miter.flatten)
    BY <1>2 DEF Miter!Relate
  <2>2. Miter!Cardinality({Miter!Side(p) : p \in Miter!Members(relation')}) = Len(relation')
    BY <1>2 DEF Miter!Relate
  <2>3. miter.root \in DOMAIN miter.package
    BY <2>1, RootPresent
  <2>4. miter \in Miters
    BY <1>2 DEF RelationInv
  <2>5. IsRelated'
    BY <2>1, <2>2, <2>3, <2>4 DEF IsRelated
  <2> QED BY <2>1, <2>4, <2>5 DEF RelationInv
<1>3. CASE Miter!Command /\ part' = part
  BY <1>1, <1>3 DEF Miter!Command
<1> QED BY <1>1, <1>2, <1>3
      DEF KianvNext, RunnerStep, MiterStep, HandoffStep, allVars, ofMiter, Miter!Next

\* A miter that is proved says that the designs agree: its pairs relate every
\* register slice and memory word of the instances below its root once, the words
\* of a memory share no bit of the wire they are packed in, and the executed
\* harness leaves every output of a child with its contract and observes every
\* input at a net that is driven (state_pairs, add_memory_relation_wires,
\* add_child_harness).
THEOREM MitersAreSound == KianvSpec => []MiterIsSound
<1>1. KianvInit => CutsInv /\ RelationInv
  BY CutsInit, RelationInit
<1>2. (CutsInv /\ RelationInv) /\ [KianvNext]_allVars => (CutsInv /\ RelationInv)'
  BY CutsStep, RelationStep
<1>3. CutsInv /\ RelationInv => MiterIsSound
  <2> SUFFICES ASSUME CutsInv, RelationInv, part = "miter"
               PROVE  Miter!RelationIsComplete /\ Miter!CutsKeepContracts
    BY DEF MiterIsSound
  <2>1. relation # None => IsRelated
    BY DEF RelationInv
  <2> QED BY <2>1, PairsExact, WordsDisjoint, CutsKeep DEF Miter!RelationIsComplete
<1> QED BY <1>1, <1>2, <1>3, PTL DEF KianvSpec
================================================================================
