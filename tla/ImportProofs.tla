------------------------------ MODULE ImportProofs ------------------------------
(***************************************************************************)
(* What the importer writes about a package: the modules it holds and the   *)
(* tables their expressions are interned in; what its memories hold; and    *)
(* what a module it passes means.                                          *)
(***************************************************************************)
EXTENDS MCImport, Induction, FiniteSetTheorems, SequenceTheorems

\* One child more of a module, when it is met for the first time.
Met(kinds, unseen, i, before) ==
  IF kinds[i] \in unseen /\ \A j \in DOMAIN before : before[j] # kinds[i] THEN Append(before, kinds[i]) ELSE before

LEMMA CollectedIs ==
  ASSUME NEW kinds, IsSequence(kinds), NEW unseen
  PROVE  /\ P!Collected(kinds, unseen) \in Seq(unseen)
         /\ {kinds[i] : i \in DOMAIN kinds} \cap unseen
              = {P!Collected(kinds, unseen)[j] : j \in DOMAIN P!Collected(kinds, unseen)}
<1> DEFINE N == Len(kinds)
           R == Seq(unseen)
           ValueAt(f, i) == IF i = 0 THEN <<>> ELSE Met(kinds, unseen, i, f[i - 1])
           Body(f) == [i \in 0 .. N |-> ValueAt(f, i)]
           f == CHOOSE g : g = Body(g)
           Step == [p \in (1 .. N) \X R |-> Met(kinds, unseen, p[1], p[2])]
<1>1. N \in Nat /\ DOMAIN kinds = 1 .. N
  BY DEF IsSequence
<1>2. P!Collected(kinds, unseen) = f[N]
  BY DEF P!Collected, Met
<1>3. ASSUME NEW i \in 1 .. N, NEW r \in R PROVE Met(kinds, unseen, i, r) \in R
  BY DEF Met
<1>4. Step \in [(1 .. N) \X R -> R] /\ <<>> \in R
  <2> HIDE DEF R
  <2>1. Step \in [(1 .. N) \X R -> R]
    BY <1>3
  <2> QED BY <2>1 DEF R
<1>5. PICK g : Stepped(g, R, <<>>, Step, N)
  <2> HIDE DEF R, Step, N
  <2> QED BY <1>1, <1>4, Iteration
<1>a. g \in [0 .. N -> R] /\ g[0] = <<>> /\ \A i \in 1 .. N : g[i] = Step[<<i, g[i - 1]>>]
  <2> HIDE DEF R, Step, N
  <2> QED BY <1>5 DEF Stepped
<1>6. g = Body(g)
  <2>1. ASSUME NEW i \in 0 .. N PROVE g[i] = ValueAt(g, i)
    <3>1. CASE i = 0
      BY <1>a, <3>1
    <3>2. CASE i # 0
      <4>1. i \in 1 .. N /\ i - 1 \in 0 .. N
        BY <1>1, <3>2
      <4>2. g[i - 1] \in R
        <5> HIDE DEF R
        <5> QED BY <1>a, <4>1
      <4>3. Step[<<i, g[i - 1]>>] = Met(kinds, unseen, i, g[i - 1])
        <5> HIDE DEF R
        <5> QED BY <4>1, <4>2
      <4> HIDE DEF R, Step
      <4> QED BY <1>a, <3>2, <4>1, <4>3
    <3> QED BY <3>1, <3>2
  <2> HIDE DEF ValueAt, R
  <2> QED BY <1>a, <2>1
<1>7. f = Body(f)
  <2> HIDE DEF Body
  <2> QED BY <1>6
<1> HIDE DEF f
<1>8. f[0] = <<>> /\ \A i \in 1 .. N : f[i] = Met(kinds, unseen, i, f[i - 1])
  <2>1. \A i \in 0 .. N : Body(f)[i] = ValueAt(f, i)
    <3> HIDE DEF ValueAt
    <3> QED OBVIOUS
  <2>2. \A i \in 0 .. N : f[i] = ValueAt(f, i)
    <3> HIDE DEF Body, ValueAt
    <3> QED BY <1>7, <2>1
  <2> QED BY <1>1, <2>2
<1> DEFINE Has(i) == {kinds[n] : n \in 1 .. i} \cap unseen = {f[i][j] : j \in DOMAIN f[i]}
           S == {i \in Nat : i <= N => f[i] \in R /\ Has(i)}
<1>9. 0 \in S
  <2>1. f[0] \in R /\ DOMAIN f[0] = {}
    BY <1>8
  <2>2. Has(0)
    BY <2>1
  <2> HIDE DEF Has, R, N
  <2> QED BY <2>1, <2>2
<1>10. ASSUME NEW i \in Nat, i \in S PROVE i + 1 \in S
  <2>1. SUFFICES ASSUME i + 1 <= N PROVE f[i + 1] \in R /\ Has(i + 1)
    <3> HIDE DEF Has, R, N
    <3> QED OBVIOUS
  <2>2. PICK m : m = i + 1
    OBVIOUS
  <2>3. m \in 1 .. N /\ m - 1 = i /\ i <= N
    BY <2>1, <2>2
  <2>4. f[i] \in R /\ Has(i)
    BY <1>10, <2>3
  <2>5. f[m] = Met(kinds, unseen, m, f[i])
    BY <1>8, <2>3
  <2>6. {kinds[n] : n \in 1 .. m} = {kinds[n] : n \in 1 .. i} \cup {kinds[m]}
    BY <2>2, <2>3
  <2>7. CASE kinds[m] \in unseen /\ \A j \in DOMAIN f[i] : f[i][j] # kinds[m]
    <3>1. f[m] = Append(f[i], kinds[m])
      BY <2>5, <2>7 DEF Met
    <3>2. f[m] \in R
      BY <2>4, <2>7, <3>1
    <3>3. {f[m][j] : j \in DOMAIN f[m]} = {f[i][j] : j \in DOMAIN f[i]} \cup {kinds[m]}
      <4>1. DOMAIN f[m] = DOMAIN f[i] \cup {Len(f[i]) + 1} /\ f[m][Len(f[i]) + 1] = kinds[m]
            /\ \A j \in DOMAIN f[i] : f[m][j] = f[i][j]
        BY <2>4, <2>7, <3>1
      <4> HIDE DEF R
      <4> QED BY <4>1
    <3>4. Has(m)
      <4> HIDE DEF f, R
      <4> QED BY <2>4, <2>6, <2>7, <3>3
    <3> QED BY <2>2, <3>2, <3>4
  <2>8. CASE ~(kinds[m] \in unseen /\ \A j \in DOMAIN f[i] : f[i][j] # kinds[m])
    <3>1. f[m] = f[i]
      BY <2>5, <2>8 DEF Met
    <3>2. Has(m)
      <4> HIDE DEF f, R
      <4> QED BY <2>4, <2>6, <2>8, <3>1
    <3> QED BY <2>2, <2>4, <3>1, <3>2
  <2> QED BY <2>7, <2>8
<1>11. N \in S
  <2> HIDE DEF S
  <2> QED BY <1>1, <1>9, <1>10, SetInduction
<1>12. f[N] \in R /\ Has(N)
  BY <1>1, <1>11
<1> QED BY <1>1, <1>2, <1>12
--------------------------------------------------------------------------------
(* The package: a worklist finds the modules below the selected one, and      *)
(* they are translated in order.                                           *)

\* The facts about an injective sequence: it is as long as its set is large.
LEMMA SequenceCounts ==
  ASSUME NEW T, NEW s \in Seq(T), \A i, j \in DOMAIN s : s[i] = s[j] => i = j
  PROVE  Cardinality({s[i] : i \in DOMAIN s}) = Len(s)
<1> DEFINE S == {s[i] : i \in DOMAIN s}
<1>1. DOMAIN s = 1 .. Len(s) /\ Len(s) \in Nat /\ s \in [1 .. Len(s) -> S]
  OBVIOUS
<1>2. IsFiniteSet(1 .. Len(s)) /\ Cardinality(1 .. Len(s)) = Len(s)
  <2>1. PICK n \in Nat : n = Len(s)
    BY <1>1
  <2>2. IsFiniteSet(1 .. n) /\ Cardinality(1 .. n) = n
    BY FS_Interval
  <2> QED BY <2>1, <2>2
<1>3. s \in Surjection(1 .. Len(s), S) /\ s \in Injection(1 .. Len(s), S)
  BY <1>1 DEF Surjection, Injection, IsInjective
<1> HIDE DEF S
<1>4. Cardinality(S) = Cardinality(1 .. Len(s))
  BY <1>2, <1>3, FS_Surjection
<1> QED BY <1>2, <1>4 DEF S

Walked == selection[1] = "package"
ClosedBelow(S) == Walked => \A n \in S : P!Below(n) \subseteq S

\* What is referred to is the least set with the selected module and, for a
\* package, all that is below its members.
LEMMA ReferenceIs ==
  ASSUME selection[2] \in P!Names
  PROVE  /\ P!Reference \subseteq P!Names
         /\ selection[2] \in P!Reference
         /\ ClosedBelow(P!Reference)
         /\ \A S \in SUBSET P!Names : selection[2] \in S /\ ClosedBelow(S) => P!Reference \subseteq S
<1>1. P!Reference = {n \in P!Names : \A S \in SUBSET P!Names : selection[2] \in S /\ ClosedBelow(S) => n \in S}
  BY DEF P!Reference, ClosedBelow, Walked
<1>2. ASSUME Walked, NEW n \in P!Reference, NEW x \in P!Below(n) PROVE x \in P!Reference
  <2>1. x \in P!Names
    BY DEF P!Below
  <2>2. ASSUME NEW S \in SUBSET P!Names, selection[2] \in S, ClosedBelow(S) PROVE x \in S
    <3>1. n \in S
      BY <1>1, <2>2
    <3> QED BY <1>2, <2>2, <3>1 DEF ClosedBelow
  <2> QED BY <1>1, <2>1, <2>2
<1>3. ClosedBelow(P!Reference)
  BY <1>2 DEF ClosedBelow
<1>4. P!Reference \subseteq P!Names /\ selection[2] \in P!Reference
  BY <1>1
<1>5. ASSUME NEW S \in SUBSET P!Names, selection[2] \in S, ClosedBelow(S), NEW n \in P!Reference PROVE n \in S
  BY <1>1, <1>5
<1> QED BY <1>3, <1>4, <1>5

PackagePhases == {"start", "refused", "closing", "translating", "manifest", "pass", "blocked"}
Begun == phase \notin {"start", "refused"}
Ended == {"manifest", "pass", "blocked"}

(* The inductive invariant. Whatever was remembered is below the selected     *)
(* module, and what is below it is remembered unless it is still pending; a   *)
(* module is translated once, and what is written is about all of them.      *)
PackageTypes ==
  /\ design \in Designs
  /\ phase \in PackagePhases
  /\ selection[1] \in {"module", "package"}
Closure ==
  Begun =>
    /\ identified
    /\ selection[2] \in P!Names
    /\ selection[2] \in reachable /\ reachable \subseteq P!Reference
    /\ phase = "closing" => Walked /\ pending \in Seq(reachable)
    /\ Walked => \A n \in reachable : \/ phase = "closing" /\ n \in Members(pending)
                                      \/ P!Below(n) \subseteq reachable
Sequel ==
  /\ translated \in Seq(reachable)
  /\ \A i, j \in DOMAIN translated : translated[i] = translated[j] => i = j
  /\ ~Begun => translated = <<>>
  /\ phase \in Ended => P!Done = reachable
Output ==
  /\ phase = "manifest" => files = {<<"output", P!Written>>}
  /\ phase \in {"pass", "blocked"} => files = {<<"output", P!Written>>, <<"manifest", P!Written>>}
  /\ phase = "pass" => P!Written.blockers = {}
PackageInv == part = "package" => PackageTypes /\ Closure /\ Sequel /\ Output

LEMMA PackageInit == ImportInit => PackageInv
<1> SUFFICES ASSUME ImportInit, part = "package" PROVE PackageTypes /\ Closure /\ Sequel /\ Output
  BY DEF PackageInv
<1>1. P!Init
  BY DEF ImportInit
<1> QED BY <1>1 DEF P!Init, PackageTypes, PackagePhases, Begun, Closure, Sequel, Output, Ended

\* A step is a step of the package, or leaves the package alone.
LEMMA StepOfPackage ==
  ASSUME part = "package", [ImportNext]_allVars
  PROVE  part' = "package" /\ (P!Next \/ UNCHANGED P!vars)
<1>1. CASE PackageStep
  BY <1>1 DEF PackageStep
<1>2. CASE UNCHANGED allVars
  BY <1>2 DEF allVars, ofPackage, P!vars, P!input
<1> QED BY <1>1, <1>2 DEF ImportNext, CellStep, MemoryStep, ModuleStep

\* What a step leaves of the design and the selection.
LEMMA SameInput ==
  ASSUME UNCHANGED <<design, selection>>
  PROVE  /\ P!Reference' = P!Reference /\ P!Names' = P!Names /\ Walked' = Walked
         /\ \A n : P!Below(n)' = P!Below(n)
<1>1. P!Names' = P!Names /\ Walked' = Walked /\ \A n : P!Below(n)' = P!Below(n)
  BY DEF P!Names, P!Below, Walked
<1> QED BY <1>1 DEF P!Reference, P!Names, P!Below

LEMMA CloseStep ==
  ASSUME PackageTypes, Closure, P!Close
  PROVE  /\ reachable \subseteq reachable'
         /\ Closure'
<1> USE DEF Begun, PackageTypes
<1>1. /\ phase = "closing" /\ phase' = phase /\ UNCHANGED <<design, selection, identified>>
      /\ pending # <<>>
  BY DEF P!Close, P!input
<1>2. /\ identified /\ selection[2] \in P!Names
      /\ selection[2] \in reachable /\ reachable \subseteq P!Reference
      /\ Walked /\ pending \in Seq(reachable)
      /\ \A n \in reachable : n \in Members(pending) \/ P!Below(n) \subseteq reachable
  BY <1>1 DEF Closure
<1> DEFINE last == Len(pending)
           parent == pending[last]
           children == P!Fresh(design[parent].cells)
           front == SubSeq(pending, 1, last - 1)
<1>3. reachable' = reachable \cup Members(children) /\ pending' = front \o children
  BY DEF P!Close, Members
<1>4. last \in Nat /\ last > 0 /\ parent \in reachable
  BY <1>1, <1>2
<1>5. /\ P!Reference \subseteq P!Names /\ ClosedBelow(P!Reference)
  BY <1>2, ReferenceIs
<1>6. parent \in DOMAIN design /\ IsSequence(design[parent].cells)
  <2>1. parent \in DOMAIN design
    BY <1>2, <1>4, <1>5 DEF P!Names
  <2> QED BY <2>1, DesignsAssumption
<1>7. /\ children \in Seq(P!Names \ reachable)
      /\ Members(children) = P!Below(parent) \ reachable
  <2> DEFINE kinds == design[parent].cells
             unseen == P!Names \ reachable
  <2>1. children = P!Collected(kinds, unseen)
    BY DEF P!Fresh
  <2>2. P!Below(parent) = {kinds[i] : i \in DOMAIN kinds} \cap P!Names
    BY DEF P!Below
  <2> HIDE DEF kinds, unseen, children, parent
  <2>3. /\ children \in Seq(unseen)
        /\ {kinds[i] : i \in DOMAIN kinds} \cap unseen = {children[j] : j \in DOMAIN children}
    BY <1>6, <2>1, CollectedIs DEF kinds
  <2> QED BY <2>2, <2>3 DEF unseen, Members
<1> HIDE DEF children
<1>8. P!Below(parent) \subseteq P!Reference
  BY <1>2, <1>4, <1>5 DEF ClosedBelow
<1>9. reachable' \subseteq P!Reference /\ P!Below(parent) \subseteq reachable' /\ reachable \subseteq reachable'
  BY <1>2, <1>3, <1>7, <1>8
<1>10. front \in Seq(reachable') /\ Len(front) = last - 1 /\ \A i \in 1 .. last - 1 : front[i] = pending[i]
  <2>1. PICK n : n = last - 1
    OBVIOUS
  <2>2. n \in Nat /\ n <= Len(pending) /\ pending \in Seq(reachable')
    BY <1>2, <1>4, <1>9, <2>1
  <2>3. SubSeq(pending, 1, n) \in Seq(reachable') /\ Len(SubSeq(pending, 1, n)) = n
        /\ \A i \in 1 .. n : SubSeq(pending, 1, n)[i] = pending[i]
    BY <2>2
  <2> QED BY <2>1, <2>3
<1>11. children \in Seq(reachable')
  <2>1. \A i \in DOMAIN children : children[i] \in reachable'
    BY <1>3 DEF Members
  <2> QED BY <1>7, <2>1
<1> HIDE DEF front
<1>12. pending' \in Seq(reachable') /\ Members(pending') = Members(front) \cup Members(children)
  <2>1. front \o children \in Seq(reachable')
    BY <1>10, <1>11
  <2>2. /\ \A i \in DOMAIN front : (front \o children)[i] = front[i] /\ i \in DOMAIN (front \o children)
        /\ \A i \in DOMAIN children : /\ (front \o children)[Len(front) + i] = children[i]
                                      /\ Len(front) + i \in DOMAIN (front \o children)
        /\ \A i \in DOMAIN (front \o children) :
             \/ i \in DOMAIN front
             \/ i - Len(front) \in DOMAIN children /\ (front \o children)[i] = children[i - Len(front)]
    BY <1>10, <1>11
  <2>3. Members(front \o children) = Members(front) \cup Members(children)
    <3> DEFINE both == front \o children
    <3>1. ASSUME NEW i \in DOMAIN both PROVE both[i] \in Members(front) \cup Members(children)
      BY <2>2 DEF Members
    <3>2. ASSUME NEW i \in DOMAIN front PROVE front[i] \in Members(both)
      BY <2>2 DEF Members
    <3>3. ASSUME NEW i \in DOMAIN children PROVE children[i] \in Members(both)
      BY <2>2 DEF Members
    <3> HIDE DEF both
    <3>4. Members(both) \subseteq Members(front) \cup Members(children)
      <4> DEFINE all == Members(front) \cup Members(children)
      <4> HIDE DEF all
      <4>1. \A i \in DOMAIN both : both[i] \in all
        BY <3>1 DEF all
      <4> QED BY <4>1 DEF Members, all
    <3>5. Members(front) \subseteq Members(both)
      <4> DEFINE all == Members(both)
      <4> HIDE DEF all
      <4>1. \A i \in DOMAIN front : front[i] \in all
        BY <3>2 DEF all
      <4> QED BY <4>1 DEF Members, all
    <3>6. Members(children) \subseteq Members(both)
      <4> DEFINE all == Members(both)
      <4> HIDE DEF all
      <4>1. \A i \in DOMAIN children : children[i] \in all
        BY <3>3 DEF all
      <4> QED BY <4>1 DEF Members, all
    <3> QED BY <3>4, <3>5, <3>6 DEF both
  <2> QED BY <1>3, <2>1, <2>3
<1>13. Members(pending) = Members(front) \cup {parent}
  <2>1. DOMAIN pending = (1 .. last - 1) \cup {last} /\ DOMAIN front = 1 .. last - 1
    BY <1>2, <1>4, <1>10
  <2> QED BY <1>10, <2>1 DEF Members
<1>14. ASSUME NEW n \in reachable', n \notin Members(pending') PROVE P!Below(n) \subseteq reachable'
  <2>1. n \in reachable
    BY <1>3, <1>12, <1>14
  <2>2. CASE n = parent
    BY <1>9, <2>2
  <2>3. CASE n # parent
    BY <1>2, <1>9, <1>12, <1>13, <1>14, <2>1, <2>3
  <2> QED BY <2>2, <2>3
<1>15. P!Reference' = P!Reference /\ P!Names' = P!Names /\ Walked' = Walked /\ \A n : P!Below(n)' = P!Below(n)
  BY <1>1, SameInput
<1>16. Members(pending)' = Members(pending')
  BY DEF Members
<1> QED BY <1>1, <1>2, <1>9, <1>12, <1>14, <1>15, <1>16 DEF Closure

\* The next module is one that is not done.
LEMMA CurrentIs ==
  ASSUME P!Rest # {}, P!Rest \subseteq Nat
  PROVE  P!Current \in P!Rest
<1>1. PICK m \in P!Rest : \A y \in P!Rest : m <= y
  BY LeastNatural
<1> HIDE DEF P!Rest
<1> QED BY <1>1 DEF P!Current

LEMMA TranslateStep ==
  ASSUME PackageTypes, Closure, Sequel, P!Translate
  PROVE  /\ P!Current \in reachable /\ translated' = Append(translated, P!Current)
         /\ Closure' /\ Sequel'
<1>1. /\ phase = "translating" /\ phase' = phase /\ UNCHANGED <<design, selection, identified, reachable, pending>>
      /\ translated' = Append(translated, P!Current) /\ P!Rest # {}
  BY DEF P!Translate, P!input
<1>2. reachable \subseteq Nat
  <2>1. P!Reference \subseteq P!Names /\ reachable \subseteq P!Reference
    BY <1>1, ReferenceIs DEF Closure, Begun
  <2> QED BY <2>1, DesignsAssumption DEF P!Names, PackageTypes
<1>3. P!Current \in reachable \ P!Done
  BY <1>1, <1>2, CurrentIs DEF P!Rest
<1>4. Closure'
  <2>1. P!Reference' = P!Reference /\ P!Names' = P!Names /\ Walked' = Walked /\ \A n : P!Below(n)' = P!Below(n)
    BY <1>1, SameInput
  <2> QED BY <1>1, <2>1 DEF Closure, Begun
<1> DEFINE c == P!Current
<1>5. c \in reachable /\ \A i \in DOMAIN translated : translated[i] # c
  BY <1>3 DEF P!Done
<1> HIDE DEF c
<1>6. /\ translated' \in Seq(reachable)
      /\ DOMAIN translated' = DOMAIN translated \cup {Len(translated) + 1} /\ translated'[Len(translated) + 1] = c
      /\ \A i \in DOMAIN translated : translated'[i] = translated[i]
  BY <1>1, <1>5 DEF Sequel, c
<1>7. ASSUME NEW i \in DOMAIN translated', NEW j \in DOMAIN translated', translated'[i] = translated'[j] PROVE i = j
  BY <1>5, <1>6, <1>7 DEF Sequel
<1>8. phase' \notin Ended
  BY <1>1 DEF Ended
<1> QED BY <1>1, <1>3, <1>4, <1>6, <1>7, <1>8 DEF Sequel, Begun

LEMMA PackageStepKeeps == PackageInv /\ [ImportNext]_allVars => PackageInv'
<1> SUFFICES ASSUME PackageInv, [ImportNext]_allVars, part' = "package"
             PROVE  (PackageTypes /\ Closure /\ Sequel /\ Output)'
  BY DEF PackageInv
<1>1. part = "package"
  BY DEF ImportNext, CellStep, MemoryStep, ModuleStep, PackageStep, allVars
<1>2. PackageTypes /\ Closure /\ Sequel /\ Output
  BY <1>1 DEF PackageInv
<1>3. P!Next \/ UNCHANGED P!vars
  BY <1>1, StepOfPackage
<1>4. PackageTypes'
  BY <1>2, <1>3 DEF PackageTypes, PackagePhases, P!Next, P!Refuse, P!Select, P!Close, P!Closed, P!Translate,
                    P!WriteOutput, P!WriteManifest, P!Stop, P!vars, P!input
<1>5. UNCHANGED <<design, selection>>
  BY <1>3 DEF P!Next, P!Refuse, P!Select, P!Close, P!Closed, P!Translate,
              P!WriteOutput, P!WriteManifest, P!Stop, P!vars, P!input
<1>6. P!Reference' = P!Reference /\ P!Names' = P!Names /\ Walked' = Walked /\ \A n : P!Below(n)' = P!Below(n)
  BY <1>5, SameInput
<1>7. CASE P!Refuse
  BY <1>2, <1>4, <1>7 DEF P!Refuse, P!Stop, Closure, Begun, Sequel, Ended, Output
<1>8. CASE P!Select
  <2>1. /\ phase = "start" /\ identified /\ selection[2] \in P!Names
        /\ phase' = (IF Walked THEN "closing" ELSE "translating")
        /\ reachable' = {selection[2]} /\ pending' = <<selection[2]>>
        /\ UNCHANGED <<identified, translated, files>>
    BY <1>8 DEF P!Select, P!input, Walked
  <2>2. selection[2] \in P!Reference /\ P!Reference \subseteq P!Names
    BY <2>1, ReferenceIs
  <2>3. translated = <<>>
    BY <1>2, <2>1 DEF Sequel, Begun
  <2>4. Closure'
    BY <1>5, <1>6, <2>1, <2>2 DEF Closure, Begun, Members
  <2>5. Sequel' /\ Output'
    BY <2>1, <2>3 DEF Sequel, Ended, Begun, Output
  <2> QED BY <1>4, <2>4, <2>5
<1>9. CASE P!Close
  <2>1. reachable \subseteq reachable' /\ Closure' /\ phase = "closing" /\ phase' = "closing" /\ UNCHANGED translated
    BY <1>2, <1>9, CloseStep DEF P!Close
  <2>2. Sequel' /\ Output'
    BY <1>2, <2>1 DEF Sequel, Ended, Begun, Output
  <2> QED BY <1>4, <2>1, <2>2
<1>10. CASE P!Closed
  <2>1. phase = "closing" /\ pending = <<>> /\ phase' = "translating"
        /\ UNCHANGED <<identified, reachable, pending, translated, files>>
    BY <1>10 DEF P!Closed, P!input
  <2>2. Members(pending) = {}
    BY <2>1 DEF Members
  <2>3. Closure'
    BY <1>2, <1>5, <1>6, <2>1, <2>2 DEF Closure, Begun
  <2>4. Sequel' /\ Output'
    BY <1>2, <2>1 DEF Sequel, Ended, Begun, Output
  <2> QED BY <1>4, <2>3, <2>4
<1>11. CASE P!Translate
  <2>1. phase = "translating" /\ phase' = "translating"
    BY <1>11 DEF P!Translate
  <2>2. Output'
    BY <2>1 DEF Output
  <2> QED BY <1>2, <1>4, <1>11, <2>2, TranslateStep
<1>12. CASE P!WriteOutput
  <2>1. /\ phase = "translating" /\ phase' = "manifest" /\ P!Rest = {} /\ files' = {<<"output", P!Written>>}
        /\ UNCHANGED <<identified, reachable, pending, translated>>
    BY <1>12 DEF P!WriteOutput, P!input
  <2>2. P!Written' = P!Written /\ P!Done' = P!Done
    BY <1>5, <2>1 DEF P!Written, P!Done
  <2>3. P!Done = reachable
    <3>1. P!Done \subseteq reachable
      BY <1>2 DEF P!Done, Sequel
    <3> QED BY <2>1, <3>1 DEF P!Rest
  <2>4. Closure'
    BY <1>2, <1>5, <1>6, <2>1 DEF Closure, Begun
  <2>5. Sequel' /\ Output'
    BY <1>2, <2>1, <2>2, <2>3 DEF Sequel, Ended, Begun, Output
  <2> QED BY <1>4, <2>4, <2>5
<1>13. CASE P!WriteManifest
  <2>1. /\ phase = "manifest" /\ UNCHANGED <<identified, reachable, pending, translated>>
        /\ files' = files \cup {<<"manifest", f[2]>> : f \in files}
        /\ phase' = IF \A f \in files : f[2].blockers = {} THEN "pass" ELSE "blocked"
    BY <1>13 DEF P!WriteManifest, P!input
  <2>2. P!Written' = P!Written /\ P!Done' = P!Done
    BY <1>5, <2>1 DEF P!Written, P!Done
  <2>3. files = {<<"output", P!Written>>}
    BY <1>2, <2>1 DEF Output
  <2>4. files' = {<<"output", P!Written>>, <<"manifest", P!Written>>} /\ (phase' = "pass" => P!Written.blockers = {})
    <3> DEFINE w == P!Written
    <3> HIDE DEF w
    <3>1. files = {<<"output", w>>} /\ <<"output", w>>[2] = w
      BY <2>3 DEF w
    <3>2. {<<"manifest", f[2]>> : f \in files} = {<<"manifest", w>>}
      BY <3>1
    <3> QED BY <2>1, <3>1, <3>2 DEF w
  <2>5. Closure'
    BY <1>2, <1>5, <1>6, <2>1 DEF Closure, Begun
  <2>6. Sequel'
    BY <1>2, <2>1, <2>2 DEF Sequel, Ended, Begun
  <2>7. Output'
    BY <2>1, <2>2, <2>4 DEF Output
  <2> QED BY <1>4, <2>5, <2>6, <2>7
<1>14. CASE UNCHANGED P!vars
  <2>1. P!Written' = P!Written /\ P!Done' = P!Done /\ UNCHANGED <<phase, identified, reachable, pending, translated, files>>
    BY <1>14 DEF P!Written, P!Done, P!vars, P!input
  <2>2. Closure'
    BY <1>2, <1>5, <1>6, <2>1 DEF Closure, Begun
  <2>3. Sequel' /\ Output'
    BY <1>2, <2>1 DEF Sequel, Ended, Begun, Output
  <2> QED BY <1>4, <2>2, <2>3
<1> QED BY <1>3, <1>7, <1>8, <1>9, <1>10, <1>11, <1>12, <1>13, <1>14 DEF P!Next

LEMMA PackageIsComplete == PackageInv => PassIsComplete
<1> SUFFICES ASSUME PackageInv, part = "package", phase = "pass" PROVE P!PassIsComplete
  BY DEF PassIsComplete, P!PassIsComplete
<1>1. PackageTypes /\ Closure /\ Sequel /\ Output
  BY DEF PackageInv
<1>2. /\ identified /\ selection[2] \in P!Names /\ selection[2] \in reachable /\ reachable \subseteq P!Reference
      /\ ClosedBelow(reachable)
  BY <1>1 DEF Closure, Begun, ClosedBelow
<1>3. reachable \subseteq P!Names /\ P!Reference \subseteq reachable
  BY <1>2, ReferenceIs
<1>4. P!Done = P!Reference
  BY <1>1, <1>2, <1>3 DEF Sequel, Ended, Begun
<1>5. Len(translated) = Cardinality(P!Reference)
  <2>1. Cardinality({translated[i] : i \in DOMAIN translated}) = Len(translated)
    BY <1>1, SequenceCounts DEF Sequel
  <2> QED BY <1>4, <2>1 DEF P!Done
<1>6. P!Written.modules = translated /\ P!Written.blockers = {n \in P!Done : design[n].blockers}
  BY DEF P!Written
<1>7. \A n \in P!Reference : ~design[n].blockers
  <2>1. P!Written.blockers = {}
    BY <1>1 DEF Output
  <2> QED BY <1>4, <1>6, <2>1
<1>8. (\A f \in files : f[2].modules = translated) /\ Cardinality(files) = 2
  <2> DEFINE w == P!Written
             a == <<"output", w>>
             b == <<"manifest", w>>
  <2>1. files = {a, b}
    BY <1>1 DEF Output
  <2>2. a # b /\ a[2] = w /\ b[2] = w /\ w.modules = translated
    BY <1>6
  <2> HIDE DEF a, b, w
  <2>3. IsFiniteSet({a}) /\ Cardinality({a}) = 1
    BY FS_Singleton
  <2>4. Cardinality({a} \cup {b}) = 2
    <3>1. b \notin {a}
      BY <2>2
    <3>2. Cardinality({a} \cup {b}) = IF b \in {a} THEN Cardinality({a}) ELSE Cardinality({a}) + 1
      BY <2>3, FS_AddElement, Zenon
    <3> QED BY <2>3, <3>1, <3>2
  <2>5. {a} \cup {b} = {a, b}
    OBVIOUS
  <2> QED BY <2>1, <2>2, <2>4, <2>5
<1>9. identified
  BY <1>2
<1>10. \A S : P!Cardinality(S) = Cardinality(S)
  BY DEF P!Cardinality, Cardinality
<1> QED BY <1>4, <1>5, <1>7, <1>8, <1>9, <1>10 DEF P!PassIsComplete

\* A package that passes holds every module below its top once, and no other,
\* for designs of any size. Code: main.
THEOREM PackagesAreComplete == ImportSpec => []PassIsComplete
<1> QED BY PackageInit, PackageStepKeeps, PackageIsComplete, PTL DEF ImportSpec

--------------------------------------------------------------------------------
(* The table: an object is given its row after its parts, and once.          *)
IsHeap(heap) ==
  /\ IsSequence(heap)
  /\ \A o \in DOMAIN heap :
       /\ heap[o] = [op |-> heap[o].op, parts |-> heap[o].parts]
       /\ IsSequence(heap[o].parts) /\ Members(heap[o].parts) \subseteq 1 .. o - 1
Orders(heap) == Seq(DOMAIN heap)
Interns(heap) == [DOMAIN heap -> [Orders(heap) -> Orders(heap)]]
Handles(f, objects, heap) == \A i \in 1 .. Len(objects) : f[objects[i]] \in [Orders(heap) -> Orders(heap)]
Agree(f, g, objects) == \A i \in 1 .. Len(objects) : f[objects[i]] = g[objects[i]]
AreObjects(objects, heap) == IsSequence(objects) /\ Members(objects) \subseteq DOMAIN heap

\* The orders after the first objects, one by one.
IsChain(c, heap, intern, objects, order) ==
  /\ c \in [0 .. Len(objects) -> Orders(heap)]
  /\ c[0] = order
  /\ \A i \in 1 .. Len(objects) : c[i] = intern[objects[i]][c[i - 1]]

LEMMA ObjectsAre ==
  ASSUME NEW heap, NEW objects, AreObjects(objects, heap)
  PROVE  /\ Len(objects) \in Nat /\ DOMAIN objects = 1 .. Len(objects)
         /\ \A i \in 1 .. Len(objects) : objects[i] \in DOMAIN heap
BY DEF AreObjects, IsSequence, Members

LEMMA PartsAre ==
  ASSUME NEW heap, IsHeap(heap), NEW o \in DOMAIN heap
  PROVE  /\ AreObjects(heap[o].parts, heap) /\ o \in Nat /\ Len(heap) \in Nat /\ DOMAIN heap = 1 .. Len(heap)
         /\ \A i \in DOMAIN heap[o].parts : heap[o].parts[i] \in 1 .. o - 1
<1>1. DOMAIN heap = 1 .. Len(heap) /\ Len(heap) \in Nat
  BY DEF IsHeap, IsSequence
<1>2. IsSequence(heap[o].parts) /\ Members(heap[o].parts) \subseteq 1 .. o - 1
  BY DEF IsHeap
<1>3. \A i \in DOMAIN heap[o].parts : heap[o].parts[i] \in 1 .. o - 1
  BY <1>2 DEF Members
<1>4. 1 .. o - 1 \subseteq DOMAIN heap
  BY <1>1
<1> QED BY <1>1, <1>2, <1>3, <1>4 DEF AreObjects

LEMMA AllHandled ==
  ASSUME NEW heap, NEW f \in Interns(heap), NEW objects, AreObjects(objects, heap)
  PROVE  Handles(f, objects, heap)
BY ObjectsAre DEF Handles, Interns

LEMMA OneChain ==
  ASSUME NEW heap, NEW f, NEW g, NEW objects, AreObjects(objects, heap), NEW order,
         Agree(f, g, objects),
         NEW c, IsChain(c, heap, f, objects, order), NEW d, IsChain(d, heap, g, objects, order)
  PROVE  c[Len(objects)] = d[Len(objects)]
<1> DEFINE S == {i \in Nat : i <= Len(objects) => c[i] = d[i]}
<1>1. Len(objects) \in Nat
  BY ObjectsAre
<1>2. 0 \in S
  BY DEF IsChain
<1>3. ASSUME NEW i \in Nat, i \in S PROVE i + 1 \in S
  <2>1. SUFFICES ASSUME i + 1 <= Len(objects) PROVE c[i + 1] = d[i + 1]
    OBVIOUS
  <2>2. PICK n : n = i + 1
    OBVIOUS
  <2>3. n \in 1 .. Len(objects) /\ n - 1 = i /\ i <= Len(objects)
    BY <1>1, <2>1, <2>2
  <2>4. c[i] = d[i]
    BY <1>3, <2>3
  <2>5. c[n] = f[objects[n]][c[n - 1]] /\ d[n] = g[objects[n]][d[n - 1]]
    BY <2>3 DEF IsChain
  <2>6. f[objects[n]] = g[objects[n]]
    BY <2>3 DEF Agree
  <2> QED BY <2>2, <2>3, <2>4, <2>5, <2>6
<1>4. Len(objects) \in S
  <2> HIDE DEF S
  <2> QED BY <1>1, <1>2, <1>3, SetInduction
<1> QED BY <1>4

LEMMA AfterIs ==
  ASSUME NEW heap, NEW objects, AreObjects(objects, heap), NEW intern, Handles(intern, objects, heap),
         NEW order \in Orders(heap)
  PROVE  \E c : IsChain(c, heap, intern, objects, order) /\ P!After(intern, objects, order) = c[Len(objects)]
<1> DEFINE N == Len(objects)
           R == Orders(heap)
           ValueAt(f, i) == IF i = 0 THEN order ELSE intern[objects[i]][f[i - 1]]
           Body(f) == [i \in 0 .. N |-> ValueAt(f, i)]
           f == CHOOSE g : g = Body(g)
           Step == [p \in (1 .. N) \X R |-> intern[objects[p[1]]][p[2]]]
<1>1. N \in Nat /\ \A i \in 1 .. N : objects[i] \in DOMAIN heap
  BY ObjectsAre
<1>2. P!After(intern, objects, order) = f[N]
  BY DEF P!After
<1>3. ASSUME NEW i \in 1 .. N, NEW r \in R PROVE intern[objects[i]][r] \in R
  BY DEF Handles
<1>4. Step \in [(1 .. N) \X R -> R] /\ order \in R
  <2> HIDE DEF R, N
  <2>1. Step \in [(1 .. N) \X R -> R]
    BY <1>3
  <2> QED BY <2>1 DEF R
<1>5. PICK g : Stepped(g, R, order, Step, N)
  <2> HIDE DEF R, Step, N
  <2> QED BY <1>1, <1>4, Iteration
<1>6. g \in [0 .. N -> R] /\ g[0] = order /\ \A i \in 1 .. N : g[i] = Step[<<i, g[i - 1]>>]
  <2> HIDE DEF R, Step, N
  <2> QED BY <1>5 DEF Stepped
<1>7. ASSUME NEW i \in 1 .. N PROVE g[i] = intern[objects[i]][g[i - 1]]
  <2>1. i - 1 \in 0 .. N
    BY <1>1
  <2> HIDE DEF R, N
  <2>2. g[i - 1] \in R
    BY <1>6, <2>1
  <2>3. Step[<<i, g[i - 1]>>] = intern[objects[i]][g[i - 1]]
    BY <2>2
  <2> HIDE DEF Step
  <2> QED BY <1>6, <2>3
<1>8. g = Body(g)
  <2>1. ASSUME NEW i \in 0 .. N PROVE g[i] = ValueAt(g, i)
    <3>1. CASE i = 0
      BY <1>6, <3>1
    <3>2. CASE i # 0
      <4>1. i \in 1 .. N
        BY <1>1, <3>2
      <4> HIDE DEF R, Step, N
      <4> QED BY <1>7, <3>2, <4>1
    <3> QED BY <3>1, <3>2
  <2> HIDE DEF ValueAt, R
  <2> QED BY <1>6, <2>1
<1>9. f = Body(f)
  <2> HIDE DEF Body
  <2> QED BY <1>8
<1> HIDE DEF f
<1>10. /\ f[0] = order /\ \A i \in 1 .. N : f[i] = intern[objects[i]][f[i - 1]]
       /\ f = [i \in 0 .. N |-> f[i]]
  <2>1. \A i \in 0 .. N : Body(f)[i] = ValueAt(f, i)
    <3> HIDE DEF ValueAt
    <3> QED OBVIOUS
  <2>2. Body(f) = [i \in 0 .. N |-> Body(f)[i]]
    <3> HIDE DEF ValueAt
    <3> QED OBVIOUS
  <2>3. (\A i \in 0 .. N : f[i] = ValueAt(f, i)) /\ f = [i \in 0 .. N |-> f[i]]
    <3> HIDE DEF Body, ValueAt
    <3> QED BY <1>9, <2>1, <2>2
  <2> QED BY <1>1, <2>3
<1> DEFINE S == {i \in Nat : i <= N => f[i] \in R}
<1>11. 0 \in S
  BY <1>10
<1>12. ASSUME NEW i \in Nat, i \in S PROVE i + 1 \in S
  <2>1. SUFFICES ASSUME i + 1 <= N PROVE f[i + 1] \in R
    <3> HIDE DEF N, R
    <3> QED OBVIOUS
  <2>2. PICK n : n = i + 1
    OBVIOUS
  <2>3. n \in 1 .. N /\ n - 1 = i /\ i <= N
    BY <1>1, <2>1, <2>2
  <2>4. f[i] \in R
    BY <1>12, <2>3
  <2> HIDE DEF R, N
  <2> QED BY <1>3, <1>10, <2>2, <2>3, <2>4
<1>13. N \in S /\ Nat \subseteq S
  <2> HIDE DEF S
  <2> QED BY <1>1, <1>11, <1>12, SetInduction
<1>14. f \in [0 .. N -> R]
  <2>1. \A i \in 0 .. N : f[i] \in R
    BY <1>1, <1>13
  <2> HIDE DEF R, N
  <2> QED BY <1>10, <2>1
<1>15. IsChain(f, heap, intern, objects, order)
  BY <1>10, <1>14 DEF IsChain
<1> QED BY <1>2, <1>15

\* Only what an order does with the objects themselves matters.
LEMMA AfterAgrees ==
  ASSUME NEW heap, NEW objects, AreObjects(objects, heap),
         NEW f, Handles(f, objects, heap), NEW g, Handles(g, objects, heap), NEW order \in Orders(heap), Agree(f, g, objects)
  PROVE  P!After(f, objects, order) = P!After(g, objects, order) /\ P!After(f, objects, order) \in Orders(heap)
<1>1. PICK c : IsChain(c, heap, f, objects, order) /\ P!After(f, objects, order) = c[Len(objects)]
  BY AfterIs
<1>2. PICK d : IsChain(d, heap, g, objects, order) /\ P!After(g, objects, order) = d[Len(objects)]
  BY AfterIs
<1>3. c[Len(objects)] = d[Len(objects)]
  BY <1>1, <1>2, OneChain
<1>4. c[Len(objects)] \in Orders(heap)
  BY <1>1, ObjectsAre DEF IsChain
<1> QED BY <1>1, <1>2, <1>3, <1>4

\* The order after one object.
InternedNext(heap, intern, o, order) ==
  IF P!Interned(o, order) THEN order ELSE Append(P!After(intern, heap[o].parts, order), o)

LEMMA InternIs ==
  ASSUME NEW heap, IsHeap(heap)
  PROVE  /\ P!Intern(heap) \in Interns(heap)
         /\ \A o \in DOMAIN heap : \A order \in Orders(heap) :
              P!Intern(heap)[o][order] = InternedNext(heap, P!Intern(heap), o, order)
<1> DEFINE D == DOMAIN heap
           O == Orders(heap)
           R == [O -> O]
           Body(f) == [o \in D |-> [order \in O |-> InternedNext(heap, f, o, order)]]
           F == [f \in [D -> R] |-> Body(f)]
           rank == [o \in D |-> o]
           intern == CHOOSE f : f = Body(f)
<1>1. Len(heap) \in Nat /\ D = 1 .. Len(heap)
  BY DEF IsHeap, IsSequence
<1>2. P!Intern(heap) = intern
  BY DEF P!Intern, InternedNext, Orders
<1>3. [D -> R] = Interns(heap)
  BY DEF Interns
<1>a. ASSUME NEW o \in D, NEW f, Handles(f, heap[o].parts, heap), NEW order \in O
      PROVE  InternedNext(heap, f, o, order) \in O
  <2>1. AreObjects(heap[o].parts, heap)
    BY PartsAre
  <2>2. P!After(f, heap[o].parts, order) \in Seq(D)
    <3>1. Agree(f, f, heap[o].parts)
      BY DEF Agree
    <3> QED BY <1>a, <2>1, <3>1, AfterAgrees DEF Orders
  <2>3. \A a \in Seq(D) : Append(a, o) \in Seq(D)
    <3> HIDE DEF D
    <3> QED OBVIOUS
  <2> HIDE DEF D
  <2> QED BY <2>2, <2>3 DEF InternedNext, Orders, D
<1>4. ASSUME NEW f \in [D -> R], NEW o \in D, NEW order \in O PROVE InternedNext(heap, f, o, order) \in O
  <2>1. AreObjects(heap[o].parts, heap)
    BY PartsAre
  <2> QED BY <1>3, <1>4, <1>a, <2>1, AllHandled
<1>5. F \in [[D -> R] -> [D -> R]]
  <2>1. ASSUME NEW f \in [D -> R] PROVE Body(f) \in [D -> R]
    <3> HIDE DEF D, O
    <3> QED BY <1>4
  <2> HIDE DEF Body, R, D
  <2> QED BY <2>1
<1>6. ASSUME NEW f \in [D -> R], NEW g \in [D -> R], NEW x \in D, \A y \in D : rank[y] < rank[x] => f[y] = g[y]
      PROVE  F[f][x] = F[g][x]
  <2>1. ASSUME NEW order \in O PROVE InternedNext(heap, f, x, order) = InternedNext(heap, g, x, order)
    <3>1. AreObjects(heap[x].parts, heap) /\ \A i \in DOMAIN heap[x].parts : heap[x].parts[i] \in 1 .. x - 1
      BY PartsAre
    <3>2. ASSUME NEW i \in 1 .. Len(heap[x].parts) PROVE f[heap[x].parts[i]] = g[heap[x].parts[i]]
      <4>1. i \in DOMAIN heap[x].parts /\ heap[x].parts[i] \in D
        BY <3>1, ObjectsAre
      <4>2. heap[x].parts[i] < x /\ x \in Nat
        BY <1>1, <3>1, <4>1
      <4> QED BY <1>6, <4>1, <4>2
    <3>3. P!After(f, heap[x].parts, order) = P!After(g, heap[x].parts, order)
      <4>1. Handles(f, heap[x].parts, heap) /\ Handles(g, heap[x].parts, heap)
        BY <1>3, <1>6, <3>1, AllHandled
      <4>2. Agree(f, g, heap[x].parts)
        BY <3>2 DEF Agree
      <4> QED BY <2>1, <3>1, <4>1, <4>2, AfterAgrees
    <3> QED BY <3>3 DEF InternedNext
  <2>2. F[f] = Body(f) /\ F[g] = Body(g)
    <3> HIDE DEF Body, R, D
    <3> QED BY <1>6
  <2>3. Body(f)[x] = Body(g)[x]
    <3> HIDE DEF D, O
    <3> QED BY <1>6, <2>1
  <2> QED BY <2>2, <2>3
<1>7. LocalTo(F, R, rank, D)
  <2> HIDE DEF F, R, rank, D
  <2> QED BY <1>5, <1>6 DEF LocalTo
<1>8. Ranks(rank, D, Len(heap))
  <2>1. \A o \in D : o \in 0 .. Len(heap)
    BY <1>1
  <2> HIDE DEF D
  <2> QED BY <1>1, <2>1 DEF Ranks
<1>9. [order \in O |-> order] \in R
  OBVIOUS
<1>10. PICK f \in [D -> R] : f = F[f]
  <2> DEFINE b == [order \in O |-> order]
             bound == Len(heap)
  <2>1. bound \in Nat /\ b \in R
    BY <1>1, <1>9
  <2> HIDE DEF F, R, rank, D, b, bound
  <2> QED BY <1>7, <1>8, <2>1, RankRecursion DEF bound
<1>11. f = Body(f)
  <2> HIDE DEF Body, R, D
  <2> QED BY <1>10
<1>12. intern = Body(intern)
  <2> HIDE DEF Body
  <2> QED BY <1>11
<1> HIDE DEF intern
<1>13. ASSUME NEW o \in D, NEW order \in O PROVE intern[o][order] = InternedNext(heap, intern, o, order)
  <2>1. Body(intern)[o][order] = InternedNext(heap, intern, o, order)
    <3> HIDE DEF D, O
    <3> QED OBVIOUS
  <2> HIDE DEF Body
  <2> QED BY <1>12, <2>1
<1> DEFINE S == {o \in D : intern[o] \in R}
<1>14. ASSUME NEW o \in D, \A y \in D : rank[y] < rank[o] => y \in S PROVE o \in S
  <2>1. AreObjects(heap[o].parts, heap) /\ \A i \in DOMAIN heap[o].parts : heap[o].parts[i] \in 1 .. o - 1
    BY PartsAre
  <2>2. ASSUME NEW i \in 1 .. Len(heap[o].parts) PROVE intern[heap[o].parts[i]] \in R
    <3>1. i \in DOMAIN heap[o].parts /\ heap[o].parts[i] \in D
      BY <2>1, ObjectsAre
    <3>2. heap[o].parts[i] < o /\ o \in Nat
      BY <1>1, <2>1, <3>1
    <3> HIDE DEF R
    <3> QED BY <1>14, <3>1, <3>2
  <2>3. Handles(intern, heap[o].parts, heap)
    BY <2>2 DEF Handles
  <2>4. \A order \in O : InternedNext(heap, intern, o, order) \in O
    BY <1>a, <1>14, <2>3
  <2>5. intern[o] = [order \in O |-> InternedNext(heap, intern, o, order)]
    <3>1. Body(intern)[o] = [order \in O |-> InternedNext(heap, intern, o, order)]
      <4> HIDE DEF O, D
      <4> QED OBVIOUS
    <3> HIDE DEF Body, O
    <3> QED BY <1>12, <3>1
  <2>6. intern[o] \in R
    <3> HIDE DEF O
    <3> QED BY <2>4, <2>5
  <2> QED BY <2>6
<1>15. D \subseteq S
  <2>1. Inherited(S, rank, D)
    <3> HIDE DEF S, rank, D
    <3> QED BY <1>14 DEF Inherited
  <2> DEFINE bound == Len(heap)
  <2>2. bound \in Nat
    BY <1>1
  <2> HIDE DEF S, rank, D, bound
  <2> QED BY <1>8, <2>1, <2>2, RankInduction DEF bound
<1>16. intern \in [D -> R]
  <2>1. intern = [o \in D |-> intern[o]]
    <3>1. Body(intern) = [o \in D |-> Body(intern)[o]]
      <4> HIDE DEF O, D
      <4> QED OBVIOUS
    <3> HIDE DEF Body
    <3> QED BY <1>12, <3>1
  <2>2. \A o \in D : intern[o] \in R
    <3> HIDE DEF R, D
    <3> QED BY <1>15
  <2> HIDE DEF R, D
  <2> QED BY <2>1, <2>2
<1> QED BY <1>2, <1>3, <1>13, <1>16

\* An order lists an object once and after its parts; a longer one begins like
\* a shorter one and lists objects below a bound after it.
GoodOrder(heap, order) ==
  /\ order \in Orders(heap)
  /\ \A i, j \in 1 .. Len(order) : order[i] = order[j] => i = j
  /\ \A i \in 1 .. Len(order) : \A p \in Members(heap[order[i]].parts) : \E j \in 1 .. i - 1 : order[j] = p
Listed(order) == {order[i] : i \in 1 .. Len(order)}
Continues(long, short, bound) ==
  /\ Len(short) <= Len(long)
  /\ \A i \in 1 .. Len(short) : long[i] = short[i]
  /\ \A i \in Len(short) + 1 .. Len(long) : long[i] < bound
KeepsOrder(heap, f, o) ==
  \A order : GoodOrder(heap, order) =>
    /\ GoodOrder(heap, f[o][order])
    /\ Continues(f[o][order], order, o + 1)
    /\ o \in Listed(f[o][order])

LEMMA OrderIs ==
  ASSUME NEW heap, IsHeap(heap), NEW order, GoodOrder(heap, order)
  PROVE  /\ Len(order) \in Nat /\ DOMAIN order = 1 .. Len(order)
         /\ \A i \in 1 .. Len(order) : order[i] \in DOMAIN heap /\ order[i] \in Nat
<1>1. DOMAIN heap = 1 .. Len(heap) /\ Len(heap) \in Nat
  BY DEF IsHeap, IsSequence
<1>2. order \in Seq(DOMAIN heap)
  BY DEF GoodOrder, Orders
<1> QED BY <1>1, <1>2

LEMMA ContinuesOn ==
  ASSUME NEW a, NEW b, NEW c, NEW n \in Nat, Len(a) \in Nat, Len(b) \in Nat, Len(c) \in Nat,
         Continues(b, a, n), Continues(c, b, n)
  PROVE  Continues(c, a, n) /\ Listed(b) \subseteq Listed(c)
<1>1. Len(a) <= Len(b) /\ Len(b) <= Len(c) /\ 1 .. Len(a) \subseteq 1 .. Len(b) /\ 1 .. Len(b) \subseteq 1 .. Len(c)
  BY DEF Continues
<1>2. \A i \in 1 .. Len(a) : c[i] = a[i]
  BY <1>1 DEF Continues
<1>3. ASSUME NEW i \in Len(a) + 1 .. Len(c) PROVE c[i] < n
  <2>1. CASE i <= Len(b)
    <3>1. i \in Len(a) + 1 .. Len(b) /\ i \in 1 .. Len(b)
      BY <1>3, <2>1
    <3> QED BY <3>1 DEF Continues
  <2>2. CASE ~(i <= Len(b))
    <3>1. i \in Len(b) + 1 .. Len(c)
      BY <1>3, <2>2
    <3> QED BY <3>1 DEF Continues
  <2> QED BY <2>1, <2>2
<1>4. ASSUME NEW i \in 1 .. Len(b) PROVE b[i] \in Listed(c)
  <2>1. i \in 1 .. Len(c) /\ c[i] = b[i]
    BY <1>1 DEF Continues
  <2> QED BY <2>1 DEF Listed
<1>5. Listed(b) \subseteq Listed(c)
  <2> DEFINE L == Listed(c)
  <2> HIDE DEF L
  <2>1. \A i \in 1 .. Len(b) : b[i] \in L
    BY <1>4 DEF L
  <2> QED BY <2>1 DEF Listed, L
<1> QED BY <1>1, <1>2, <1>3, <1>5 DEF Continues

\* One object after its parts.
LEMMA AppendKeeps ==
  ASSUME NEW heap, IsHeap(heap), NEW order, GoodOrder(heap, order), NEW o \in DOMAIN heap, o \notin Listed(order),
         Members(heap[o].parts) \subseteq Listed(order)
  PROVE  LET out == Append(order, o) IN
         /\ GoodOrder(heap, out) /\ Continues(out, order, o + 1) /\ o \in Listed(out)
<1> DEFINE out == Append(order, o)
           L == Len(order)
<1>1. L \in Nat /\ DOMAIN order = 1 .. L /\ o \in Nat
  BY OrderIs, PartsAre
<1>2. order \in Seq(DOMAIN heap)
  BY DEF GoodOrder, Orders
<1>3. out \in Seq(DOMAIN heap) /\ Len(out) = L + 1 /\ out[L + 1] = o /\ \A i \in 1 .. L : out[i] = order[i]
  BY <1>1, <1>2
<1> HIDE DEF out
<1>4. \A i \in 1 .. L + 1 : i \in 1 .. L \/ i = L + 1
  BY <1>1
<1>5. \A i \in 1 .. L : order[i] # o
  BY DEF Listed
<1>6. ASSUME NEW i \in 1 .. L + 1, NEW j \in 1 .. L + 1, out[i] = out[j] PROVE i = j
  <2>1. CASE i \in 1 .. L /\ j \in 1 .. L
    BY <1>3, <1>6, <2>1 DEF GoodOrder
  <2>2. CASE i = L + 1 /\ j = L + 1
    BY <2>2
  <2>3. CASE i \in 1 .. L /\ j = L + 1
    BY <1>3, <1>5, <1>6, <2>3
  <2>4. CASE i = L + 1 /\ j \in 1 .. L
    BY <1>3, <1>5, <1>6, <2>4
  <2> QED BY <1>4, <2>1, <2>2, <2>3, <2>4
<1>7. ASSUME NEW i \in 1 .. L + 1, NEW p \in Members(heap[out[i]].parts) PROVE \E j \in 1 .. i - 1 : out[j] = p
  <2>1. CASE i \in 1 .. L
    <3>1. PICK j \in 1 .. i - 1 : order[j] = p
      BY <1>3, <1>7, <2>1 DEF GoodOrder
    <3>2. j \in 1 .. L
      BY <1>1, <2>1
    <3> QED BY <1>3, <3>1, <3>2
  <2>2. CASE i = L + 1
    <3>1. PICK j \in 1 .. L : order[j] = p
      BY <1>3, <1>7, <2>2 DEF Listed
    <3>2. i - 1 = L
      BY <1>1, <2>2
    <3> QED BY <1>3, <3>1, <3>2
  <2> QED BY <1>4, <2>1, <2>2
<1>8. GoodOrder(heap, out)
  BY <1>3, <1>6, <1>7 DEF GoodOrder, Orders
<1>9. Continues(out, order, o + 1)
  <2>1. \A i \in L + 1 .. L + 1 : out[i] < o + 1
    BY <1>1, <1>3
  <2>2. L <= L + 1
    BY <1>1
  <2> QED BY <1>3, <2>1, <2>2 DEF Continues
<1>10. o \in Listed(out)
  <2>1. L + 1 \in 1 .. Len(out)
    BY <1>1, <1>3
  <2> QED BY <1>3, <2>1 DEF Listed
<1> QED BY <1>8, <1>9, <1>10 DEF out

\* Several objects, one by one.
KeptBy(heap, f, objects, bound) ==
  \A i \in 1 .. Len(objects) : KeepsOrder(heap, f, objects[i]) /\ objects[i] < bound
LEMMA ChainKeeps ==
  ASSUME NEW heap, IsHeap(heap), NEW objects, AreObjects(objects, heap), NEW f, NEW bound \in Nat,
         KeptBy(heap, f, objects, bound),
         NEW order, GoodOrder(heap, order), NEW c, IsChain(c, heap, f, objects, order)
  PROVE  LET out == c[Len(objects)] IN
         /\ GoodOrder(heap, out) /\ Continues(out, order, bound)
         /\ \A i \in 1 .. Len(objects) : objects[i] \in Listed(out)
<1> DEFINE N == Len(objects)
           Orderly(i) == /\ GoodOrder(heap, c[i]) /\ Continues(c[i], order, bound)
                      /\ \A n \in 1 .. i : objects[n] \in Listed(c[i])
           S == {i \in Nat : i <= N => Orderly(i)}
<1>1. N \in Nat /\ \A i \in 1 .. N : objects[i] \in DOMAIN heap /\ objects[i] \in Nat
  <2>1. DOMAIN heap = 1 .. Len(heap) /\ Len(heap) \in Nat
    BY DEF IsHeap, IsSequence
  <2> QED BY <2>1, ObjectsAre
<1>2. 0 \in S
  <2>1. c[0] = order
    BY DEF IsChain
  <2>2. Len(order) \in Nat
    BY OrderIs
  <2>3. Continues(order, order, bound)
    BY <2>2 DEF Continues
  <2>4. Orderly(0)
    BY <2>1, <2>3
  <2> HIDE DEF Orderly
  <2> QED BY <2>4
<1>3. ASSUME NEW i \in Nat, i \in S PROVE i + 1 \in S
  <2>1. SUFFICES ASSUME i + 1 <= N PROVE Orderly(i + 1)
    <3> HIDE DEF Orderly, N
    <3> QED OBVIOUS
  <2>2. PICK n : n = i + 1
    OBVIOUS
  <2>3. n \in 1 .. N /\ n - 1 = i /\ i <= N /\ n \in Nat
    BY <1>1, <2>1, <2>2
  <2>4. Orderly(i)
    <3> HIDE DEF Orderly
    <3> QED BY <1>3, <2>3
  <2> DEFINE o == objects[n]
             a == c[i]
             b == c[n]
  <2>5. b = f[o][a]
    BY <2>3 DEF IsChain
  <2>6. KeepsOrder(heap, f, o) /\ o < bound /\ o \in Nat
    BY <1>1, <2>3 DEF KeptBy
  <2>7. GoodOrder(heap, a) /\ Continues(a, order, bound) /\ \A m \in 1 .. i : objects[m] \in Listed(a)
    BY <2>4
  <2> HIDE DEF o, a, b
  <2>8. GoodOrder(heap, b) /\ Continues(b, a, o + 1) /\ o \in Listed(b)
    BY <2>5, <2>6, <2>7 DEF KeepsOrder
  <2>9. Len(order) \in Nat /\ Len(a) \in Nat /\ Len(b) \in Nat /\ \A m \in 1 .. Len(b) : b[m] \in Nat
    BY <2>7, <2>8, OrderIs
  <2>10. Continues(b, a, bound)
    <3>1. ASSUME NEW m \in Len(a) + 1 .. Len(b) PROVE b[m] < bound
      <4>1. b[m] < o + 1 /\ m \in 1 .. Len(b)
        BY <2>8, <2>9 DEF Continues
      <4>2. b[m] \in Nat
        BY <2>9, <4>1
      <4> QED BY <2>6, <4>1, <4>2
    <3> QED BY <2>8, <3>1 DEF Continues
  <2>11. Continues(b, order, bound) /\ Listed(a) \subseteq Listed(b)
    BY <2>7, <2>9, <2>10, ContinuesOn
  <2>12. ASSUME NEW m \in 1 .. n PROVE objects[m] \in Listed(b)
    <3>1. CASE m = n
      BY <2>8, <3>1 DEF o
    <3>2. CASE m # n
      <4>1. m \in 1 .. i
        BY <2>3, <2>12, <3>2
      <4> QED BY <2>7, <2>11, <4>1
    <3> QED BY <3>1, <3>2
  <2>13. Orderly(n)
    BY <2>8, <2>11, <2>12 DEF b
  <2> HIDE DEF Orderly
  <2> QED BY <2>2, <2>13
<1>4. N \in S
  <2> HIDE DEF S
  <2> QED BY <1>1, <1>2, <1>3, SetInduction
<1>5. Orderly(N)
  <2> HIDE DEF Orderly
  <2> QED BY <1>1, <1>4
<1> QED BY <1>5

\* Interning an object keeps an order: its parts come first, and are smaller,
\* so that the object is not among what they bring.
LEMMA InternKeeps ==
  ASSUME NEW heap, IsHeap(heap)
  PROVE  \A o \in DOMAIN heap : KeepsOrder(heap, P!Intern(heap), o)
<1> DEFINE D == DOMAIN heap
           f == P!Intern(heap)
           bound == Len(heap)
           rank == [o \in D |-> o]
           S == {o \in D : KeepsOrder(heap, f, o)}
<1>1. bound \in Nat /\ D = 1 .. bound
  BY DEF IsHeap, IsSequence
<1>2. Ranks(rank, D, bound)
  <2>1. \A o \in D : o \in 0 .. bound
    BY <1>1
  <2> HIDE DEF D, bound
  <2> QED BY <1>1, <2>1 DEF Ranks
<1>3. /\ f \in Interns(heap)
      /\ \A o \in D : \A order \in Orders(heap) : f[o][order] = InternedNext(heap, f, o, order)
  BY InternIs
<1> HIDE DEF f
<1>4. ASSUME NEW o \in D, \A y \in D : rank[y] < rank[o] => y \in S PROVE o \in S
  <2>1. SUFFICES ASSUME NEW order, GoodOrder(heap, order)
                 PROVE  /\ GoodOrder(heap, f[o][order]) /\ Continues(f[o][order], order, o + 1)
                        /\ o \in Listed(f[o][order])
    BY DEF KeepsOrder
  <2>2. order \in Orders(heap) /\ Len(order) \in Nat /\ DOMAIN order = 1 .. Len(order)
    BY <2>1, OrderIs DEF GoodOrder
  <2>3. f[o][order] = InternedNext(heap, f, o, order)
    BY <1>3, <2>2
  <2>4. P!Interned(o, order) <=> o \in Listed(order)
    BY <2>2 DEF P!Interned, Listed
  <2>5. CASE o \in Listed(order)
    <3>1. f[o][order] = order
      BY <2>3, <2>4, <2>5 DEF InternedNext
    <3>2. Continues(order, order, o + 1)
      BY <2>2 DEF Continues
    <3> QED BY <2>1, <2>5, <3>1, <3>2
  <2>6. CASE o \notin Listed(order)
    <3> DEFINE parts == heap[o].parts
               after == P!After(f, parts, order)
    <3>1. f[o][order] = Append(after, o)
      BY <2>3, <2>4, <2>6 DEF InternedNext
    <3>2. /\ AreObjects(parts, heap) /\ o \in Nat /\ \A i \in DOMAIN parts : parts[i] \in 1 .. o - 1
          /\ DOMAIN parts = 1 .. Len(parts) /\ Len(parts) \in Nat
      BY PartsAre, ObjectsAre
    <3>3. PICK c : IsChain(c, heap, f, parts, order) /\ after = c[Len(parts)]
      <4>1. Handles(f, parts, heap)
        BY <1>3, <3>2, AllHandled
      <4> HIDE DEF parts
      <4> QED BY <2>2, <3>2, <4>1, AfterIs
    <3>4. KeptBy(heap, f, parts, o)
      <4>1. ASSUME NEW i \in 1 .. Len(parts) PROVE KeepsOrder(heap, f, parts[i]) /\ parts[i] < o
        <5>1. parts[i] \in 1 .. o - 1
          BY <3>2
        <5>2. parts[i] \in D /\ parts[i] < o
          BY <1>1, <3>2, <5>1
        <5>3. parts[i] \in S
          <6> HIDE DEF S, parts
          <6> QED BY <1>4, <5>2
        <5> QED BY <5>2, <5>3
      <4> QED BY <4>1 DEF KeptBy
    <3> HIDE DEF parts, after
    <3>5. /\ GoodOrder(heap, after) /\ Continues(after, order, o)
          /\ \A i \in 1 .. Len(parts) : parts[i] \in Listed(after)
      <4> DEFINE out == c[Len(parts)]
      <4> HIDE DEF out
      <4>1. /\ GoodOrder(heap, out) /\ Continues(out, order, o)
            /\ \A i \in 1 .. Len(parts) : parts[i] \in Listed(out)
        BY <2>1, <3>2, <3>3, <3>4, ChainKeeps DEF out
      <4> QED BY <3>3, <4>1 DEF out
    <3>6. Len(after) \in Nat /\ DOMAIN after = 1 .. Len(after)
      BY <3>5, OrderIs
    <3>7. o \notin Listed(after)
      <4>1. SUFFICES ASSUME NEW i \in 1 .. Len(after), after[i] = o PROVE FALSE
        BY DEF Listed
      <4>2. CASE i <= Len(order)
        <5>1. i \in 1 .. Len(order) /\ order[i] = o
          BY <2>2, <3>5, <4>1, <4>2 DEF Continues
        <5> QED BY <2>6, <5>1 DEF Listed
      <4>3. CASE ~(i <= Len(order))
        <5>1. i \in Len(order) + 1 .. Len(after)
          BY <2>2, <3>6, <4>3
        <5>2. after[i] < o
          BY <3>5, <5>1 DEF Continues
        <5> QED BY <3>2, <4>1, <5>2
      <4> QED BY <4>2, <4>3
    <3>8. Members(parts) \subseteq Listed(after)
      <4> DEFINE L == Listed(after)
      <4> HIDE DEF L
      <4>1. \A i \in DOMAIN parts : parts[i] \in L
        BY <3>2, <3>5 DEF L
      <4> QED BY <4>1 DEF Members, L
    <3> DEFINE out == Append(after, o)
    <3>9. GoodOrder(heap, out) /\ Continues(out, after, o + 1) /\ o \in Listed(out)
      BY <3>5, <3>7, <3>8, AppendKeeps DEF parts
    <3> HIDE DEF out
    <3>10. Continues(out, order, o + 1)
      <4>1. Len(out) \in Nat /\ o + 1 \in Nat
        BY <3>2, <3>9, OrderIs
      <4>2. Continues(after, order, o + 1)
        <5>1. \A i \in 1 .. Len(after) : after[i] \in Nat
          BY <3>5, OrderIs
        <5>2. ASSUME NEW i \in Len(order) + 1 .. Len(after) PROVE after[i] < o + 1
          <6>1. after[i] < o /\ i \in 1 .. Len(after)
            BY <2>2, <3>5, <3>6 DEF Continues
          <6> QED BY <3>2, <5>1, <6>1
        <5> QED BY <3>5, <5>2 DEF Continues
      <4> QED BY <2>2, <3>6, <3>9, <4>1, <4>2, ContinuesOn
    <3> QED BY <3>1, <3>9, <3>10 DEF out
  <2> QED BY <2>5, <2>6
<1>5. D \subseteq S
  <2>1. Inherited(S, rank, D)
    <3> HIDE DEF S, rank, D
    <3> QED BY <1>4 DEF Inherited
  <2> HIDE DEF S, rank, D, bound
  <2> QED BY <1>1, <1>2, <2>1, RankInduction
<1> QED BY <1>5 DEF f

\* The row of an object that is listed.
LEMMA RowIs ==
  ASSUME NEW heap, IsHeap(heap), NEW order, GoodOrder(heap, order), NEW j \in 1 .. Len(order)
  PROVE  P!Row(order, order[j]) = j
<1>1. DOMAIN order = 1 .. Len(order)
  BY OrderIs
<1>2. \A i \in DOMAIN order : order[i] = order[j] => i = j
  BY <1>1 DEF GoodOrder
<1>3. P!Row(order, order[j]) \in DOMAIN order /\ order[P!Row(order, order[j])] = order[j]
  <2>1. \E i \in DOMAIN order : order[i] = order[j]
    BY <1>1
  <2> QED BY <2>1 DEF P!Row
<1> QED BY <1>2, <1>3

\* The order of a module's rows.
RowOrder(heap, roots) == P!After(P!Intern(heap), roots, <<>>)
LEMMA RowOrderIs ==
  ASSUME NEW heap, IsHeap(heap), NEW roots, AreObjects(roots, heap)
  PROVE  /\ GoodOrder(heap, RowOrder(heap, roots))
         /\ \A i \in 1 .. Len(roots) : roots[i] \in Listed(RowOrder(heap, roots))
<1> DEFINE f == P!Intern(heap)
           bound == Len(heap) + 1
<1>1. Len(heap) \in Nat /\ DOMAIN heap = 1 .. Len(heap) /\ bound \in Nat
  BY DEF IsHeap, IsSequence
<1>2. f \in Interns(heap) /\ \A o \in DOMAIN heap : KeepsOrder(heap, f, o)
  BY InternIs, InternKeeps
<1>3. <<>> \in Orders(heap) /\ GoodOrder(heap, <<>>)
  BY DEF GoodOrder, Orders
<1>4. KeptBy(heap, f, roots, bound)
  <2>1. ASSUME NEW i \in 1 .. Len(roots) PROVE KeepsOrder(heap, f, roots[i]) /\ roots[i] < bound
    <3>1. roots[i] \in DOMAIN heap
      BY ObjectsAre
    <3>2. roots[i] \in Nat /\ roots[i] < Len(heap) + 1
      BY <1>1, <3>1
    <3> QED BY <1>2, <3>1, <3>2
  <2> QED BY <2>1 DEF KeptBy
<1> HIDE DEF f, bound
<1>5. Handles(f, roots, heap)
  BY <1>2, AllHandled
<1> DEFINE none == <<>>
<1>6. none \in Orders(heap) /\ GoodOrder(heap, none) /\ RowOrder(heap, roots) = P!After(f, roots, none)
  BY <1>3 DEF RowOrder, f
<1> HIDE DEF none
<1>7. PICK c : IsChain(c, heap, f, roots, none) /\ P!After(f, roots, none) = c[Len(roots)]
  BY <1>5, <1>6, AfterIs
<1> DEFINE out == c[Len(roots)]
<1> HIDE DEF out
<1>8. GoodOrder(heap, out) /\ \A i \in 1 .. Len(roots) : roots[i] \in Listed(out)
  BY <1>1, <1>4, <1>6, <1>7, ChainKeeps DEF out
<1> QED BY <1>6, <1>7, <1>8 DEF out

\* What is written for a module: the rows, and the rows of its roots.
Encodes(heap, roots, rows, rootRows) ==
  LET order == RowOrder(heap, roots) IN
  /\ rootRows = P!RowsOf(order, roots)
  /\ rows = [i \in DOMAIN order |-> [heap[order[i]] EXCEPT !.parts = P!RowsOf(order, @)]]

LEMMA RowsAre ==
  ASSUME NEW heap, IsHeap(heap), NEW roots, AreObjects(roots, heap), NEW rows, NEW rootRows,
         Encodes(heap, roots, rows, rootRows)
  PROVE  LET order == RowOrder(heap, roots) IN
         /\ GoodOrder(heap, order) /\ DOMAIN rows = 1 .. Len(order)
         /\ \A r \in 1 .. Len(order) :
              /\ rows[r].op = heap[order[r]].op
              /\ DOMAIN rows[r].parts = DOMAIN heap[order[r]].parts
              /\ \A p \in DOMAIN rows[r].parts :
                   rows[r].parts[p] \in 1 .. r - 1 /\ order[rows[r].parts[p]] = heap[order[r]].parts[p]
         /\ DOMAIN rootRows = DOMAIN roots
         /\ \A i \in DOMAIN roots : rootRows[i] \in 1 .. Len(order) /\ order[rootRows[i]] = roots[i]
<1> DEFINE order == RowOrder(heap, roots)
<1>1. GoodOrder(heap, order) /\ \A i \in 1 .. Len(roots) : roots[i] \in Listed(order)
  BY RowOrderIs
<1>2. Encodes(heap, roots, rows, rootRows)
  OBVIOUS
<1>3. /\ rootRows = P!RowsOf(order, roots)
      /\ rows = [i \in DOMAIN order |-> [heap[order[i]] EXCEPT !.parts = P!RowsOf(order, @)]]
  BY <1>2 DEF Encodes
<1> HIDE DEF order
<1>4. Len(order) \in Nat /\ DOMAIN order = 1 .. Len(order) /\ \A i \in 1 .. Len(order) : order[i] \in DOMAIN heap
  BY <1>1, OrderIs
<1>5. ASSUME NEW r \in 1 .. Len(order)
      PROVE  /\ rows[r] = [op |-> heap[order[r]].op, parts |-> P!RowsOf(order, heap[order[r]].parts)]
             /\ DOMAIN rows[r].parts = DOMAIN heap[order[r]].parts
             /\ \A p \in DOMAIN rows[r].parts :
                  rows[r].parts[p] \in 1 .. r - 1 /\ order[rows[r].parts[p]] = heap[order[r]].parts[p]
  <2> DEFINE o == order[r]
             parts == heap[o].parts
  <2>1. heap[o] = [op |-> heap[o].op, parts |-> parts]
    BY <1>4 DEF IsHeap
  <2>2. rows[r] = [heap[o] EXCEPT !.parts = P!RowsOf(order, parts)]
    BY <1>3, <1>4
  <2>3. rows[r] = [op |-> heap[o].op, parts |-> P!RowsOf(order, parts)]
    BY <2>1, <2>2
  <2>4. rows[r].parts = [i \in DOMAIN parts |-> P!Row(order, parts[i])]
    BY <2>3 DEF P!RowsOf
  <2>5. ASSUME NEW p \in DOMAIN parts PROVE rows[r].parts[p] \in 1 .. r - 1 /\ order[rows[r].parts[p]] = parts[p]
    <3>1. parts[p] \in Members(parts)
      BY DEF Members
    <3>2. PICK j \in 1 .. r - 1 : order[j] = parts[p]
      BY <1>1, <3>1 DEF GoodOrder
    <3>3. j \in 1 .. Len(order)
      BY <1>4
    <3>4. P!Row(order, order[j]) = j
      BY <1>1, <3>3, RowIs
    <3>5. rows[r].parts[p] = j
      <4> HIDE DEF parts
      <4> QED BY <2>4, <3>2, <3>4
    <3> QED BY <3>2, <3>5
  <2> QED BY <2>3, <2>4, <2>5
<1>6. DOMAIN rows = 1 .. Len(order)
  BY <1>3, <1>4
<1>7. DOMAIN rootRows = DOMAIN roots
      /\ \A i \in DOMAIN roots : rootRows[i] \in 1 .. Len(order) /\ order[rootRows[i]] = roots[i]
  <2>1. rootRows = [i \in DOMAIN roots |-> P!Row(order, roots[i])]
    BY <1>3 DEF P!RowsOf
  <2>2. ASSUME NEW i \in DOMAIN roots PROVE rootRows[i] \in 1 .. Len(order) /\ order[rootRows[i]] = roots[i]
    <3>1. i \in 1 .. Len(roots)
      BY ObjectsAre
    <3>2. PICK j \in 1 .. Len(order) : order[j] = roots[i]
      BY <1>1, <3>1 DEF Listed
    <3>3. P!Row(order, order[j]) = j
      BY <1>1, RowIs
    <3> QED BY <2>1, <3>2, <3>3
  <2> QED BY <2>1, <2>2
<1> QED BY <1>1, <1>5, <1>6, <1>7 DEF order

\* Trees over nodes whose parts come before them.
AreNodes(nodes, n) ==
  /\ n \in Nat /\ DOMAIN nodes = 1 .. n
  /\ \A r \in 1 .. n : \A p \in DOMAIN nodes[r].parts : nodes[r].parts[p] \in 1 .. r - 1
TreeAt(nodes, r, f) == [op |-> nodes[r].op, parts |-> [p \in DOMAIN nodes[r].parts |-> f[nodes[r].parts[p]]]]
TreesTo(nodes, m, f) == f = [r \in 1 .. m |-> TreeAt(nodes, r, f)]

LEMMA TreesAre ==
  ASSUME NEW nodes, NEW n, AreNodes(nodes, n)
  PROVE  \A r \in 1 .. n : P!Trees(nodes)[r] = TreeAt(nodes, r, P!Trees(nodes))
<1>1. n \in Nat /\ DOMAIN nodes = 1 .. n
      /\ \A r \in 1 .. n : \A p \in DOMAIN nodes[r].parts : nodes[r].parts[p] \in 1 .. r - 1
  BY DEF AreNodes
<1> DEFINE S == {m \in Nat : m <= n => \E f : TreesTo(nodes, m, f)}
<1>2. 0 \in S
  <2> DEFINE f == [r \in 1 .. 0 |-> r]
  <2>1. f = [r \in 1 .. 0 |-> TreeAt(nodes, r, f)]
    <3>1. \A r \in 1 .. 0 : FALSE
      OBVIOUS
    <3>2. \A r \in 1 .. 0 : r = TreeAt(nodes, r, f)
      BY <3>1
    <3> QED BY <3>2
  <2> HIDE DEF f
  <2>2. TreesTo(nodes, 0, f)
    BY <2>1 DEF TreesTo
  <2> QED BY <2>2
<1>3. ASSUME NEW m \in Nat, m \in S PROVE m + 1 \in S
  <2>1. SUFFICES ASSUME m + 1 <= n PROVE \E g : TreesTo(nodes, m + 1, g)
    OBVIOUS
  <2>2. PICK f : TreesTo(nodes, m, f)
    BY <1>1, <1>3, <2>1
  <2>3. PICK q : q = m + 1
    OBVIOUS
  <2>4. q \in 1 .. n /\ \A r \in 1 .. q : (r \in 1 .. m \/ r = q) /\ r \in 1 .. n /\ (r = q <=> ~(r \in 1 .. m))
    BY <1>1, <2>1, <2>3
  <2> DEFINE g == [r \in 1 .. q |-> IF r = q THEN TreeAt(nodes, q, f) ELSE f[r]]
  <2>5. \A r \in 1 .. m : g[r] = f[r] /\ r \in 1 .. q
    BY <2>3
  <2>6. g[q] = TreeAt(nodes, q, f)
    BY <2>3
  <2>7. g = [r \in 1 .. q |-> g[r]]
    OBVIOUS
  <2> HIDE DEF g
  <2>8. ASSUME NEW r \in 1 .. q PROVE TreeAt(nodes, r, f) = TreeAt(nodes, r, g)
    <3>1. ASSUME NEW p \in DOMAIN nodes[r].parts PROVE f[nodes[r].parts[p]] = g[nodes[r].parts[p]]
      <4>1. nodes[r].parts[p] \in 1 .. r - 1
        BY <1>1, <2>4
      <4>2. nodes[r].parts[p] \in 1 .. m
        BY <2>3, <4>1
      <4> QED BY <2>5, <4>2
    <3> QED BY <3>1 DEF TreeAt
  <2>9. ASSUME NEW r \in 1 .. q PROVE g[r] = TreeAt(nodes, r, g)
    <3>1. CASE r = q
      BY <2>6, <2>8, <3>1
    <3>2. CASE r \in 1 .. m
      <4>1. f[r] = TreeAt(nodes, r, f)
        <5>1. [x \in 1 .. m |-> TreeAt(nodes, x, f)][r] = TreeAt(nodes, r, f)
          BY <3>2
        <5> QED BY <2>2, <5>1 DEF TreesTo
      <4> QED BY <2>5, <2>8, <3>2, <4>1
    <3> QED BY <2>4, <3>1, <3>2
  <2>10. TreesTo(nodes, q, g)
    BY <2>7, <2>9 DEF TreesTo
  <2> QED BY <2>3, <2>10
<1>4. n \in S
  <2> HIDE DEF S
  <2> QED BY <1>1, <1>2, <1>3, SetInduction
<1>5. PICK f : TreesTo(nodes, n, f)
  BY <1>1, <1>4
<1> DEFINE Body(t) == [r \in 1 .. n |-> TreeAt(nodes, r, t)]
           tree == CHOOSE t : t = Body(t)
<1>6. P!Trees(nodes) = tree
  BY <1>1 DEF P!Trees, TreeAt
<1>7. f = Body(f)
  BY <1>5 DEF TreesTo
<1>8. tree = Body(tree)
  <2> HIDE DEF Body
  <2> QED BY <1>7
<1> HIDE DEF tree
<1>9. \A r \in 1 .. n : Body(tree)[r] = TreeAt(nodes, r, tree)
  OBVIOUS
<1> HIDE DEF Body
<1> QED BY <1>6, <1>8, <1>9

\* A row stands for what its object stands for.
LEMMA RowsStandForObjects ==
  ASSUME NEW heap, IsHeap(heap), NEW roots, AreObjects(roots, heap), NEW rows, NEW rootRows,
         Encodes(heap, roots, rows, rootRows)
  PROVE  LET order == RowOrder(heap, roots) IN
         \A r \in 1 .. Len(order) : P!Trees(rows)[r] = P!Trees(heap)[order[r]]
<1> DEFINE order == RowOrder(heap, roots)
           L == Len(order)
<1>1. /\ GoodOrder(heap, order) /\ DOMAIN rows = 1 .. L
      /\ \A r \in 1 .. L :
           /\ rows[r].op = heap[order[r]].op
           /\ DOMAIN rows[r].parts = DOMAIN heap[order[r]].parts
           /\ \A p \in DOMAIN rows[r].parts :
                rows[r].parts[p] \in 1 .. r - 1 /\ order[rows[r].parts[p]] = heap[order[r]].parts[p]
  BY RowsAre
<1> HIDE DEF order
<1>2. L \in Nat /\ \A r \in 1 .. L : order[r] \in DOMAIN heap
  BY <1>1, OrderIs
<1>3. DOMAIN heap = 1 .. Len(heap) /\ Len(heap) \in Nat
      /\ \A o \in 1 .. Len(heap) : \A p \in DOMAIN heap[o].parts : heap[o].parts[p] \in 1 .. o - 1
  <2>1. DOMAIN heap = 1 .. Len(heap) /\ Len(heap) \in Nat
    BY DEF IsHeap, IsSequence
  <2> QED BY <2>1, PartsAre
<1>4. \A r \in 1 .. L : P!Trees(rows)[r] = TreeAt(rows, r, P!Trees(rows))
  <2>1. AreNodes(rows, L)
    BY <1>1, <1>2 DEF AreNodes
  <2> HIDE DEF L
  <2> QED BY <2>1, TreesAre
<1>5. \A o \in 1 .. Len(heap) : P!Trees(heap)[o] = TreeAt(heap, o, P!Trees(heap))
  <2> DEFINE N == Len(heap)
  <2>1. AreNodes(heap, N)
    BY <1>3 DEF AreNodes
  <2> HIDE DEF N
  <2>2. \A o \in 1 .. N : P!Trees(heap)[o] = TreeAt(heap, o, P!Trees(heap))
    BY <2>1, TreesAre
  <2> QED BY <2>2 DEF N
<1> DEFINE tr == P!Trees(rows)
           th == P!Trees(heap)
           S == {m \in Nat : \A r \in 1 .. L : r <= m => tr[r] = th[order[r]]}
<1> HIDE DEF L, tr, th
<1>6. 0 \in S
  OBVIOUS
<1>7. ASSUME NEW m \in Nat, m \in S PROVE m + 1 \in S
  <2>1. SUFFICES ASSUME NEW r \in 1 .. L, r = m + 1 PROVE tr[r] = th[order[r]]
    <3>1. \A r \in 1 .. L : r <= m + 1 => (r <= m \/ r = m + 1)
      BY <1>2
    <3> QED BY <1>7, <3>1
  <2>2. tr[r] = TreeAt(rows, r, tr) /\ th[order[r]] = TreeAt(heap, order[r], th)
    BY <1>2, <1>3, <1>4, <1>5 DEF tr, th
  <2>3. ASSUME NEW p \in DOMAIN rows[r].parts PROVE tr[rows[r].parts[p]] = th[heap[order[r]].parts[p]]
    <3>1. rows[r].parts[p] \in 1 .. r - 1 /\ order[rows[r].parts[p]] = heap[order[r]].parts[p]
      BY <1>1 DEF L
    <3>2. rows[r].parts[p] \in 1 .. L /\ rows[r].parts[p] <= m
      BY <1>2, <2>1, <3>1
    <3> QED BY <1>7, <3>1, <3>2
  <2>4. rows[r].op = heap[order[r]].op /\ DOMAIN rows[r].parts = DOMAIN heap[order[r]].parts
    BY <1>1 DEF L
  <2>5. TreeAt(rows, r, tr) = TreeAt(heap, order[r], th)
    BY <2>3, <2>4 DEF TreeAt
  <2> QED BY <2>2, <2>5
<1>8. L \in S
  <2> HIDE DEF S
  <2> QED BY <1>2, <1>6, <1>7, SetInduction
<1>9. \A r \in 1 .. L : tr[r] = th[order[r]]
  BY <1>2, <1>8
<1> QED BY <1>9 DEF tr, th, L, order
--------------------------------------------------------------------------------
(* The inductive invariant of the table: it encodes the module that was done *)
(* last, and there is none when a single module is asked for.              *)
EncodedIs(d, n, rows, rootRows) == Encodes(d[n].heap, d[n].roots, rows, rootRows)
TableInv ==
  part = "package" =>
    /\ ~Walked => table = <<>>
    /\ Walked /\ translated # <<>> => EncodedIs(design, P!LastModule, table, ids)

LEMMA TableInit == ImportInit => TableInv
<1> SUFFICES ASSUME ImportInit, part = "package" PROVE translated = <<>> /\ table = <<>>
  BY DEF TableInv
<1> QED BY DEF ImportInit, P!Init

\* What one translation writes.
LEMMA TranslateEncodes ==
  ASSUME P!Translate, Walked
  PROVE  EncodedIs(design, P!Current, table', ids')
<1> DEFINE h == P!Heap
           r == P!Roots
           order == P!After(P!Intern(h), r, <<>>)
<1>1. /\ ids' = P!RowsOf(order, r)
      /\ table' = [i \in DOMAIN order |-> [h[order[i]] EXCEPT !.parts = P!RowsOf(order, @)]]
  BY DEF P!Translate, Walked
<1>2. order = RowOrder(h, r)
  BY DEF RowOrder
<1> HIDE DEF order
<1>3. Encodes(h, r, table', ids')
  BY <1>1, <1>2 DEF Encodes
<1> QED BY <1>3 DEF EncodedIs, P!Heap, P!Roots

LEMMA TableStepKeeps == PackageInv /\ TableInv /\ [ImportNext]_allVars => TableInv'
<1> SUFFICES ASSUME PackageInv, TableInv, [ImportNext]_allVars, part' = "package"
             PROVE  /\ ~Walked' => table' = <<>>
                    /\ Walked' /\ translated' # <<>> => EncodedIs(design', P!LastModule', table', ids')
  BY DEF TableInv, EncodedIs
<1>1. part = "package"
  BY DEF ImportNext, CellStep, MemoryStep, ModuleStep, PackageStep, allVars
<1>2. P!Next \/ UNCHANGED P!vars
  BY <1>1, StepOfPackage
<1>3. Sequel
  BY <1>1 DEF PackageInv
<1>4. UNCHANGED <<design, selection>> /\ Walked' = Walked
  BY <1>2 DEF P!Next, P!Refuse, P!Select, P!Close, P!Closed, P!Translate,
              P!WriteOutput, P!WriteManifest, P!Stop, P!vars, P!input, Walked
<1>5. CASE P!Translate
  <2>1. translated' = Append(translated, P!Current) /\ (~Walked => table' = table)
    BY <1>5 DEF P!Translate, Walked
  <2>2. P!LastModule' = P!Current
    <3> DEFINE c == P!Current
    <3> HIDE DEF c
    <3>1. translated' = Append(translated, c) /\ translated \in Seq(reachable)
      BY <1>3, <2>1 DEF Sequel, c
    <3>2. translated'[Len(translated')] = c
      BY <3>1
    <3> QED BY <3>2 DEF P!LastModule, c
  <2>3. Walked => EncodedIs(design, P!Current, table', ids')
    BY <1>5, TranslateEncodes
  <2> QED BY <1>1, <1>4, <2>1, <2>2, <2>3 DEF TableInv
<1>6. CASE ~P!Translate
  <2>1. UNCHANGED <<translated, ids, table>>
    BY <1>2, <1>6 DEF P!Next, P!Refuse, P!Select, P!Close, P!Closed,
                      P!WriteOutput, P!WriteManifest, P!Stop, P!vars, P!input
  <2>2. P!LastModule' = P!LastModule
    BY <2>1 DEF P!LastModule
  <2> QED BY <1>1, <1>4, <2>1, <2>2 DEF TableInv
<1> QED BY <1>5, <1>6

\* The last module is one of the design.
LEMMA LastIsNamed ==
  ASSUME PackageInv, part = "package", translated # <<>>
  PROVE  P!LastModule \in DOMAIN design /\ design \in Designs
<1>1. PackageTypes /\ Closure /\ Sequel
  BY DEF PackageInv
<1>2. selection[2] \in P!Names /\ reachable \subseteq P!Reference
  BY <1>1 DEF Closure, Sequel
<1>3. translated[Len(translated)] \in reachable
  BY <1>1 DEF Sequel
<1> QED BY <1>1, <1>2, <1>3, ReferenceIs DEF P!LastModule, P!Names, PackageTypes

LEMMA TablesAreRight == PackageInv /\ TableInv => TableIsTheTrees
<1> SUFFICES ASSUME PackageInv, TableInv, part = "package", translated # <<>>
             PROVE  /\ Walked => /\ \A r \in DOMAIN table : \A p \in DOMAIN table[r].parts : table[r].parts[p] < r
                                 /\ \A i \in DOMAIN ids : P!Trees(table)[ids[i]]
                                      = P!Trees(design[P!LastModule].heap)[design[P!LastModule].roots[i]]
                    /\ Len(table) <= Len(design[P!LastModule].heap)
  BY DEF TableIsTheTrees, P!TableIsTheTrees, P!SharingKept, Walked
<1> DEFINE heap == design[P!LastModule].heap
           roots == design[P!LastModule].roots
           order == RowOrder(heap, roots)
<1>1. IsHeap(heap) /\ AreObjects(roots, heap)
  BY LastIsNamed, DesignsAssumption DEF IsHeap, AreObjects
<1>2. Walked => Encodes(heap, roots, table, ids)
  BY DEF TableInv, EncodedIs
<1>3. ~Walked => table = <<>>
  BY DEF TableInv
<1> HIDE DEF heap, roots
<1>4. Len(heap) \in Nat /\ DOMAIN heap = 1 .. Len(heap)
  BY <1>1 DEF IsHeap, IsSequence
<1>5. CASE ~Walked
  <2>1. Len(table) = 0
    BY <1>3, <1>5
  <2> QED BY <1>4, <1>5, <2>1 DEF heap
<1>6. CASE Walked
  <2>1. /\ GoodOrder(heap, order) /\ DOMAIN table = 1 .. Len(order)
        /\ \A r \in 1 .. Len(order) : \A p \in DOMAIN table[r].parts : table[r].parts[p] \in 1 .. r - 1
        /\ DOMAIN ids = DOMAIN roots
        /\ \A i \in DOMAIN roots : ids[i] \in 1 .. Len(order) /\ order[ids[i]] = roots[i]
    BY <1>1, <1>2, <1>6, RowsAre
  <2>2. \A r \in 1 .. Len(order) : P!Trees(table)[r] = P!Trees(heap)[order[r]]
    BY <1>1, <1>2, <1>6, RowsStandForObjects
  <2>3. Len(table) <= Len(heap)
    <3> HIDE DEF order
    <3>1. order \in Seq(DOMAIN heap) /\ \A i, j \in DOMAIN order : order[i] = order[j] => i = j
      BY <2>1 DEF GoodOrder, Orders
    <3>2. Cardinality({order[i] : i \in DOMAIN order}) = Len(order)
      BY <3>1, SequenceCounts
    <3>3. {order[i] : i \in DOMAIN order} \subseteq 1 .. Len(heap)
      BY <1>4, <3>1
    <3>4. IsFiniteSet(1 .. Len(heap)) /\ Cardinality(1 .. Len(heap)) = Len(heap)
      <4>1. PICK n \in Nat : n = Len(heap)
        BY <1>4
      <4>2. IsFiniteSet(1 .. n) /\ Cardinality(1 .. n) = n
        BY FS_Interval
      <4> QED BY <4>1, <4>2
    <3>5. Len(order) <= Len(heap)
      <4> DEFINE A == {order[i] : i \in DOMAIN order}
                 B == 1 .. Len(heap)
      <4> HIDE DEF A, B
      <4>1. A \subseteq B /\ IsFiniteSet(B) /\ Cardinality(A) = Len(order) /\ Cardinality(B) = Len(heap)
        BY <3>2, <3>3, <3>4 DEF A, B
      <4>2. Cardinality(A) <= Cardinality(B)
        BY <4>1, FS_Subset
      <4> QED BY <4>1, <4>2
    <3>6. Len(table) = Len(order)
      <4>1. table = [r \in DOMAIN order |-> [heap[order[r]] EXCEPT !.parts = P!RowsOf(order, @)]]
        BY <1>2, <1>6 DEF Encodes, order
      <4>2. Len(order) \in Nat /\ DOMAIN table = 1 .. Len(order)
        BY <2>1, <3>1
      <4>3. Len(table) = Len(order)
        BY <4>1, <4>2
      <4> QED BY <4>3
    <3> QED BY <3>5, <3>6
  <2>4. \A i \in DOMAIN ids : P!Trees(table)[ids[i]] = P!Trees(heap)[roots[i]]
    <3> HIDE DEF order
    <3> QED BY <2>1, <2>2
  <2>5. \A r \in DOMAIN table : \A p \in DOMAIN table[r].parts : table[r].parts[p] < r
    <3>1. Len(order) \in Nat
      BY <1>1, <2>1, OrderIs
    <3> HIDE DEF order
    <3> QED BY <2>1, <3>1
  <2> QED BY <2>3, <2>4, <2>5 DEF heap, roots
<1> QED BY <1>5, <1>6

\* The rows that are written stand for the trees of the module's expressions,
\* parts first, with no more rows than there are objects, for designs of any
\* size. Code: encode_module_expression_dag.
THEOREM TablesAreTheTrees == ImportSpec => []TableIsTheTrees
<1>1. PackageInv /\ TableInv /\ [ImportNext]_allVars => (PackageInv /\ TableInv)'
  BY PackageStepKeeps, TableStepKeeps
<1> QED BY PackageInit, TableInit, <1>1, TablesAreRight, PTL DEF ImportSpec

--------------------------------------------------------------------------------
(* A memory: whole-word commits of a cycle leave what the masked writes leave, *)
(* and a read finds its word.                                              *)

\* The powers of two.
LEMMA PowerIs ==
  /\ M!Power \in [Nat -> Nat] /\ M!Power[0] = 1
  /\ \A n \in Nat : M!Power[n + 1] = 2 * M!Power[n]
<1> DEFINE Body(f) == [n \in Nat |-> IF n = 0 THEN 1 ELSE 2 * f[n - 1]]
           twice == [p \in Nat \X Nat |-> 2 * p[2]]
<1>1. M!Power = CHOOSE f : f = Body(f)
  BY DEF M!Power
<1>2. twice \in [Nat \X Nat -> Nat] /\ \A n, r \in Nat : twice[<<n, r>>] = 2 * r
  OBVIOUS
<1> HIDE DEF twice
<1>a. PICK g : Unending(g, Nat, 1, twice)
  BY <1>2, RecursionOnNat
<1>3. g \in [Nat -> Nat] /\ g[0] = 1 /\ \A n \in Nat : g[n + 1] = twice[<<n, g[n]>>]
  BY <1>a DEF Unending
<1>4. g = Body(g)
  <2>1. ASSUME NEW n \in Nat PROVE g[n] = IF n = 0 THEN 1 ELSE 2 * g[n - 1]
    <3>1. CASE n # 0
      <4>1. PICK m \in Nat : n = m + 1
        <5>1. n - 1 \in Nat /\ n = (n - 1) + 1
          BY <3>1
        <5> QED BY <5>1
      <4>2. n - 1 = m /\ g[m] \in Nat /\ g[m + 1] = twice[<<m, g[m]>>]
        BY <1>3, <4>1
      <4> QED BY <1>2, <3>1, <4>1, <4>2
    <3> QED BY <1>3, <3>1
  <2> HIDE DEF twice
  <2> QED BY <1>3, <2>1
<1>5. M!Power = Body(M!Power)
  <2> HIDE DEF Body
  <2> QED BY <1>1, <1>4
<1> DEFINE p == M!Power
<1>6. \A n \in Nat : p[n] = IF n = 0 THEN 1 ELSE 2 * p[n - 1]
  <2> HIDE DEF p
  <2>1. p = Body(p)
    BY <1>5 DEF p
  <2> QED BY <2>1
<1> HIDE DEF p
<1>7. p[0] = 1
  BY <1>6
<1>8. ASSUME NEW n \in Nat PROVE p[n + 1] = 2 * p[n]
  <2>1. PICK m : m = n + 1
    OBVIOUS
  <2>2. m \in Nat /\ m # 0 /\ m - 1 = n
    BY <2>1
  <2> QED BY <1>6, <2>1, <2>2
<1>9. p \in [Nat -> Nat]
  <2> DEFINE S == {n \in Nat : p[n] \in Nat}
  <2>1. 0 \in S /\ \A n \in Nat : n \in S => n + 1 \in S
    BY <1>7, <1>8
  <2>2. \A n \in Nat : p[n] \in Nat
    <3> HIDE DEF S
    <3>1. Nat \subseteq S
      BY <2>1, SetInduction
    <3> QED BY <3>1 DEF S
  <2>3. p = [n \in Nat |-> p[n]]
    BY <1>5 DEF p
  <2> QED BY <2>2, <2>3
<1> QED BY <1>7, <1>8, <1>9 DEF p

LEMMA PowersGrow ==
  /\ \A n \in Nat : M!Power[n] > n
  /\ \A n \in Nat, m \in Nat : m <= n => M!Power[m] <= M!Power[n]
<1> DEFINE p == M!Power
<1>1. p \in [Nat -> Nat] /\ p[0] = 1 /\ \A n \in Nat : p[n + 1] = 2 * p[n]
  BY PowerIs
<1> HIDE DEF p
<1>2. \A n \in Nat : p[n] > n
  <2> DEFINE S == {n \in Nat : p[n] > n}
  <2>1. 0 \in S /\ \A n \in Nat : n \in S => n + 1 \in S
    BY <1>1
  <2> HIDE DEF S
  <2>2. Nat \subseteq S
    BY <2>1, SetInduction
  <2> QED BY <2>2 DEF S
<1>3. ASSUME NEW m \in Nat PROVE \A n \in Nat : m <= n => p[m] <= p[n]
  <2> DEFINE S == {n \in Nat : m <= n => p[m] <= p[n]}
  <2>1. 0 \in S
    BY <1>1
  <2>2. ASSUME NEW n \in Nat, n \in S PROVE n + 1 \in S
    <3>1. p[n + 1] = 2 * p[n] /\ p[n] \in Nat /\ p[m] \in Nat
      BY <1>1
    <3>2. CASE m <= n
      BY <2>2, <3>1, <3>2
    <3>3. CASE m = n + 1
      BY <3>1, <3>3
    <3>4. CASE m > n + 1
      BY <3>4
    <3> QED BY <3>2, <3>3, <3>4
  <2> HIDE DEF S
  <2>3. Nat \subseteq S
    BY <2>1, <2>2, SetInduction
  <2> QED BY <2>3 DEF S
<1> QED BY <1>2, <1>3 DEF p

\* A cell that is not refused has a power of two words, as many as its address
\* width can tell apart.
LEMMA SizeIs ==
  ASSUME cell \in MemoryCells, M!Shape = {}
  PROVE  /\ cell.size \in Nat \ {0} /\ cell.abits \in Nat \ {0}
         /\ M!AddressWidth \in Nat /\ M!Power[M!AddressWidth] = cell.size
<1>1. /\ ~(cell.size <= 0) /\ cell.size \in {M!Power[n] : n \in 0 .. cell.size} /\ ~(cell.abits <= 0)
  BY DEF M!Shape
<1>2. cell.size \in Nat \ {0} /\ cell.abits \in Nat \ {0}
  BY <1>1, MemoriesAssumption
<1> DEFINE p == M!Power
           size == cell.size
<1>3. p \in [Nat -> Nat]
  BY PowerIs
<1>4. (\A n \in Nat : p[n] > n) /\ \A n \in Nat, m \in Nat : m <= n => p[m] <= p[n]
  BY PowersGrow
<1>5. PICK e \in 0 .. size : size = p[e]
  BY <1>1
<1>6. PICK w \in {m \in Nat : p[m] >= size} : \A y \in {m \in Nat : p[m] >= size} : w <= y
  <2> DEFINE T == {m \in Nat : p[m] >= size}
  <2>1. T \subseteq Nat /\ e \in T
    BY <1>2, <1>5
  <2> HIDE DEF T
  <2>2. \E m \in T : \A y \in T : m <= y
    BY <2>1, LeastNatural
  <2> QED BY <2>2 DEF T
<1> HIDE DEF p, size
<1>7. size \in Nat
  BY <1>2 DEF size
<1>8. w \in 0 .. size /\ p[w] >= size /\ \A v \in 0 .. (w - 1) : p[v] < size
  <2>1. w \in Nat /\ p[w] >= size /\ w <= e
    BY <1>3, <1>5, <1>6, <1>7
  <2>2. ASSUME NEW v \in 0 .. (w - 1) PROVE p[v] < size
    <3>1. v \in Nat /\ ~(w <= v)
      BY <2>1
    <3> QED BY <1>3, <1>6, <1>7, <3>1
  <2> QED BY <1>5, <1>7, <2>1, <2>2
<1> DEFINE a == CHOOSE x \in 0 .. size : p[x] >= size /\ \A v \in 0 .. (x - 1) : p[v] < size
<1>9. a \in 0 .. size /\ p[a] >= size /\ \A v \in 0 .. (a - 1) : p[v] < size
  BY <1>8
<1>10. M!AddressWidth = a
  BY DEF M!AddressWidth, p, size
<1> HIDE DEF a
<1>11. p[a] = size
  <2>1. a <= e
    <3>1. SUFFICES ASSUME e < a PROVE FALSE
      BY <1>5, <1>7, <1>9
    <3>2. e \in 0 .. (a - 1)
      BY <1>5, <1>7, <1>9, <3>1
    <3>3. p[e] < size
      BY <1>9, <3>2
    <3> QED BY <1>5, <1>7, <3>3
  <2>2. p[a] <= p[e]
    BY <1>4, <1>5, <1>7, <1>9, <2>1
  <2> QED BY <1>3, <1>5, <1>7, <1>9, <2>2
<1> QED BY <1>2, <1>7, <1>9, <1>10, <1>11 DEF p, size

(* What the first n ports make of a word: each of its bits is what the last   *)
(* port that writes it says, or what it was.                               *)
Writer(ports, i, w, b) == ports[i].address = w /\ b \in ports[i].mask
Spared(ports, n, w, b) == \A i \in 1 .. n : ~Writer(ports, i, w, b)
Raised(ports, n, w, b) ==
  \E i \in 1 .. n : /\ Writer(ports, i, w, b) /\ b \in ports[i].data
                    /\ \A j \in i + 1 .. n : ~Writer(ports, j, w, b)
IsWord(ports, n, w, before, x) ==
  \A b : b \in x <=> (Raised(ports, n, w, b) \/ (Spared(ports, n, w, b) /\ b \in before))

\* One port more.
LEMMA OnePort ==
  ASSUME NEW ports, NEW n \in Nat, NEW w, NEW b
  PROVE  /\ Writer(ports, n + 1, w, b) =>
              ~Spared(ports, n + 1, w, b) /\ (Raised(ports, n + 1, w, b) <=> b \in ports[n + 1].data)
         /\ ~Writer(ports, n + 1, w, b) =>
              /\ Spared(ports, n + 1, w, b) <=> Spared(ports, n, w, b)
              /\ Raised(ports, n + 1, w, b) <=> Raised(ports, n, w, b)
<1>1. PICK q : q = n + 1
  OBVIOUS
<1>2. /\ q \in 1 .. q /\ \A i \in 1 .. q : i = q \/ i \in 1 .. n
      /\ \A i \in 1 .. n : i \in 1 .. q /\ q \in i + 1 .. q /\ \A j \in i + 1 .. q : j = q \/ j \in i + 1 .. n
      /\ \A i \in 1 .. n : \A j \in i + 1 .. n : j \in i + 1 .. q
      /\ \A j \in q + 1 .. q : FALSE
  BY <1>1
<1>3. ASSUME Writer(ports, q, w, b)
      PROVE  ~Spared(ports, q, w, b) /\ (Raised(ports, q, w, b) <=> b \in ports[q].data)
  <2>1. ~Spared(ports, q, w, b)
    BY <1>2, <1>3 DEF Spared
  <2>2. ASSUME Raised(ports, q, w, b) PROVE b \in ports[q].data
    <3>1. PICK i \in 1 .. q : b \in ports[i].data /\ \A j \in i + 1 .. q : ~Writer(ports, j, w, b)
      BY <2>2 DEF Raised
    <3>2. i = q
      BY <1>2, <1>3, <3>1
    <3> QED BY <3>1, <3>2
  <2>3. ASSUME b \in ports[q].data PROVE Raised(ports, q, w, b)
    BY <1>2, <1>3, <2>3 DEF Raised
  <2> QED BY <2>1, <2>2, <2>3
<1>4. ASSUME ~Writer(ports, q, w, b)
      PROVE  /\ Spared(ports, q, w, b) <=> Spared(ports, n, w, b)
             /\ Raised(ports, q, w, b) <=> Raised(ports, n, w, b)
  <2>1. Spared(ports, q, w, b) <=> Spared(ports, n, w, b)
    BY <1>2, <1>4 DEF Spared
  <2>2. ASSUME Raised(ports, q, w, b) PROVE Raised(ports, n, w, b)
    <3>1. PICK i \in 1 .. q : Writer(ports, i, w, b) /\ b \in ports[i].data /\ \A j \in i + 1 .. q : ~Writer(ports, j, w, b)
      BY <2>2 DEF Raised
    <3>2. i \in 1 .. n
      BY <1>2, <1>4, <3>1
    <3>3. \A j \in i + 1 .. n : ~Writer(ports, j, w, b)
      BY <1>2, <3>1, <3>2
    <3> QED BY <3>1, <3>2, <3>3 DEF Raised
  <2>3. ASSUME Raised(ports, n, w, b) PROVE Raised(ports, q, w, b)
    <3>1. PICK i \in 1 .. n : Writer(ports, i, w, b) /\ b \in ports[i].data /\ \A j \in i + 1 .. n : ~Writer(ports, j, w, b)
      BY <2>3 DEF Raised
    <3>2. \A j \in i + 1 .. q : ~Writer(ports, j, w, b)
      BY <1>2, <1>4, <3>1
    <3> QED BY <1>2, <3>1, <3>2 DEF Raised
  <2> QED BY <2>1, <2>2, <2>3
<1> QED BY <1>1, <1>3, <1>4

LEMMA NoPort ==
  ASSUME NEW ports, NEW w, NEW b
  PROVE  ~Raised(ports, 0, w, b) /\ Spared(ports, 0, w, b)
<1>1. \A i \in 1 .. 0 : FALSE
  OBVIOUS
<1> QED BY <1>1 DEF Raised, Spared

\* A word after one port more.
LEMMA NextWord ==
  ASSUME NEW ports, NEW n \in Nat, NEW w, NEW before, NEW x, IsWord(ports, n, w, before, x)
  PROVE  /\ ports[n + 1].address = w =>
              IsWord(ports, n + 1, w, before, M!Merge(x, ports[n + 1].mask, ports[n + 1].data))
         /\ ports[n + 1].address # w \/ ports[n + 1].mask = {} => IsWord(ports, n + 1, w, before, x)
<1>1. ASSUME ports[n + 1].address # w \/ ports[n + 1].mask = {} PROVE IsWord(ports, n + 1, w, before, x)
  <2>1. \A b : ~Writer(ports, n + 1, w, b)
    BY <1>1 DEF Writer
  <2>2. ASSUME NEW b PROVE b \in x <=> (Raised(ports, n + 1, w, b) \/ (Spared(ports, n + 1, w, b) /\ b \in before))
    <3>1. b \in x <=> (Raised(ports, n, w, b) \/ (Spared(ports, n, w, b) /\ b \in before))
      BY DEF IsWord
    <3> QED BY <2>1, <3>1, OnePort
  <2> QED BY <2>2 DEF IsWord
<1>2. ASSUME ports[n + 1].address = w
      PROVE  IsWord(ports, n + 1, w, before, M!Merge(x, ports[n + 1].mask, ports[n + 1].data))
  <2>1. ASSUME NEW b
        PROVE  b \in M!Merge(x, ports[n + 1].mask, ports[n + 1].data)
                 <=> (Raised(ports, n + 1, w, b) \/ (Spared(ports, n + 1, w, b) /\ b \in before))
    <3>1. b \in x <=> (Raised(ports, n, w, b) \/ (Spared(ports, n, w, b) /\ b \in before))
      BY DEF IsWord
    <3>2. b \in M!Merge(x, ports[n + 1].mask, ports[n + 1].data)
            <=> IF b \in ports[n + 1].mask THEN b \in ports[n + 1].data ELSE b \in x
      BY DEF M!Merge
    <3>3. Writer(ports, n + 1, w, b) <=> b \in ports[n + 1].mask
      BY <1>2 DEF Writer
    <3> DEFINE m == M!Merge(x, ports[n + 1].mask, ports[n + 1].data)
    <3> HIDE DEF m
    <3>4. CASE Writer(ports, n + 1, w, b)
      <4>1. ~Spared(ports, n + 1, w, b) /\ (Raised(ports, n + 1, w, b) <=> b \in ports[n + 1].data)
        BY <3>4, OnePort
      <4> QED BY <3>2, <3>3, <3>4, <4>1 DEF m
    <3>5. CASE ~Writer(ports, n + 1, w, b)
      <4>1. /\ Spared(ports, n + 1, w, b) <=> Spared(ports, n, w, b)
            /\ Raised(ports, n + 1, w, b) <=> Raised(ports, n, w, b)
        BY <3>5, OnePort
      <4> QED BY <3>1, <3>2, <3>3, <3>5, <4>1 DEF m
    <3> QED BY <3>4, <3>5 DEF m
  <2> QED BY <2>1 DEF IsWord
<1> QED BY <1>1, <1>2

LEMMA FirstWord == ASSUME NEW ports, NEW w, NEW before PROVE IsWord(ports, 0, w, before, before)
BY NoPort DEF IsWord

LEMMA OneWord ==
  ASSUME NEW ports, NEW n, NEW w, NEW before,
         NEW x, IsWord(ports, n, w, before, x), NEW y, IsWord(ports, n, w, before, y)
  PROVE  x = y
<1>1. \A b : b \in x <=> b \in y
  BY DEF IsWord
<1> QED BY <1>1

\* Ports that make the same of every word.
SamePorts(g, m, ports, n) ==
  \A w, b : /\ Raised(g, m, w, b) <=> Raised(ports, n, w, b)
            /\ Spared(g, m, w, b) <=> Spared(ports, n, w, b)

LEMMA SamePrefix ==
  ASSUME NEW g, NEW ports, NEW n \in Nat, \A i \in 1 .. n : g[i] = ports[i]
  PROVE  SamePorts(g, n, ports, n)
<1>1. \A i \in 1 .. n : \A j \in i + 1 .. n : j \in 1 .. n
  OBVIOUS
<1>2. \A w, b : \A i \in 1 .. n : Writer(g, i, w, b) <=> Writer(ports, i, w, b)
  BY DEF Writer
<1>3. ASSUME NEW w, NEW b PROVE Raised(g, n, w, b) <=> Raised(ports, n, w, b)
  BY <1>1, <1>2 DEF Raised
<1>4. ASSUME NEW w, NEW b PROVE Spared(g, n, w, b) <=> Spared(ports, n, w, b)
  BY <1>2 DEF Spared
<1> QED BY <1>3, <1>4 DEF SamePorts

LEMMA SameNext ==
  ASSUME NEW g, NEW m \in Nat, NEW ports, NEW n \in Nat, SamePorts(g, m, ports, n), g[m + 1] = ports[n + 1]
  PROVE  SamePorts(g, m + 1, ports, n + 1)
<1> SUFFICES ASSUME NEW w, NEW b
             PROVE  /\ Raised(g, m + 1, w, b) <=> Raised(ports, n + 1, w, b)
                    /\ Spared(g, m + 1, w, b) <=> Spared(ports, n + 1, w, b)
  BY DEF SamePorts
<1>1. Writer(g, m + 1, w, b) <=> Writer(ports, n + 1, w, b)
  BY DEF Writer
<1>2. CASE Writer(g, m + 1, w, b)
  <2>1. ~Spared(g, m + 1, w, b) /\ (Raised(g, m + 1, w, b) <=> b \in g[m + 1].data)
    BY <1>2, OnePort
  <2>2. ~Spared(ports, n + 1, w, b) /\ (Raised(ports, n + 1, w, b) <=> b \in ports[n + 1].data)
    BY <1>1, <1>2, OnePort
  <2> QED BY <2>1, <2>2
<1>3. CASE ~Writer(g, m + 1, w, b)
  <2>1. (Spared(g, m + 1, w, b) <=> Spared(g, m, w, b)) /\ (Raised(g, m + 1, w, b) <=> Raised(g, m, w, b))
    BY <1>3, OnePort
  <2>2. /\ Spared(ports, n + 1, w, b) <=> Spared(ports, n, w, b)
        /\ Raised(ports, n + 1, w, b) <=> Raised(ports, n, w, b)
    BY <1>1, <1>3, OnePort
  <2>3. (Raised(g, m, w, b) <=> Raised(ports, n, w, b)) /\ (Spared(g, m, w, b) <=> Spared(ports, n, w, b))
    BY DEF SamePorts
  <2> QED BY <2>1, <2>2, <2>3
<1> QED BY <1>2, <1>3

LEMMA SameWord ==
  ASSUME NEW g, NEW m, NEW ports, NEW n, SamePorts(g, m, ports, n),
         NEW w, NEW before, NEW x, IsWord(g, m, w, before, x)
  PROVE  IsWord(ports, n, w, before, x)
<1> SUFFICES ASSUME NEW b
             PROVE  b \in x <=> (Raised(ports, n, w, b) \/ (Spared(ports, n, w, b) /\ b \in before))
  BY DEF IsWord
<1>1. b \in x <=> (Raised(g, m, w, b) \/ (Spared(g, m, w, b) /\ b \in before))
  BY DEF IsWord
<1>2. (Raised(g, m, w, b) <=> Raised(ports, n, w, b)) /\ (Spared(g, m, w, b) <=> Spared(ports, n, w, b))
  BY DEF SamePorts
<1> QED BY <1>1, <1>2

(* Ports with a literal address are grouped. One that writes is within the    *)
(* memory, so that its literal is its address.                              *)
PortRecs(bits) == [address : Int, mask : SUBSET bits, data : SUBSET bits, static : Int]
Direct(p, size) ==
  /\ p.mask # {} => p.address \in 0 .. size - 1
  /\ p.static >= 0 => p.address = p.static % size /\ (p.mask # {} => p.address = p.static)
IsPorts(ports, bits, size) ==
  ports \in Seq(PortRecs(bits)) /\ \A i \in 1 .. Len(ports) : Direct(ports[i], size)
IsGroups(g, bits, size) ==
  /\ IsPorts(g, bits, size)
  /\ \A i \in 1 .. Len(g) : g[i].static >= 0
  /\ \A i, j \in 1 .. Len(g) : g[i].static = g[j].static => i = j

\* One group at most writes a word.
WrittenOnce(g, w, b) ==
  /\ \A i, j \in 1 .. Len(g) : Writer(g, i, w, b) /\ Writer(g, j, w, b) => i = j
  /\ Raised(g, Len(g), w, b) <=> \E i \in 1 .. Len(g) : Writer(g, i, w, b) /\ b \in g[i].data
LEMMA OneGroup ==
  ASSUME NEW bits, NEW size, NEW g, IsGroups(g, bits, size), NEW w, NEW b
  PROVE  WrittenOnce(g, w, b)
<1>1. ASSUME NEW i \in 1 .. Len(g), Writer(g, i, w, b) PROVE g[i].static = w
  BY <1>1 DEF IsGroups, IsPorts, Direct, Writer
<1>2. ASSUME NEW i \in 1 .. Len(g), NEW j \in 1 .. Len(g), Writer(g, i, w, b), Writer(g, j, w, b) PROVE i = j
  BY <1>1, <1>2 DEF IsGroups
<1>3. Len(g) \in Nat
  BY DEF IsGroups, IsPorts
<1>4. \A i \in 1 .. Len(g) : \A j \in i + 1 .. Len(g) : j \in 1 .. Len(g) /\ j # i
  BY <1>3
<1>5. ASSUME NEW i \in 1 .. Len(g), Writer(g, i, w, b), b \in g[i].data PROVE Raised(g, Len(g), w, b)
  <2>1. \A j \in i + 1 .. Len(g) : ~Writer(g, j, w, b)
    BY <1>2, <1>4, <1>5
  <2> QED BY <1>5, <2>1 DEF Raised
<1>6. Raised(g, Len(g), w, b) => \E i \in 1 .. Len(g) : Writer(g, i, w, b) /\ b \in g[i].data
  BY DEF Raised
<1> QED BY <1>2, <1>5, <1>6 DEF WrittenOnce

\* A port joins the group of its address, or makes one.
LEMMA JoinIs ==
  ASSUME NEW bits, NEW h \in PortRecs(bits), NEW p \in PortRecs(bits)
  PROVE  LET j == M!Join(h, p) IN
         /\ j \in PortRecs(bits) /\ j.static = h.static /\ j.address = h.address
         /\ \A b : b \in j.mask <=> (b \in h.mask \/ b \in p.mask)
         /\ \A b : b \in j.data <=> IF b \in p.mask THEN b \in p.data ELSE b \in h.data
<1> DEFINE j == M!Join(h, p)
           d == M!Merge(h.data, p.mask, p.data)
<1>1. j = [address |-> h.address, mask |-> h.mask \cup p.mask, data |-> d, static |-> h.static]
  <2>1. h = [address |-> h.address, mask |-> h.mask, data |-> h.data, static |-> h.static]
    BY DEF PortRecs
  <2>2. j = [h EXCEPT !.mask = h.mask \cup p.mask, !.data = d]
    BY DEF M!Join
  <2> HIDE DEF j, d
  <2> QED BY <2>1, <2>2
<1>2. \A b : b \in d <=> IF b \in p.mask THEN b \in p.data ELSE b \in h.data
  BY DEF M!Merge
<1>3. d \in SUBSET bits /\ h.mask \cup p.mask \in SUBSET bits /\ h.address \in Int /\ h.static \in Int
  BY DEF M!Merge, PortRecs
<1> HIDE DEF d, j
<1>4. j \in PortRecs(bits) /\ j.static = h.static /\ j.address = h.address /\ j.mask = h.mask \cup p.mask /\ j.data = d
  BY <1>1, <1>3 DEF PortRecs
<1> QED BY <1>2, <1>4 DEF j

LEMMA RegroupIs ==
  ASSUME NEW bits, NEW g \in Seq(PortRecs(bits)), NEW p \in PortRecs(bits)
  PROVE  M!Regroup(g, p) \in Seq(PortRecs(bits))
<1>1. Len(g) \in Nat /\ DOMAIN g = 1 .. Len(g) /\ \A i \in 1 .. Len(g) : g[i] \in PortRecs(bits)
  OBVIOUS
<1>2. CASE ~\E i \in DOMAIN g : g[i].static = p.static
  <2>1. M!Regroup(g, p) = Append(g, p)
    BY <1>2 DEF M!Regroup
  <2> QED BY <2>1
<1>3. CASE \E i \in DOMAIN g : g[i].static = p.static
  <2> DEFINE out == [i \in 1 .. Len(g) |-> IF g[i].static = p.static THEN M!Join(g[i], p) ELSE g[i]]
  <2>1. M!Regroup(g, p) = out
    BY <1>1, <1>3 DEF M!Regroup
  <2>2. \A i \in 1 .. Len(g) : M!Join(g[i], p) \in PortRecs(bits)
    BY <1>1, JoinIs
  <2>3. out \in Seq(PortRecs(bits))
    BY <1>1, <2>2
  <2> QED BY <2>1, <2>3
<1> QED BY <1>2, <1>3

LEMMA RegroupKeeps ==
  ASSUME NEW bits, NEW size, NEW g, IsGroups(g, bits, size), NEW ports, NEW n \in Nat, SamePorts(g, Len(g), ports, n),
         ports[n + 1] \in PortRecs(bits), Direct(ports[n + 1], size), ports[n + 1].static >= 0
  PROVE  LET out == M!Regroup(g, ports[n + 1]) IN
         IsGroups(out, bits, size) /\ SamePorts(out, Len(out), ports, n + 1)
<1> DEFINE p == ports[n + 1]
           out == M!Regroup(g, p)
<1>1. /\ g \in Seq(PortRecs(bits)) /\ Len(g) \in Nat /\ DOMAIN g = 1 .. Len(g)
      /\ \A i \in 1 .. Len(g) : g[i] \in PortRecs(bits) /\ Direct(g[i], size) /\ g[i].static >= 0
      /\ \A i, j \in 1 .. Len(g) : g[i].static = g[j].static => i = j
  BY DEF IsGroups, IsPorts
<1>2. p \in PortRecs(bits) /\ Direct(p, size) /\ p.static >= 0
  OBVIOUS
<1>3. CASE ~\E i \in DOMAIN g : g[i].static = p.static
  <2> HIDE DEF p
  <2>1. out = Append(g, p)
    BY <1>3 DEF M!Regroup
  <2> DEFINE L == Len(g)
  <2>2. /\ out \in Seq(PortRecs(bits)) /\ Len(out) = L + 1 /\ out[L + 1] = p /\ \A i \in 1 .. L : out[i] = g[i]
    BY <1>1, <1>2, <2>1
  <2>3. \A i \in 1 .. L + 1 : i \in 1 .. L \/ i = L + 1
    BY <1>1
  <2> HIDE DEF out
  <2>4. IsGroups(out, bits, size)
    <3>1. ASSUME NEW i \in 1 .. Len(out) PROVE Direct(out[i], size) /\ out[i].static >= 0
      BY <1>1, <1>2, <2>2, <2>3
    <3>2. ASSUME NEW i \in 1 .. Len(out), NEW j \in 1 .. Len(out), out[i].static = out[j].static PROVE i = j
      BY <1>1, <1>3, <2>2, <2>3, <3>2
    <3> QED BY <2>2, <3>1, <3>2 DEF IsGroups, IsPorts
  <2>5. SamePorts(out, L + 1, ports, n + 1)
    <3>1. SamePorts(out, L, g, L)
      BY <1>1, <2>2, SamePrefix
    <3>2. SamePorts(out, L, ports, n)
      BY <3>1 DEF SamePorts
    <3>3. out[L + 1] = ports[n + 1]
      BY <2>2 DEF p
    <3> HIDE DEF L
    <3> QED BY <1>1, <3>2, <3>3, SameNext DEF L
  <2> QED BY <2>2, <2>4, <2>5 DEF out, p
<1>4. CASE \E i \in DOMAIN g : g[i].static = p.static
  <2> HIDE DEF p
  <2>1. PICK q \in 1 .. Len(g) : g[q].static = p.static
    BY <1>1, <1>4
  <2> DEFINE L == Len(g)
             t == M!Join(g[q], p)
  <2>2. \A i \in 1 .. L : i # q => g[i].static # p.static
    BY <1>1, <2>1
  <2>3. out = [i \in 1 .. L |-> IF i = q THEN t ELSE g[i]]
    <3>1. out = [i \in 1 .. L |-> IF g[i].static = p.static THEN M!Join(g[i], p) ELSE g[i]]
      BY <1>1, <1>4 DEF M!Regroup
    <3> HIDE DEF out
    <3> QED BY <2>1, <2>2, <3>1
  <2>4. /\ t \in PortRecs(bits) /\ Direct(t, size) /\ t.static = p.static /\ t.address = p.address
        /\ \A b : b \in t.mask <=> (b \in g[q].mask \/ b \in p.mask)
        /\ \A b : b \in t.data <=> IF b \in p.mask THEN b \in p.data ELSE b \in g[q].data
    <3>1. /\ t \in PortRecs(bits) /\ t.static = g[q].static /\ t.address = g[q].address
          /\ \A b : b \in t.mask <=> (b \in g[q].mask \/ b \in p.mask)
          /\ \A b : b \in t.data <=> IF b \in p.mask THEN b \in p.data ELSE b \in g[q].data
      BY <1>1, <1>2, <2>1, JoinIs
    <3>2. Direct(g[q], size) /\ g[q].static >= 0
      BY <1>1
    <3> HIDE DEF t
    <3>3. g[q].address = p.address
      BY <1>2, <2>1, <3>2 DEF Direct
    <3>4. t.mask # {} => g[q].mask # {} \/ p.mask # {}
      BY <3>1
    <3>5. Direct(t, size)
      BY <1>2, <2>1, <3>1, <3>2, <3>3, <3>4 DEF Direct
    <3> QED BY <2>1, <3>1, <3>3, <3>5
  <2> HIDE DEF out, t
  <2>5. /\ out \in Seq(PortRecs(bits)) /\ Len(out) = L /\ out[q] = t /\ \A i \in 1 .. L : i # q => out[i] = g[i]
    BY <1>1, <2>1, <2>3, <2>4
  <2>6. IsGroups(out, bits, size)
    <3>1. ASSUME NEW i \in 1 .. L PROVE Direct(out[i], size) /\ out[i].static = g[i].static
      BY <1>1, <2>1, <2>4, <2>5
    <3> QED BY <1>1, <2>5, <3>1 DEF IsGroups, IsPorts
  <2>7. ASSUME NEW w, NEW b
        PROVE  /\ Raised(out, L, w, b) <=> Raised(ports, n + 1, w, b)
               /\ Spared(out, L, w, b) <=> Spared(ports, n + 1, w, b)
    <3>1. (Raised(g, L, w, b) <=> Raised(ports, n, w, b)) /\ (Spared(g, L, w, b) <=> Spared(ports, n, w, b))
      BY DEF SamePorts
    <3>2. /\ Raised(g, L, w, b) <=> \E i \in 1 .. L : Writer(g, i, w, b) /\ b \in g[i].data
          /\ \A i, j \in 1 .. L : Writer(g, i, w, b) /\ Writer(g, j, w, b) => i = j
      BY OneGroup DEF WrittenOnce
    <3>3. /\ Raised(out, L, w, b) <=> \E i \in 1 .. L : Writer(out, i, w, b) /\ b \in out[i].data
          /\ \A i, j \in 1 .. L : Writer(out, i, w, b) /\ Writer(out, j, w, b) => i = j
      <4>1. WrittenOnce(out, w, b)
        BY <2>6, OneGroup
      <4>2. Len(out) = L
        BY <2>5
      <4> HIDE DEF L
      <4> QED BY <4>1, <4>2 DEF WrittenOnce
    <3>4. Writer(ports, n + 1, w, b) <=> p.address = w /\ b \in p.mask
      BY DEF Writer, p
    <3>5. \A i \in 1 .. L : i # q => (Writer(out, i, w, b) <=> Writer(g, i, w, b)) /\ out[i].data = g[i].data
      BY <2>5 DEF Writer
    <3>6. g[q].address = p.address
      BY <1>1, <1>2, <2>1 DEF Direct
    <3>7. Writer(out, q, w, b) <=> p.address = w /\ (b \in g[q].mask \/ b \in p.mask)
      BY <2>4, <2>5 DEF Writer
    <3>8. Writer(g, q, w, b) <=> p.address = w /\ b \in g[q].mask
      BY <3>6 DEF Writer
    <3> HIDE DEF L
    <3>9. CASE Writer(ports, n + 1, w, b)
      <4>1. ~Spared(ports, n + 1, w, b) /\ (Raised(ports, n + 1, w, b) <=> b \in p.data)
        BY <3>9, OnePort DEF p
      <4>2. Writer(out, q, w, b) /\ (b \in out[q].data <=> b \in p.data)
        BY <2>4, <2>5, <3>4, <3>7, <3>9
      <4>3. Raised(out, L, w, b) <=> b \in p.data
        BY <2>1, <3>3, <4>2 DEF L
      <4>4. ~Spared(out, L, w, b)
        BY <2>1, <4>2 DEF Spared, L
      <4> QED BY <4>1, <4>3, <4>4
    <3>10. CASE ~Writer(ports, n + 1, w, b)
      <4>1. /\ Spared(ports, n + 1, w, b) <=> Spared(ports, n, w, b)
            /\ Raised(ports, n + 1, w, b) <=> Raised(ports, n, w, b)
        BY <3>10, OnePort
      <4>2. Writer(out, q, w, b) <=> Writer(g, q, w, b)
        BY <3>4, <3>7, <3>8, <3>10
      <4>3. Writer(out, q, w, b) => (b \in out[q].data <=> b \in g[q].data)
        BY <2>4, <2>5, <3>4, <3>7, <3>10
      <4>4. \A i \in 1 .. L : Writer(out, i, w, b) <=> Writer(g, i, w, b)
        BY <3>5, <4>2
      <4>5. \A i \in 1 .. L : Writer(out, i, w, b) /\ b \in out[i].data <=> Writer(g, i, w, b) /\ b \in g[i].data
        BY <3>5, <4>2, <4>3
      <4>6. Raised(out, L, w, b) <=> Raised(g, L, w, b)
        BY <3>2, <3>3, <4>5
      <4>7. Spared(out, L, w, b) <=> Spared(g, L, w, b)
        BY <4>4 DEF Spared
      <4> QED BY <3>1, <4>1, <4>6, <4>7
    <3> QED BY <3>9, <3>10
  <2>8. SamePorts(out, Len(out), ports, n + 1)
    BY <2>5, <2>7 DEF SamePorts
  <2> QED BY <2>6, <2>8 DEF out, p
<1> QED BY <1>3, <1>4

\* The ports before the first one without a literal address.
LEMMA PrefixIs ==
  ASSUME NEW bits, NEW ports \in Seq(PortRecs(bits))
  PROVE  M!StaticPrefix(ports) \in 0 .. Len(ports) /\ \A i \in 1 .. M!StaticPrefix(ports) : ports[i].static >= 0
<1> DEFINE L == Len(ports)
           Stops(n) == n = L \/ ports[n + 1].static < 0
           T == {n \in 0 .. L : Stops(n)}
           IsPrefix(n) == /\ \A i \in 1 .. n : ports[i].static >= 0
                          /\ n < L => ports[n + 1].static < 0
           a == CHOOSE n \in 0 .. L : IsPrefix(n)
<1>1. L \in Nat /\ \A i \in 1 .. L : ports[i].static \in Int
  <2>1. L \in Nat /\ \A i \in 1 .. L : ports[i] \in PortRecs(bits)
    OBVIOUS
  <2> QED BY <2>1 DEF PortRecs
<1>2. PICK n \in T : \A y \in T : n <= y
  <2>1. T \subseteq Nat /\ T # {}
    <3>1. L \in T
      BY <1>1
    <3> QED BY <1>1, <3>1
  <2> HIDE DEF T
  <2> QED BY <2>1, LeastNatural
<1>3. n \in 0 .. L /\ IsPrefix(n)
  <2>1. ASSUME NEW i \in 1 .. n PROVE ports[i].static >= 0
    <3>1. i - 1 \in 0 .. L /\ i \in 1 .. L /\ ~(n <= i - 1) /\ (i - 1) + 1 = i
      BY <1>1, <1>2
    <3>2. i - 1 \notin T
      BY <1>2, <3>1
    <3>3. ~(ports[i].static < 0)
      BY <3>1, <3>2
    <3> QED BY <1>1, <3>1, <3>3
  <2>2. n < L => ports[n + 1].static < 0
    BY <1>1, <1>2
  <2> QED BY <1>2, <2>1, <2>2
<1>4. a \in 0 .. L /\ IsPrefix(a)
  <2> HIDE DEF IsPrefix, L
  <2> QED BY <1>3
<1>5. M!StaticPrefix(ports) = a
  BY DEF M!StaticPrefix
<1> HIDE DEF a
<1> QED BY <1>4, <1>5

\* The groups write what the ports write.
LEMMA GroupedIs ==
  ASSUME NEW bits, NEW size, NEW ports, IsPorts(ports, bits, size)
  PROVE  LET g == M!Grouped(ports) IN IsPorts(g, bits, size) /\ SamePorts(g, Len(g), ports, Len(ports))
<1> DEFINE N == M!StaticPrefix(ports)
           L == Len(ports)
           R == Seq(PortRecs(bits))
           ValueAt(f, i) == IF i = 0 THEN <<>> ELSE M!Regroup(f[i - 1], ports[i])
           Body(f) == [i \in 0 .. N |-> ValueAt(f, i)]
           f == CHOOSE h : h = Body(h)
           Step == [p \in (1 .. N) \X R |-> M!Regroup(p[2], ports[p[1]])]
<1>1. ports \in R /\ L \in Nat /\ \A i \in 1 .. L : ports[i] \in PortRecs(bits) /\ Direct(ports[i], size)
  BY DEF IsPorts
<1>2. N \in 0 .. L /\ \A i \in 1 .. N : ports[i].static >= 0
  BY <1>1, PrefixIs
<1>3. M!Grouped(ports) = f[N] \o SubSeq(ports, N + 1, L)
  BY DEF M!Grouped
<1> HIDE DEF N
<1>4. Step \in [(1 .. N) \X R -> R] /\ <<>> \in R
  <2>1. ASSUME NEW i \in 1 .. N, NEW r \in R PROVE M!Regroup(r, ports[i]) \in R
    <3>1. ports[i] \in PortRecs(bits) /\ r \in Seq(PortRecs(bits))
      BY <1>1, <1>2
    <3> QED BY <3>1, RegroupIs
  <2> QED BY <2>1
<1>5. PICK g : Stepped(g, R, <<>>, Step, N)
  <2> HIDE DEF R, Step
  <2>1. N \in Nat
    BY <1>1, <1>2
  <2> QED BY <1>4, <2>1, Iteration
<1>6. g \in [0 .. N -> R] /\ g[0] = <<>> /\ \A i \in 1 .. N : g[i] = Step[<<i, g[i - 1]>>]
  <2> HIDE DEF R, Step
  <2> QED BY <1>5 DEF Stepped
<1>7. g = Body(g)
  <2>1. ASSUME NEW i \in 0 .. N PROVE g[i] = ValueAt(g, i)
    <3>1. CASE i = 0
      BY <1>6, <3>1
    <3>2. CASE i # 0
      <4>1. i \in 1 .. N /\ i - 1 \in 0 .. N
        BY <1>1, <1>2, <3>2
      <4>2. g[i - 1] \in R
        <5> HIDE DEF R
        <5> QED BY <1>6, <4>1
      <4>3. Step[<<i, g[i - 1]>>] = M!Regroup(g[i - 1], ports[i])
        <5> HIDE DEF R
        <5> QED BY <4>1, <4>2
      <4> HIDE DEF R, Step
      <4> QED BY <1>6, <3>2, <4>1, <4>3
    <3> QED BY <3>1, <3>2
  <2> HIDE DEF ValueAt, R
  <2> QED BY <1>6, <2>1
<1>8. f = Body(f)
  <2> HIDE DEF Body
  <2> QED BY <1>7
<1> HIDE DEF f
<1>9. f[0] = <<>> /\ \A i \in 1 .. N : f[i] = M!Regroup(f[i - 1], ports[i])
  <2>1. \A i \in 0 .. N : Body(f)[i] = ValueAt(f, i)
    <3> HIDE DEF ValueAt
    <3> QED OBVIOUS
  <2>2. \A i \in 0 .. N : f[i] = ValueAt(f, i)
    <3> HIDE DEF Body, ValueAt
    <3> QED BY <1>8, <2>1
  <2>3. 0 \in 0 .. N /\ \A i \in 1 .. N : i \in 0 .. N /\ i # 0
    BY <1>1, <1>2
  <2> HIDE DEF f, R, Body, L
  <2> QED BY <2>2, <2>3
<1> DEFINE Done(i) == IsGroups(f[i], bits, size) /\ SamePorts(f[i], Len(f[i]), ports, i)
           S == {i \in Nat : i <= N => Done(i)}
<1>10. 0 \in S
  <2>1. IsGroups(<<>>, bits, size)
    BY DEF IsGroups, IsPorts
  <2>2. SamePorts(<<>>, 0, ports, 0)
    BY NoPort DEF SamePorts
  <2>3. Len(<<>>) = 0
    OBVIOUS
  <2> QED BY <1>9, <2>1, <2>2, <2>3
<1>11. ASSUME NEW i \in Nat, i \in S PROVE i + 1 \in S
  <2>1. SUFFICES ASSUME i + 1 <= N PROVE Done(i + 1)
    OBVIOUS
  <2>2. i + 1 \in 1 .. N /\ i + 1 \in 1 .. L /\ i <= N /\ (i + 1) - 1 = i
    BY <1>1, <1>2, <2>1
  <2>3. Done(i)
    BY <1>11, <2>2
  <2>4. f[i + 1] = M!Regroup(f[i], ports[i + 1])
    <3>1. PICK m : m = i + 1
      OBVIOUS
    <3>2. f[m] = M!Regroup(f[m - 1], ports[m]) /\ m - 1 = i
      BY <1>9, <2>2, <3>1
    <3> QED BY <3>1, <3>2
  <2> DEFINE h == f[i]
  <2>5. IsGroups(h, bits, size) /\ SamePorts(h, Len(h), ports, i)
    BY <2>3
  <2>6. ports[i + 1] \in PortRecs(bits) /\ Direct(ports[i + 1], size) /\ ports[i + 1].static >= 0
    BY <1>1, <1>2, <2>2
  <2>7. f[i + 1] = M!Regroup(h, ports[i + 1])
    BY <2>4
  <2> HIDE DEF h
  <2> QED BY <2>5, <2>6, <2>7, RegroupKeeps
<1>12. Done(N)
  <2>1. N \in S
    <3> HIDE DEF S
    <3> QED BY <1>1, <1>2, <1>10, <1>11, SetInduction
  <2> QED BY <1>1, <1>2, <2>1
<1> DEFINE h == f[N]
           rest == SubSeq(ports, N + 1, L)
           out == h \o rest
           H == Len(h)
<1>13. IsGroups(h, bits, size) /\ SamePorts(h, H, ports, N)
  BY <1>12
<1> HIDE DEF h
<1>14. h \in R /\ H \in Nat /\ \A i \in 1 .. H : h[i] \in PortRecs(bits) /\ Direct(h[i], size)
  BY <1>13 DEF IsGroups, IsPorts
<1>15. rest \in R /\ Len(rest) = L - N /\ \A i \in 1 .. L - N : rest[i] = ports[N + i]
  BY <1>1, <1>2
<1> HIDE DEF rest
<1>16. /\ out \in R /\ Len(out) = H + (L - N) /\ \A i \in 1 .. H : out[i] = h[i]
       /\ \A i \in 1 .. L - N : out[H + i] = ports[N + i]
  <2> HIDE DEF H
  <2>1. L - N \in Nat
    BY <1>1, <1>2
  <2>2. out \in R
    BY <1>14, <1>15
  <2>3. Len(out) = H + (L - N)
    BY <1>14, <1>15 DEF H
  <2>4. \A i \in 1 .. H : out[i] = h[i]
    BY <1>14, <1>15 DEF H
  <2>5. ASSUME NEW i \in 1 .. L - N PROVE out[H + i] = ports[N + i]
    <3>1. out[H + i] = rest[i]
      <4>1. i \in 1 .. Len(rest) /\ i \in Nat /\ i >= 1
        BY <1>15, <2>1
      <4> HIDE DEF L
      <4> QED BY <1>14, <1>15, <4>1 DEF H
    <3> QED BY <1>15, <3>1
  <2> QED BY <2>2, <2>3, <2>4, <2>5
<1> HIDE DEF out, H
<1>17. IsPorts(out, bits, size)
  <2>1. ASSUME NEW i \in 1 .. Len(out) PROVE Direct(out[i], size)
    <3>1. CASE i \in 1 .. H
      BY <1>14, <1>16, <3>1
    <3>2. CASE i \notin 1 .. H
      <4>1. PICK e : e = i - H
        OBVIOUS
      <4>2. e \in 1 .. L - N /\ i = H + e /\ N + e \in 1 .. L
        BY <1>1, <1>2, <1>14, <1>16, <3>2, <4>1
      <4>3. out[i] = ports[N + e]
        BY <1>16, <4>2
      <4> QED BY <1>1, <4>2, <4>3
    <3> QED BY <3>1, <3>2
  <2> QED BY <1>16, <2>1 DEF IsPorts
<1> DEFINE U == {e \in Nat : e <= L - N => SamePorts(out, H + e, ports, N + e)}
<1>18. 0 \in U
  <2>1. SamePorts(out, H, h, H)
    BY <1>14, <1>16, SamePrefix
  <2>2. SamePorts(out, H, ports, N)
    BY <1>13, <2>1 DEF SamePorts, H
  <2>3. H + 0 = H /\ N + 0 = N
    BY <1>1, <1>2, <1>14
  <2> QED BY <2>2, <2>3
<1>19. ASSUME NEW e \in Nat, e \in U PROVE e + 1 \in U
  <2>1. SUFFICES ASSUME e + 1 <= L - N PROVE SamePorts(out, H + (e + 1), ports, N + (e + 1))
    OBVIOUS
  <2> DEFINE m == H + e
             n == N + e
  <2>2. /\ m \in Nat /\ n \in Nat /\ H + (e + 1) = m + 1 /\ N + (e + 1) = n + 1
        /\ e + 1 \in 1 .. L - N /\ e <= L - N
    BY <1>1, <1>2, <1>14, <2>1
  <2>3. SamePorts(out, m, ports, n)
    BY <1>19, <2>2
  <2>4. out[H + (e + 1)] = ports[N + (e + 1)]
    BY <1>16, <2>2
  <2>5. out[m + 1] = ports[n + 1]
    BY <2>2, <2>4
  <2> HIDE DEF m, n
  <2>6. SamePorts(out, m + 1, ports, n + 1)
    BY <2>2, <2>3, <2>5, SameNext
  <2> QED BY <2>2, <2>6
<1>20. SamePorts(out, Len(out), ports, L)
  <2>1. PICK e : e = L - N
    OBVIOUS
  <2>2. e \in Nat /\ H + e = Len(out) /\ N + e = L /\ e <= L - N
    BY <1>1, <1>2, <1>14, <1>16, <2>1
  <2>3. e \in U
    <3> HIDE DEF U
    <3> QED BY <1>18, <1>19, <2>2, SetInduction
  <2> QED BY <2>2, <2>3
<1>21. M!Grouped(ports) = out
  BY <1>3 DEF out, h, rest
<1> QED BY <1>17, <1>20, <1>21

\* What a cycle gives a write port, when the cell is not refused.
Raw(i, in) == IF cell.writes[i].static >= 0 THEN cell.writes[i].static ELSE in[i].address
PortsOf(in) == [i \in DOMAIN cell.writes |-> M!Port(i, in[i])]
IsInput(in) == \A i \in DOMAIN cell.writes : in[i] \in M!Inputs(i)

LEMMA PortsAre ==
  ASSUME cell \in MemoryCells, M!Shape = {}, NEW in, IsInput(in)
  PROVE  /\ IsPorts(PortsOf(in), M!Bits, cell.size)
         /\ Len(cell.writes) \in Nat /\ DOMAIN cell.writes = 1 .. Len(cell.writes)
         /\ Len(PortsOf(in)) = Len(cell.writes)
         /\ \A i \in 1 .. Len(cell.writes) : LET p == PortsOf(in)[i] IN
              /\ Raw(i, in) \in Nat /\ p.data = in[i].data
              /\ in[i].mask \in SUBSET M!Bits /\ in[i].data \in SUBSET M!Bits
              /\ IF Raw(i, in) < cell.size THEN p.address = Raw(i, in) /\ p.mask = in[i].mask ELSE p.mask = {}
<1> DEFINE N == Len(cell.writes)
           size == cell.size
           bits == M!Bits
           ports == PortsOf(in)
<1>1. /\ size \in Nat \ {0} /\ cell.abits \in Nat \ {0} /\ M!AddressWidth \in Nat /\ M!Power[M!AddressWidth] = size
      /\ M!Power[cell.abits] \in Nat
  BY SizeIs, PowerIs
<1>2. N \in Nat /\ DOMAIN cell.writes = 1 .. N
  BY MemoriesAssumption DEF IsSequence
<1>3. ASSUME NEW i \in 1 .. N
      PROVE  /\ Raw(i, in) \in Nat /\ in[i].mask \in SUBSET bits /\ in[i].data \in SUBSET bits
             /\ ports[i] = [address |-> Raw(i, in) % size,
                            mask |-> IF Raw(i, in) >= size THEN {} ELSE in[i].mask,
                            data |-> in[i].data, static |-> cell.writes[i].static]
             /\ cell.writes[i].static \in Int
  <2>1. cell.writes[i].static \in Int /\ cell.writes[i].static < M!Power[cell.abits]
    BY <1>1, <1>2, MemoriesAssumption
  <2>2. in[i] \in M!Inputs(i)
    BY <1>2 DEF IsInput
  <2>3. in[i].mask \in SUBSET bits /\ in[i].data \in SUBSET bits
    BY <2>2 DEF M!Inputs
  <2>4. Raw(i, in) \in Nat /\ Raw(i, in) < M!Power[cell.abits]
    <3>1. CASE cell.writes[i].static >= 0
      BY <2>1, <3>1 DEF Raw
    <3>2. CASE ~(cell.writes[i].static >= 0)
      <4>1. in[i].address \in M!Addresses
        BY <2>2, <3>2 DEF M!Inputs
      <4> QED BY <1>1, <3>2, <4>1 DEF Raw, M!Addresses
    <3> QED BY <3>1, <3>2
  <2>5. Raw(i, in) >= size => M!Partial
    BY <1>1, <2>4 DEF M!Partial
  <2>6. ports[i] = M!Port(i, in[i])
    BY <1>2 DEF PortsOf
  <2>7. M!Port(i, in[i]) = [address |-> Raw(i, in) % size,
                            mask |-> IF M!Partial /\ Raw(i, in) >= size THEN {} ELSE in[i].mask,
                            data |-> in[i].data, static |-> cell.writes[i].static]
    BY <1>1 DEF M!Port, Raw
  <2> HIDE DEF ports, size, bits
  <2> QED BY <2>1, <2>3, <2>4, <2>5, <2>6, <2>7
<1>4. ports = [i \in 1 .. N |-> ports[i]]
  BY <1>2 DEF PortsOf
<1> HIDE DEF N, size, bits, ports
<1>5. ASSUME NEW i \in 1 .. N
      PROVE  /\ ports[i] \in PortRecs(bits) /\ Direct(ports[i], size) /\ ports[i].data = in[i].data
             /\ IF Raw(i, in) < size THEN ports[i].address = Raw(i, in) /\ ports[i].mask = in[i].mask
                                     ELSE ports[i].mask = {}
  <2> DEFINE raw == Raw(i, in)
             m == IF raw >= size THEN {} ELSE in[i].mask
             a == raw % size
  <2>1. /\ ports[i] = [address |-> a, mask |-> m, data |-> in[i].data, static |-> cell.writes[i].static]
        /\ raw \in Nat /\ cell.writes[i].static \in Int /\ in[i].mask \in SUBSET bits /\ in[i].data \in SUBSET bits
        /\ cell.writes[i].static >= 0 => raw = cell.writes[i].static
    BY <1>3 DEF Raw
  <2>2. a \in 0 .. size - 1 /\ (raw < size => a = raw)
    <3> HIDE DEF raw
    <3>1. size \in Nat \ {0} /\ raw \in Nat
      BY <1>1, <2>1 DEF size
    <3> QED BY <3>1
  <2>3. m \in SUBSET bits /\ (raw < size => m = in[i].mask) /\ (~(raw < size) => m = {})
    <3>1. size \in Nat \ {0}
      BY <1>1 DEF size
    <3> HIDE DEF raw
    <3> QED BY <2>1, <3>1
  <2>4. cell.writes[i].static >= 0 => a = cell.writes[i].static % size
    BY <2>1
  <2> HIDE DEF a, m, raw
  <2>5. /\ ports[i].address = a /\ ports[i].mask = m /\ ports[i].data = in[i].data
        /\ ports[i].static = cell.writes[i].static
    BY <2>1
  <2>6. size \in Nat
    BY <1>1 DEF size
  <2>7. ports[i] \in PortRecs(bits)
    BY <2>1, <2>2, <2>3, <2>6 DEF PortRecs
  <2>8. Direct(ports[i], size)
    BY <2>1, <2>2, <2>3, <2>4, <2>5 DEF Direct
  <2>9. IF raw < size THEN ports[i].address = raw /\ ports[i].mask = in[i].mask ELSE ports[i].mask = {}
    BY <2>2, <2>3, <2>5
  <2> QED BY <2>5, <2>7, <2>8, <2>9 DEF raw
<1>6. ports \in Seq(PortRecs(bits)) /\ Len(ports) = N
  <2>1. N \in Nat
    BY <1>2 DEF N
  <2> QED BY <1>4, <1>5, <2>1
<1>7. IsPorts(ports, bits, size)
  BY <1>5, <1>6 DEF IsPorts
<1> QED BY <1>2, <1>3, <1>5, <1>6, <1>7 DEF N, size, bits, ports

\* What an earlier port makes of the word a port writes over.
Earlier(ports, i, j, word) ==
  LET p == ports[i]
      e == ports[j]
      apart == p.static >= 0 /\ e.static >= 0 /\ p.static # e.static
  IN IF ~apart /\ e.address = p.address /\ e.mask # {} THEN M!Merge(word, e.mask, e.data) ELSE word

LEMMA AccumulatedIs ==
  ASSUME NEW bits, NEW size, NEW ports, IsPorts(ports, bits, size), NEW n \in 1 .. Len(ports), ports[n].mask # {},
         mem \in [0 .. size - 1 -> SUBSET bits]
  PROVE  LET w == ports[n].address
             x == M!Accumulated(ports, n)
         IN x \in SUBSET bits /\ IsWord(ports, n - 1, w, mem[w], x)
<1> DEFINE w == ports[n].address
<1> DEFINE N == n - 1
           R == SUBSET bits
           base == mem[w]
           ValueAt(f, i) == IF i = 0 THEN base ELSE Earlier(ports, n, i, f[i - 1])
           Body(f) == [i \in 0 .. N |-> ValueAt(f, i)]
           f == CHOOSE h : h = Body(h)
           Step == [p \in (1 .. N) \X R |-> Earlier(ports, n, p[1], p[2])]
<1>1. N \in Nat /\ \A i \in 1 .. N : i \in 1 .. Len(ports)
  BY DEF IsPorts
<1>2. \A i \in 1 .. Len(ports) : ports[i] \in PortRecs(bits) /\ Direct(ports[i], size)
  BY DEF IsPorts
<1>3. w \in 0 .. size - 1
  BY <1>2 DEF Direct
<1>4. base \in SUBSET bits
  BY <1>3
<1>5. ASSUME NEW j \in 1 .. N, NEW r \in SUBSET bits PROVE Earlier(ports, n, j, r) \in SUBSET bits
  <2>1. ports[j].data \in SUBSET bits
    BY <1>1, <1>2 DEF PortRecs
  <2> QED BY <2>1 DEF Earlier, M!Merge
<1>6. M!Accumulated(ports, n) = f[N]
  BY DEF M!Accumulated, Earlier
<1> HIDE DEF N
<1>7. Step \in [(1 .. N) \X R -> R] /\ base \in R
  <2>1. ASSUME NEW i \in 1 .. N, NEW r \in R PROVE Earlier(ports, n, i, r) \in R
    BY <1>4, <1>5
  <2>2. base \in R
    BY <1>4, <1>5
  <2> HIDE DEF R, base
  <2> QED BY <2>1, <2>2
<1>8. PICK g : Stepped(g, R, base, Step, N)
  <2> HIDE DEF R, Step, base
  <2> QED BY <1>1, <1>7, Iteration
<1>9. g \in [0 .. N -> R] /\ g[0] = base /\ \A i \in 1 .. N : g[i] = Step[<<i, g[i - 1]>>]
  <2> HIDE DEF R, Step, base
  <2> QED BY <1>8 DEF Stepped
<1>10. g = Body(g)
  <2>1. ASSUME NEW i \in 0 .. N PROVE g[i] = ValueAt(g, i)
    <3>1. CASE i = 0
      BY <1>9, <3>1
    <3>2. CASE i # 0
      <4>1. i \in 1 .. N /\ i - 1 \in 0 .. N
        BY <1>1, <3>2
      <4>2. g[i - 1] \in R
        <5> HIDE DEF R
        <5> QED BY <1>9, <4>1
      <4>3. Step[<<i, g[i - 1]>>] = Earlier(ports, n, i, g[i - 1])
        <5> HIDE DEF R
        <5> QED BY <4>1, <4>2
      <4> HIDE DEF R, Step
      <4> QED BY <1>9, <3>2, <4>1, <4>3
    <3> QED BY <3>1, <3>2
  <2> HIDE DEF ValueAt, R
  <2> QED BY <1>9, <2>1
<1>11. f = Body(f)
  <2> HIDE DEF Body
  <2> QED BY <1>10
<1> HIDE DEF f
<1>12. f[0] = base /\ \A i \in 1 .. N : f[i] = Earlier(ports, n, i, f[i - 1])
  <2>1. \A i \in 0 .. N : Body(f)[i] = ValueAt(f, i)
    <3> HIDE DEF ValueAt
    <3> QED OBVIOUS
  <2>2. \A i \in 0 .. N : f[i] = ValueAt(f, i)
    <3> HIDE DEF Body, ValueAt
    <3> QED BY <1>11, <2>1
  <2>3. 0 \in 0 .. N /\ \A i \in 1 .. N : i \in 0 .. N /\ i # 0
    BY <1>1
  <2> HIDE DEF R, Body, base
  <2> QED BY <2>2, <2>3
<1> DEFINE Fits(i) == f[i] \in SUBSET bits /\ IsWord(ports, i, w, mem[w], f[i])
           S == {i \in Nat : i <= N => Fits(i)}
<1>13. 0 \in S
  <2>1. IsWord(ports, 0, w, mem[w], mem[w])
    BY FirstWord
  <2> QED BY <1>4, <1>12, <2>1
<1>14. ASSUME NEW i \in Nat, i \in S PROVE i + 1 \in S
  <2>1. SUFFICES ASSUME i + 1 <= N PROVE Fits(i + 1)
    OBVIOUS
  <2>2. PICK q : q = i + 1
    OBVIOUS
  <2>3. q \in 1 .. N /\ q - 1 = i /\ i <= N
    BY <1>1, <2>1, <2>2
  <2> DEFINE x == f[i]
             e == ports[q]
  <2>4. x \in SUBSET bits /\ IsWord(ports, i, w, mem[w], x)
    BY <1>14, <2>3
  <2>5. f[q] = Earlier(ports, n, q, x)
    BY <1>12, <2>3
  <2> HIDE DEF x, f
  <2>6. f[q] \in SUBSET bits
    BY <1>5, <2>3, <2>4, <2>5
  <2>7. e.mask # {} /\ e.address = w => ~(ports[n].static >= 0 /\ e.static >= 0 /\ ports[n].static # e.static)
    <3>1. Direct(e, size) /\ Direct(ports[n], size)
      BY <1>1, <1>2, <2>3
    <3> HIDE DEF e
    <3> QED BY <3>1 DEF Direct
  <2>8. f[q] = IF e.address = w /\ e.mask # {} THEN M!Merge(x, e.mask, e.data) ELSE x
    <3> HIDE DEF e, w
    <3>1. f[q] = IF ~(ports[n].static >= 0 /\ e.static >= 0 /\ ports[n].static # e.static) /\ e.address = w /\ e.mask # {}
                 THEN M!Merge(x, e.mask, e.data) ELSE x
      BY <2>5 DEF Earlier, e, w
    <3> QED BY <2>7, <3>1
  <2> HIDE DEF w
  <2>9. IsWord(ports, i + 1, w, mem[w], f[q])
    <3>1. CASE e.address = w /\ e.mask # {}
      <4>1. IsWord(ports, i + 1, w, mem[w], M!Merge(x, ports[i + 1].mask, ports[i + 1].data))
        BY <2>2, <2>4, <3>1, NextWord
      <4> QED BY <2>2, <2>8, <3>1, <4>1
    <3>2. CASE ~(e.address = w /\ e.mask # {})
      <4>1. IsWord(ports, i + 1, w, mem[w], x)
        BY <2>2, <2>4, <3>2, NextWord
      <4> QED BY <2>8, <3>2, <4>1
    <3> QED BY <3>1, <3>2
  <2> QED BY <2>2, <2>6, <2>9
<1>15. Fits(N)
  <2>1. N \in S
    <3> HIDE DEF S
    <3> QED BY <1>1, <1>13, <1>14, SetInduction
  <2> QED BY <1>1, <2>1
<1> QED BY <1>6, <1>15 DEF N

\* One commit of a whole word, and one masked write of Yosys.
Commit(writes, i, words) ==
  IF writes[i].enable THEN [words EXCEPT ![writes[i].address] = writes[i].data] ELSE words

LEMMA CommittedIs ==
  ASSUME NEW bits, NEW size, NEW ports, IsPorts(ports, bits, size), mem \in [0 .. size - 1 -> SUBSET bits]
  PROVE  LET c == M!Committed(M!Writes(ports)) IN
         /\ c \in [0 .. size - 1 -> SUBSET bits]
         /\ \A w \in 0 .. size - 1 : IsWord(ports, Len(ports), w, mem[w], c[w])
<1> DEFINE writes == M!Writes(ports)
<1> DEFINE N == Len(writes)
           R == [0 .. size - 1 -> SUBSET bits]
           base == mem
           ValueAt(f, i) == IF i = 0 THEN base ELSE Commit(writes, i, f[i - 1])
           Body(f) == [i \in 0 .. N |-> ValueAt(f, i)]
           f == CHOOSE h : h = Body(h)
           Step == [p \in (1 .. N) \X R |-> Commit(writes, p[1], p[2])]
<1>1. N \in Nat /\ N = Len(ports)
  BY DEF IsPorts, M!Writes
<1>2. \A i \in 1 .. N : ports[i] \in PortRecs(bits) /\ Direct(ports[i], size)
  BY <1>1 DEF IsPorts
<1>3. ASSUME NEW i \in 1 .. N
      PROVE  /\ writes[i].enable = (ports[i].mask # {})
             /\ writes[i].address = ports[i].address
             /\ writes[i].data = M!Merge(M!Accumulated(ports, i), ports[i].mask, ports[i].data)
  <2> DEFINE e == ports[i].mask # {}
             a == ports[i].address
             d == M!Merge(M!Accumulated(ports, i), ports[i].mask, ports[i].data)
  <2>1. writes[i] = [enable |-> e, address |-> a, data |-> d]
    BY <1>1 DEF M!Writes, IsPorts
  <2> HIDE DEF e, a, d, writes
  <2>2. writes[i].enable = e /\ writes[i].address = a /\ writes[i].data = d
    BY <2>1
  <2> QED BY <2>2 DEF e, a, d
<1>4. M!Committed(writes) = f[N]
  BY DEF M!Committed, Commit
<1> HIDE DEF writes, N
<1>5. ASSUME NEW i \in 1 .. N, ports[i].mask # {}
      PROVE  LET w == ports[i].address
                 x == M!Accumulated(ports, i)
             IN /\ w \in 0 .. size - 1 /\ IsWord(ports, i - 1, w, mem[w], x)
                /\ writes[i].enable /\ writes[i].address = w /\ writes[i].data = M!Merge(x, ports[i].mask, ports[i].data)
                /\ writes[i].data \in SUBSET bits
  <2> DEFINE w == ports[i].address
             x == M!Accumulated(ports, i)
  <2>1. w \in 0 .. size - 1
    BY <1>2, <1>5 DEF Direct
  <2>2. x \in SUBSET bits /\ IsWord(ports, i - 1, w, mem[w], x)
    BY <1>1, <1>5, AccumulatedIs
  <2>3. writes[i].enable /\ writes[i].address = w /\ writes[i].data = M!Merge(x, ports[i].mask, ports[i].data)
    BY <1>3, <1>5
  <2>4. ports[i].data \in SUBSET bits
    BY <1>2 DEF PortRecs
  <2> HIDE DEF w, x
  <2>5. writes[i].data \in SUBSET bits
    BY <2>2, <2>3, <2>4 DEF M!Merge
  <2> QED BY <2>1, <2>2, <2>3, <2>5 DEF w, x
<1>6. ASSUME NEW i \in 1 .. N, NEW r \in R PROVE Commit(writes, i, r) \in R
  <2>1. CASE ports[i].mask # {}
    <3>1. writes[i].data \in SUBSET bits
      BY <1>5, <2>1
    <3> QED BY <3>1 DEF Commit
  <2>2. CASE ports[i].mask = {}
    <3>1. ~writes[i].enable
      BY <1>3, <2>2
    <3> QED BY <3>1 DEF Commit
  <2> QED BY <2>1, <2>2
<1>7. Step \in [(1 .. N) \X R -> R] /\ base \in R
  <2>1. ASSUME NEW i \in 1 .. N, NEW r \in R PROVE Commit(writes, i, r) \in R
    BY <1>6
  <2>2. base \in R
    BY <1>6
  <2> HIDE DEF R, base
  <2> QED BY <2>1, <2>2
<1>8. PICK g : Stepped(g, R, base, Step, N)
  <2> HIDE DEF R, Step, base
  <2> QED BY <1>1, <1>7, Iteration
<1>9. g \in [0 .. N -> R] /\ g[0] = base /\ \A i \in 1 .. N : g[i] = Step[<<i, g[i - 1]>>]
  <2> HIDE DEF R, Step, base
  <2> QED BY <1>8 DEF Stepped
<1>10. g = Body(g)
  <2>1. ASSUME NEW i \in 0 .. N PROVE g[i] = ValueAt(g, i)
    <3>1. CASE i = 0
      BY <1>9, <3>1
    <3>2. CASE i # 0
      <4>1. i \in 1 .. N /\ i - 1 \in 0 .. N
        BY <1>1, <3>2
      <4>2. g[i - 1] \in R
        <5> HIDE DEF R
        <5> QED BY <1>9, <4>1
      <4>3. Step[<<i, g[i - 1]>>] = Commit(writes, i, g[i - 1])
        <5> HIDE DEF R
        <5> QED BY <4>1, <4>2
      <4> HIDE DEF R, Step
      <4> QED BY <1>9, <3>2, <4>1, <4>3
    <3> QED BY <3>1, <3>2
  <2> HIDE DEF ValueAt, R
  <2> QED BY <1>9, <2>1
<1>11. f = Body(f)
  <2> HIDE DEF Body
  <2> QED BY <1>10
<1> HIDE DEF f
<1>12. f[0] = base /\ \A i \in 1 .. N : f[i] = Commit(writes, i, f[i - 1])
  <2>1. \A i \in 0 .. N : Body(f)[i] = ValueAt(f, i)
    <3> HIDE DEF ValueAt
    <3> QED OBVIOUS
  <2>2. \A i \in 0 .. N : f[i] = ValueAt(f, i)
    <3> HIDE DEF Body, ValueAt
    <3> QED BY <1>11, <2>1
  <2>3. 0 \in 0 .. N /\ \A i \in 1 .. N : i \in 0 .. N /\ i # 0
    BY <1>1
  <2> HIDE DEF R, Body, base
  <2> QED BY <2>2, <2>3
<1> DEFINE Fits(i) == f[i] \in R /\ \A w \in 0 .. size - 1 : IsWord(ports, i, w, mem[w], f[i][w])
           S == {i \in Nat : i <= N => Fits(i)}
<1>13. 0 \in S
  <2>1. f[0] = mem
    BY <1>12
  <2>2. \A w : IsWord(ports, 0, w, mem[w], mem[w])
    BY FirstWord
  <2> QED BY <2>1, <2>2
<1>14. ASSUME NEW i \in Nat, i \in S PROVE i + 1 \in S
  <2>1. SUFFICES ASSUME i + 1 <= N PROVE Fits(i + 1)
    OBVIOUS
  <2>2. PICK q : q = i + 1
    OBVIOUS
  <2>3. q \in 1 .. N /\ q - 1 = i /\ i <= N
    BY <1>1, <2>1, <2>2
  <2> DEFINE x == f[i]
             a == ports[q].address
             m == ports[q].mask
             d == ports[q].data
  <2>4. x \in R /\ \A w \in 0 .. size - 1 : IsWord(ports, i, w, mem[w], x[w])
    BY <1>14, <2>3
  <2>5. f[q] = Commit(writes, q, x)
    BY <1>12, <2>3
  <2> HIDE DEF x, f
  <2>6. f[q] \in R
    BY <1>6, <2>3, <2>4, <2>5
  <2>7. CASE m # {}
    <3>1. PICK old : /\ a \in 0 .. size - 1 /\ IsWord(ports, i, a, mem[a], old)
                     /\ writes[q].enable /\ writes[q].address = a /\ writes[q].data = M!Merge(old, m, d)
      BY <1>5, <2>3, <2>7
    <3>2. IsWord(ports, i, a, mem[a], x[a])
      BY <2>4, <3>1
    <3>3. x[a] = old
      <4> HIDE DEF a
      <4> QED BY <3>1, <3>2, OneWord
    <3>4. f[q] = [x EXCEPT ![a] = M!Merge(x[a], m, d)]
      BY <2>5, <3>1, <3>3 DEF Commit
    <3>5. ASSUME NEW w \in 0 .. size - 1 PROVE IsWord(ports, i + 1, w, mem[w], f[q][w])
      <4>1. IsWord(ports, i, w, mem[w], x[w])
        BY <2>4
      <4>2. CASE w = a
        <5>1. f[q][w] = M!Merge(x[w], m, d)
          <6> HIDE DEF m, d
          <6> QED BY <2>4, <3>4, <4>2
        <5>2. IsWord(ports, i + 1, w, mem[w], M!Merge(x[w], ports[i + 1].mask, ports[i + 1].data))
          BY <2>2, <4>1, <4>2, NextWord
        <5> QED BY <2>2, <5>1, <5>2
      <4>3. CASE w # a
        <5>1. f[q][w] = x[w]
          <6> HIDE DEF m, d
          <6> QED BY <2>4, <3>4, <4>3
        <5>2. IsWord(ports, i + 1, w, mem[w], x[w])
          BY <2>2, <4>1, <4>3, NextWord
        <5> QED BY <5>1, <5>2
      <4> QED BY <4>2, <4>3
    <3> QED BY <2>2, <2>6, <3>5
  <2>8. CASE m = {}
    <3>1. ~writes[q].enable
      BY <1>3, <2>3, <2>8
    <3>2. f[q] = x
      BY <2>5, <3>1 DEF Commit
    <3>3. ASSUME NEW w \in 0 .. size - 1 PROVE IsWord(ports, i + 1, w, mem[w], x[w])
      <4>1. IsWord(ports, i, w, mem[w], x[w])
        BY <2>4
      <4> QED BY <2>2, <2>8, <4>1, NextWord
    <3> QED BY <2>2, <2>6, <3>2, <3>3
  <2> QED BY <2>7, <2>8
<1>15. Fits(N)
  <2>1. N \in S
    <3> HIDE DEF S
    <3> QED BY <1>1, <1>13, <1>14, SetInduction
  <2> QED BY <1>1, <2>1
<1> QED BY <1>1, <1>4, <1>15 DEF writes

MaskedWrite(in, i, words) ==
  IF Raw(i, in) < cell.size
  THEN [words EXCEPT ![Raw(i, in)] = M!Merge(@, in[i].mask, in[i].data)] ELSE words

LEMMA YosysWrittenIs ==
  ASSUME cell \in MemoryCells, M!Shape = {}, NEW in, IsInput(in), DOMAIN in = DOMAIN cell.writes,
         gold \in [0 .. cell.size - 1 -> SUBSET M!Bits]
  PROVE  LET c == M!YosysWritten(in) IN
         /\ c \in [0 .. cell.size - 1 -> SUBSET M!Bits]
         /\ \A w \in 0 .. cell.size - 1 : IsWord(PortsOf(in), Len(cell.writes), w, gold[w], c[w])
<1> DEFINE ports == PortsOf(in)
           bits == M!Bits
           size == cell.size
<1> DEFINE N == Len(in)
           R == [0 .. size - 1 -> SUBSET bits]
           base == gold
           ValueAt(f, i) == IF i = 0 THEN base ELSE MaskedWrite(in, i, f[i - 1])
           Body(f) == [i \in 0 .. N |-> ValueAt(f, i)]
           f == CHOOSE h : h = Body(h)
           Step == [p \in (1 .. N) \X R |-> MaskedWrite(in, p[1], p[2])]
<1>a. Len(cell.writes) \in Nat /\ DOMAIN cell.writes = 1 .. Len(cell.writes)
  BY PortsAre
<1>b. Len(in) = Len(cell.writes)
  BY <1>a
<1>1. N \in Nat /\ N = Len(cell.writes)
  BY <1>a, <1>b
<1>2. \A i \in 1 .. N :
        /\ Raw(i, in) \in Nat /\ ports[i].data = in[i].data
        /\ in[i].mask \in SUBSET bits /\ in[i].data \in SUBSET bits
        /\ IF Raw(i, in) < size THEN ports[i].address = Raw(i, in) /\ ports[i].mask = in[i].mask
                                ELSE ports[i].mask = {}
  BY <1>1, PortsAre
<1>3. size \in Nat
  BY SizeIs
<1>4. M!YosysWritten(in) = f[N]
  BY DEF M!YosysWritten, MaskedWrite, Raw
<1> HIDE DEF ports, N, bits, size
<1>5. ASSUME NEW i \in 1 .. N, NEW r \in R PROVE MaskedWrite(in, i, r) \in R
  <2>1. \A v \in 0 .. size - 1 : M!Merge(r[v], in[i].mask, in[i].data) \in SUBSET bits
    BY <1>2 DEF M!Merge
  <2>2. CASE Raw(i, in) < size
    <3>1. Raw(i, in) \in 0 .. size - 1
      BY <1>2, <1>3, <2>2
    <3>2. MaskedWrite(in, i, r) = [r EXCEPT ![Raw(i, in)] = M!Merge(r[Raw(i, in)], in[i].mask, in[i].data)]
      BY <2>2 DEF MaskedWrite, size
    <3> QED BY <2>1, <3>1, <3>2
  <2>3. CASE ~(Raw(i, in) < size)
    BY <2>3 DEF MaskedWrite, size
  <2> QED BY <2>2, <2>3
<1>6. gold \in R
  BY DEF size, bits
<1>7. Step \in [(1 .. N) \X R -> R] /\ base \in R
  <2>1. ASSUME NEW i \in 1 .. N, NEW r \in R PROVE MaskedWrite(in, i, r) \in R
    BY <1>5, <1>6
  <2>2. base \in R
    BY <1>5, <1>6
  <2> HIDE DEF R, base
  <2> QED BY <2>1, <2>2
<1>8. PICK g : Stepped(g, R, base, Step, N)
  <2> HIDE DEF R, Step, base
  <2> QED BY <1>1, <1>7, Iteration
<1>9. g \in [0 .. N -> R] /\ g[0] = base /\ \A i \in 1 .. N : g[i] = Step[<<i, g[i - 1]>>]
  <2> HIDE DEF R, Step, base
  <2> QED BY <1>8 DEF Stepped
<1>10. g = Body(g)
  <2>1. ASSUME NEW i \in 0 .. N PROVE g[i] = ValueAt(g, i)
    <3>1. CASE i = 0
      BY <1>9, <3>1
    <3>2. CASE i # 0
      <4>1. i \in 1 .. N /\ i - 1 \in 0 .. N
        BY <1>1, <3>2
      <4>2. g[i - 1] \in R
        <5> HIDE DEF R
        <5> QED BY <1>9, <4>1
      <4>3. Step[<<i, g[i - 1]>>] = MaskedWrite(in, i, g[i - 1])
        <5> HIDE DEF R
        <5> QED BY <4>1, <4>2
      <4> HIDE DEF R, Step
      <4> QED BY <1>9, <3>2, <4>1, <4>3
    <3> QED BY <3>1, <3>2
  <2> HIDE DEF ValueAt, R
  <2> QED BY <1>9, <2>1
<1>11. f = Body(f)
  <2> HIDE DEF Body
  <2> QED BY <1>10
<1> HIDE DEF f
<1>12. f[0] = base /\ \A i \in 1 .. N : f[i] = MaskedWrite(in, i, f[i - 1])
  <2>1. \A i \in 0 .. N : Body(f)[i] = ValueAt(f, i)
    <3> HIDE DEF ValueAt
    <3> QED OBVIOUS
  <2>2. \A i \in 0 .. N : f[i] = ValueAt(f, i)
    <3> HIDE DEF Body, ValueAt
    <3> QED BY <1>11, <2>1
  <2>3. 0 \in 0 .. N /\ \A i \in 1 .. N : i \in 0 .. N /\ i # 0
    BY <1>1
  <2> HIDE DEF R, Body, base
  <2> QED BY <2>2, <2>3
<1> DEFINE Fits(i) == f[i] \in R /\ \A w \in 0 .. size - 1 : IsWord(ports, i, w, gold[w], f[i][w])
           S == {i \in Nat : i <= N => Fits(i)}
<1>13. 0 \in S
  <2>1. f[0] = gold
    BY <1>12
  <2>2. \A w : IsWord(ports, 0, w, gold[w], gold[w])
    BY FirstWord
  <2> QED BY <1>6, <2>1, <2>2
<1>14. ASSUME NEW i \in Nat, i \in S PROVE i + 1 \in S
  <2>1. SUFFICES ASSUME i + 1 <= N PROVE Fits(i + 1)
    OBVIOUS
  <2>2. PICK q : q = i + 1
    OBVIOUS
  <2>3. q \in 1 .. N /\ q - 1 = i /\ i <= N
    BY <1>1, <2>1, <2>2
  <2> DEFINE x == f[i]
             raw == Raw(q, in)
             m == in[q].mask
             d == in[q].data
  <2>4. x \in R /\ \A w \in 0 .. size - 1 : IsWord(ports, i, w, gold[w], x[w])
    BY <1>14, <2>3
  <2>5. f[q] = MaskedWrite(in, q, x)
    BY <1>12, <2>3
  <2> HIDE DEF x, f
  <2>6. f[q] \in R
    BY <1>5, <2>3, <2>4, <2>5
  <2>7. raw \in Nat /\ ports[q].data = d /\ IF raw < size THEN ports[q].address = raw /\ ports[q].mask = m ELSE ports[q].mask = {}
    BY <1>2, <2>3
  <2>8. f[q] = IF raw < size THEN [x EXCEPT ![raw] = M!Merge(x[raw], m, d)] ELSE x
    BY <2>5 DEF MaskedWrite, size
  <2> HIDE DEF raw, m, d
  <2>9. ASSUME NEW w \in 0 .. size - 1 PROVE IsWord(ports, i + 1, w, gold[w], f[q][w])
    <3>1. IsWord(ports, i, w, gold[w], x[w])
      BY <2>4
    <3>2. CASE raw < size /\ w = raw
      <4>1. f[q][w] = M!Merge(x[w], m, d)
        BY <2>4, <2>8, <3>2
      <4>2. IsWord(ports, i + 1, w, gold[w], M!Merge(x[w], ports[i + 1].mask, ports[i + 1].data))
        BY <2>2, <2>7, <3>1, <3>2, NextWord
      <4> QED BY <2>2, <2>7, <3>2, <4>1, <4>2
    <3>3. CASE ~(raw < size /\ w = raw)
      <4>1. f[q][w] = x[w]
        BY <2>4, <2>8, <3>3
      <4>2. ports[i + 1].address # w \/ ports[i + 1].mask = {}
        BY <2>2, <2>7, <3>3
      <4>3. IsWord(ports, i + 1, w, gold[w], x[w])
        BY <3>1, <4>2, NextWord
      <4> QED BY <4>1, <4>3
    <3> QED BY <3>2, <3>3
  <2> QED BY <2>2, <2>6, <2>9
<1>15. Fits(N)
  <2>1. N \in S
    <3> HIDE DEF S
    <3> QED BY <1>1, <1>13, <1>14, SetInduction
  <2> QED BY <1>1, <2>1
<1> QED BY <1>1, <1>4, <1>15 DEF ports, bits, size


\* A read of a memory that nothing writes: one choice more of the chain.
Choose(a, i, word) == IF a = i THEN mem[i] ELSE word

LEMMA ReadIs ==
  ASSUME cell \in MemoryCells, M!Shape = {}, mem \in [M!Words -> SUBSET M!Bits], NEW raw \in M!Addresses
  PROVE  M!MemoryRead(raw) = IF raw < cell.size THEN mem[raw] ELSE M!Filled(M!Bits)
<1> DEFINE a == raw % M!Power[M!AddressWidth]
           size == cell.size
<1> DEFINE N == size - 1
           R == SUBSET M!Bits
           base == mem[0]
           ValueAt(f, i) == IF i = 0 THEN base ELSE Choose(a, i, f[i - 1])
           Body(f) == [i \in 0 .. N |-> ValueAt(f, i)]
           f == CHOOSE h : h = Body(h)
           Step == [p \in (1 .. N) \X R |-> Choose(a, p[1], p[2])]
<1>1. N \in Nat /\ size \in Nat /\ M!Words = 0 .. N /\ N < size
  BY SizeIs DEF M!Words
<1>2. raw \in Nat /\ M!Power[M!AddressWidth] = size /\ (raw >= size => M!Partial)
  <2>1. /\ M!AddressWidth \in Nat /\ M!Power[M!AddressWidth] = size
        /\ cell.abits \in Nat /\ M!Power[cell.abits] \in Nat
    BY SizeIs, PowerIs
  <2>2. raw \in 0 .. M!Power[cell.abits] - 1
    BY DEF M!Addresses
  <2>3. ~M!Partial => M!Power[cell.abits] = size
    BY <2>1 DEF M!Partial
  <2> HIDE DEF size
  <2> QED BY <1>1, <2>1, <2>2, <2>3
<1>3. CASE raw >= size
  <2>1. M!Partial /\ raw >= cell.size /\ ~(raw < cell.size)
    BY <1>1, <1>2, <1>3
  <2>2. M!MemoryRead(raw) = M!Filled(M!Bits)
    BY <2>1 DEF M!MemoryRead
  <2> QED BY <2>1, <2>2
<1>4. CASE raw < size
  <2>1. a = raw /\ raw \in 0 .. N
    <3> HIDE DEF size
    <3> QED BY <1>1, <1>2, <1>4
  <2>2. f[N] = mem[raw]
    <3>1. mem \in [0 .. N -> SUBSET M!Bits]
      BY <1>1
    <3> HIDE DEF a, N, size
    <3>2. ASSUME NEW i \in 1 .. N, NEW r \in R PROVE Choose(a, i, r) \in R
      <4>1. mem[i] \in SUBSET M!Bits
        BY <1>1, <3>1
      <4> QED BY <4>1 DEF Choose
    <3>3. base \in R
      BY <1>1, <3>1
    <3>4. Step \in [(1 .. N) \X R -> R] /\ base \in R
      <4>1. ASSUME NEW i \in 1 .. N, NEW r \in R PROVE Choose(a, i, r) \in R
        BY <3>2, <3>3
      <4>2. base \in R
        BY <3>2, <3>3
      <4> HIDE DEF R, base
      <4> QED BY <4>1, <4>2
    <3>5. PICK g : Stepped(g, R, base, Step, N)
      <4> HIDE DEF R, Step, base
      <4> QED BY <1>1, <3>4, Iteration
    <3>6. g \in [0 .. N -> R] /\ g[0] = base /\ \A i \in 1 .. N : g[i] = Step[<<i, g[i - 1]>>]
      <4> HIDE DEF R, Step, base
      <4> QED BY <3>5 DEF Stepped
    <3>7. g = Body(g)
      <4>1. ASSUME NEW i \in 0 .. N PROVE g[i] = ValueAt(g, i)
        <5>1. CASE i = 0
          BY <3>6, <5>1
        <5>2. CASE i # 0
          <6>1. i \in 1 .. N /\ i - 1 \in 0 .. N
            BY <1>1, <5>2
          <6>2. g[i - 1] \in R
            <7> HIDE DEF R
            <7> QED BY <3>6, <6>1
          <6>3. Step[<<i, g[i - 1]>>] = Choose(a, i, g[i - 1])
            <7> HIDE DEF R
            <7> QED BY <6>1, <6>2
          <6> HIDE DEF R, Step
          <6> QED BY <3>6, <5>2, <6>1, <6>3
        <5> QED BY <5>1, <5>2
      <4> HIDE DEF ValueAt, R
      <4> QED BY <3>6, <4>1
    <3>8. f = Body(f)
      <4> HIDE DEF Body
      <4> QED BY <3>7
    <3> HIDE DEF f
    <3>9. f[0] = base /\ \A i \in 1 .. N : f[i] = Choose(a, i, f[i - 1])
      <4>1. \A i \in 0 .. N : Body(f)[i] = ValueAt(f, i)
        <5> HIDE DEF ValueAt
        <5> QED OBVIOUS
      <4>2. \A i \in 0 .. N : f[i] = ValueAt(f, i)
        <5> HIDE DEF Body, ValueAt
        <5> QED BY <3>8, <4>1
      <4>3. 0 \in 0 .. N /\ \A i \in 1 .. N : i \in 0 .. N /\ i # 0
        BY <1>1
      <4> HIDE DEF R, Body, base
      <4> QED BY <4>2, <4>3
    <3> DEFINE S == {i \in Nat : raw <= i /\ i <= N => f[i] = mem[raw]}
    <3>10. 0 \in S
      BY <1>1, <2>1, <3>9
    <3>11. ASSUME NEW i \in Nat, i \in S PROVE i + 1 \in S
      <4> SUFFICES ASSUME raw <= i + 1, i + 1 <= N PROVE f[i + 1] = mem[raw]
        OBVIOUS
      <4>1. PICK q : q = i + 1
        OBVIOUS
      <4>2. q \in 1 .. N /\ q - 1 = i /\ i <= N
        BY <1>1, <4>1
      <4>3. f[q] = Choose(a, q, f[i])
        BY <3>9, <4>2
      <4>4. raw # q => raw <= i
        BY <2>1, <4>1
      <4>5. raw <= i => f[i] = mem[raw]
        BY <3>11, <4>2
      <4> HIDE DEF f
      <4> QED BY <2>1, <4>1, <4>3, <4>4, <4>5 DEF Choose
    <3>12. N \in S
      <4> HIDE DEF S
      <4> QED BY <1>1, <3>10, <3>11, SetInduction
    <3> QED BY <1>1, <2>1, <3>12
  <2>3. M!MemoryRead(raw) = IF cell.writes = <<>> THEN f[N] ELSE mem[raw]
    <3>1. ~(M!Partial /\ raw >= cell.size)
      BY <1>1, <1>2, <1>4
    <3>2. M!MemoryRead(raw) = IF cell.writes = <<>> THEN f[N] ELSE mem[a]
      BY <1>1, <3>1 DEF M!MemoryRead, Choose
    <3> QED BY <2>1, <3>2
  <2> HIDE DEF f
  <2> QED BY <1>4, <2>2, <2>3
<1> QED BY <1>1, <1>2, <1>3, <1>4

--------------------------------------------------------------------------------
(* The invariant of the memory part: Loom's memory is Yosys's, word by word,  *)
(* and a memory that is ready has a shape the importer takes.                *)
MemoryInv ==
  part = "memory" =>
    /\ cell \in MemoryCells /\ mem = gold
    /\ phase = "ready" => M!Shape = {} /\ mem \in [M!Words -> SUBSET M!Bits]

LEMMA StepOfMemory ==
  ASSUME part' = "memory", [ImportNext]_allVars
  PROVE  part = "memory" /\ (M!Next \/ UNCHANGED M!vars)
<1>1. CASE MemoryStep
  BY <1>1 DEF MemoryStep
<1>2. CASE UNCHANGED allVars
  BY <1>2 DEF allVars, ofMemory, ofEither, M!vars
<1> QED BY <1>1, <1>2 DEF ImportNext, CellStep, PackageStep, ModuleStep

LEMMA MemoryInit == ImportInit => MemoryInv
BY DEF ImportInit, MemoryInv, M!Init

\* The memory a ready cell starts with.
LEMMA PreparedIs ==
  ASSUME cell \in MemoryCells, M!Prepare, phase' = "ready"
  PROVE  M!Shape = {} /\ mem' \in [M!Words -> SUBSET M!Bits] /\ gold' = mem'
<1>1. M!Shape = {}
  BY DEF M!Prepare
<1>2. /\ mem' = [w \in M!Words |-> M!Initial(w).ones \cup M!Filled(M!Initial(w).unknown)]
      /\ gold' = mem'
  BY <1>1 DEF M!Prepare
<1>3. \A w \in 0 .. cell.size - 1 : cell.init[w].ones \cup cell.init[w].unknown \subseteq 0 .. cell.width - 1
  BY MemoriesAssumption
<1>4. \A w \in M!Words : M!Initial(w).ones \cup M!Filled(M!Initial(w).unknown) \in SUBSET M!Bits
  BY <1>3 DEF M!Initial, M!Filled, M!Words, M!Bits
<1> HIDE DEF MemoriesAssumption
<1> QED BY <1>1, <1>2, <1>4

\* A cycle: the grouped ports commit the words the masked writes leave.
LEMMA CycleAgrees ==
  ASSUME cell \in MemoryCells, M!Shape = {}, mem = gold, mem \in [M!Words -> SUBSET M!Bits], M!Cycle
  PROVE  mem' = gold' /\ mem' \in [M!Words -> SUBSET M!Bits]
<1> DEFINE bits == M!Bits
           size == cell.size
           W == 0 .. size - 1
<1>1. PICK in : /\ IsInput(in) /\ DOMAIN in = DOMAIN cell.writes
                /\ mem' = M!Committed(M!Writes(M!Grouped(PortsOf(in))))
                /\ gold' = M!YosysWritten(in)
  BY DEF M!Cycle, IsInput, PortsOf
<1> DEFINE ports == PortsOf(in)
           g == M!Grouped(ports)
           c == M!Committed(M!Writes(g))
           y == M!YosysWritten(in)
<1>2. IsPorts(ports, bits, size) /\ Len(ports) = Len(cell.writes)
  BY <1>1, PortsAre
<1>3. IsPorts(g, bits, size) /\ SamePorts(g, Len(g), ports, Len(ports))
  BY <1>2, GroupedIs
<1>4. mem \in [W -> SUBSET bits] /\ gold \in [W -> SUBSET bits]
  BY DEF M!Words
<1>5. c \in [W -> SUBSET bits] /\ \A w \in W : IsWord(g, Len(g), w, mem[w], c[w])
  <2> HIDE DEF g, bits
  <2> QED BY <1>3, <1>4, CommittedIs
<1>6. y \in [W -> SUBSET bits] /\ \A w \in W : IsWord(ports, Len(cell.writes), w, gold[w], y[w])
  <2> HIDE DEF ports, W
  <2> QED BY <1>1, <1>4, YosysWrittenIs DEF ports, W
<1> HIDE DEF ports, g, c, y, bits, W
<1>7. ASSUME NEW w \in W PROVE c[w] = y[w]
  <2>1. IsWord(ports, Len(ports), w, mem[w], c[w])
    BY <1>3, <1>5, SameWord
  <2>2. IsWord(ports, Len(ports), w, mem[w], y[w])
    BY <1>2, <1>6
  <2> QED BY <2>1, <2>2, OneWord
<1>8. c = y
  BY <1>5, <1>6, <1>7
<1>9. mem' = c /\ gold' = y
  BY <1>1 DEF c, y, g, ports
<1> QED BY <1>5, <1>8, <1>9 DEF W, bits, M!Words

LEMMA MemoryStepKeeps == MemoryInv /\ [ImportNext]_allVars => MemoryInv'
<1> SUFFICES ASSUME MemoryInv, [ImportNext]_allVars, part' = "memory"
             PROVE  /\ cell' \in MemoryCells /\ mem' = gold'
                    /\ phase' = "ready" => M!Shape' = {} /\ mem' \in [M!Words' -> SUBSET M!Bits']
  BY DEF MemoryInv
<1>1. part = "memory" /\ (M!Next \/ UNCHANGED M!vars)
  BY StepOfMemory
<1>2. /\ cell \in MemoryCells /\ mem = gold
      /\ phase = "ready" => M!Shape = {} /\ mem \in [M!Words -> SUBSET M!Bits]
  BY <1>1 DEF MemoryInv
<1>3. cell' = cell
  BY <1>1 DEF M!Next, M!Prepare, M!Cycle, M!vars
<1>4. M!Shape' = M!Shape /\ M!Words' = M!Words /\ M!Bits' = M!Bits
  BY <1>3 DEF M!Shape, M!Words, M!Bits
<1>5. CASE M!Prepare
  <2>1. gold' = mem'
    BY <1>5 DEF M!Prepare
  <2>2. phase' = "ready" => M!Shape = {} /\ mem' \in [M!Words -> SUBSET M!Bits]
    BY <1>2, <1>5, PreparedIs
  <2> QED BY <1>2, <1>3, <1>4, <2>1, <2>2
<1>6. CASE M!Cycle
  <2>1. phase = "ready"
    BY <1>6 DEF M!Cycle
  <2>2. mem' = gold' /\ mem' \in [M!Words -> SUBSET M!Bits]
    BY <1>2, <1>6, <2>1, CycleAgrees
  <2> QED BY <1>2, <1>3, <1>4, <2>1, <2>2
<1>7. CASE UNCHANGED M!vars
  BY <1>2, <1>3, <1>4, <1>7 DEF M!vars
<1> QED BY <1>1, <1>5, <1>6, <1>7 DEF M!Next

LEMMA ReadsAreRight == MemoryInv => MemoriesAgree
<1> SUFFICES ASSUME MemoryInv, part = "memory" PROVE M!MemoriesAgree /\ M!ReadsAgree
  BY DEF MemoriesAgree
<1>1. M!MemoriesAgree
  BY DEF MemoryInv, M!MemoriesAgree
<1>2. ASSUME phase = "ready", NEW raw \in M!Addresses
      PROVE  M!MemoryRead(raw) = IF raw < cell.size THEN gold[raw] ELSE M!Filled(M!Bits)
  <2>1. cell \in MemoryCells /\ mem = gold /\ M!Shape = {} /\ mem \in [M!Words -> SUBSET M!Bits]
    BY <1>2 DEF MemoryInv
  <2>2. M!MemoryRead(raw) = IF raw < cell.size THEN mem[raw] ELSE M!Filled(M!Bits)
    BY <2>1, ReadIs
  <2> QED BY <2>1, <2>2
<1> QED BY <1>1, <1>2 DEF M!ReadsAgree

\* Whole-word commits of the grouped ports leave what the ordered, masked
\* writes leave, and a read gives the word at its address or the policy's fill,
\* for memories of any size and any number of ports. Code: prepare_memories,
\* memory_read, memory_address.
THEOREM MemoriesDoAgree == ImportSpec => []MemoriesAgree
<1> QED BY MemoryInit, MemoryStepKeeps, ReadsAreRight, PTL DEF ImportSpec

--------------------------------------------------------------------------------
(* Vectors: a sequence of bits and its number, a bit of a number, and a       *)
(* number put together bit by bit.                                         *)

Words == [width : Nat, value : Nat]
Powers == Power \in [Nat -> Nat] /\ Power[0] = 1 /\ \A n \in Nat : Power[n + 1] = 2 * Power[n] /\ Power[n] > n
LEMMA PowersAre == Powers
BY PowerIs, PowersGrow DEF Powers, M!Power, Power

LEMMA VectorIs ==
  ASSUME NEW width \in Nat, NEW n \in Int
  PROVE  /\ BV(width, n) \in Words
         /\ BV(width, n).width = width /\ BV(width, n).value \in Nat /\ BV(width, n).value = n % Power[width]
         /\ n \in 0 .. Power[width] - 1 => BV(width, n) = [width |-> width, value |-> n]
<1> DEFINE p == Power[width]
           m == n % p
<1>1. p \in Nat /\ p > 0
  BY PowersAre DEF Powers
<1>2. BV(width, n) = [width |-> width, value |-> m]
  BY DEF BV
<1> HIDE DEF p
<1>3. m \in Nat /\ (n \in 0 .. p - 1 => m = n)
  BY <1>1
<1> HIDE DEF m
<1> QED BY <1>2, <1>3 DEF p, m, Words

\* The sums of the bits so far.
Adding(bits, i, r) == r + bits[i] * Power[i - 1]
Sums(u, bits, width) ==
  /\ u \in [0 .. width -> Nat] /\ u[0] = 0
  /\ \A i \in 1 .. width : u[i] = u[i - 1] + bits[i] * Power[i - 1]
  /\ \A i \in 0 .. width : u[i] < Power[i]

LEMMA FromBitsIs ==
  ASSUME NEW width \in Nat, NEW bits \in [1 .. width -> {0, 1}]
  PROVE  \E u : Sums(u, bits, width) /\ FromBits(width, bits) = [width |-> width, value |-> u[width]]
<1> DEFINE N == width
           R == Nat
           base == 0
           ValueAt(f, i) == IF i = 0 THEN base ELSE Adding(bits, i, f[i - 1])
           Body(f) == [i \in 0 .. N |-> ValueAt(f, i)]
           f == CHOOSE h : h = Body(h)
           Step == [p \in (1 .. N) \X R |-> Adding(bits, p[1], p[2])]
<1>1. N \in Nat
  OBVIOUS
<1>2. FromBits(width, bits) = BV(width, f[N])
  BY DEF FromBits, Adding
<1> HIDE DEF N
<1>3. ASSUME NEW i \in 1 .. N, NEW r \in Nat
      PROVE  Adding(bits, i, r) \in Nat /\ (r < Power[i - 1] => Adding(bits, i, r) < Power[i])
  <2> DEFINE p == Power[i - 1]
  <2>1. p \in Nat /\ Power[i] = 2 * p
    <3>1. PICK m : m = i - 1
      OBVIOUS
    <3>2. m \in Nat /\ m + 1 = i
      BY <1>1, <3>1
    <3> QED BY <3>1, <3>2, PowersAre DEF Powers
  <2>2. Adding(bits, i, r) = r + bits[i] * p /\ bits[i] \in {0, 1}
    BY DEF Adding, N
  <2> HIDE DEF p
  <2>3. CASE bits[i] = 0
    BY <2>1, <2>2, <2>3 DEF p
  <2>4. CASE bits[i] = 1
    BY <2>1, <2>2, <2>4 DEF p
  <2> QED BY <2>2, <2>3, <2>4
<1>4. Step \in [(1 .. N) \X R -> R] /\ base \in R
  <2>1. ASSUME NEW i \in 1 .. N, NEW r \in R PROVE Adding(bits, i, r) \in R
    BY <1>3
  <2>2. base \in R
    BY <1>3
  <2> HIDE DEF R, base
  <2> QED BY <2>1, <2>2
<1>5. PICK g : Stepped(g, R, base, Step, N)
  <2> HIDE DEF R, Step, base
  <2> QED BY <1>1, <1>4, Iteration
<1>6. g \in [0 .. N -> R] /\ g[0] = base /\ \A i \in 1 .. N : g[i] = Step[<<i, g[i - 1]>>]
  <2> HIDE DEF R, Step, base
  <2> QED BY <1>5 DEF Stepped
<1>7. g = Body(g)
  <2>1. ASSUME NEW i \in 0 .. N PROVE g[i] = ValueAt(g, i)
    <3>1. CASE i = 0
      BY <1>6, <3>1
    <3>2. CASE i # 0
      <4>1. i \in 1 .. N /\ i - 1 \in 0 .. N
        BY <1>1, <3>2
      <4>2. g[i - 1] \in R
        <5> HIDE DEF R
        <5> QED BY <1>6, <4>1
      <4>3. Step[<<i, g[i - 1]>>] = Adding(bits, i, g[i - 1])
        <5> HIDE DEF R
        <5> QED BY <4>1, <4>2
      <4> HIDE DEF R, Step
      <4> QED BY <1>6, <3>2, <4>1, <4>3
    <3> QED BY <3>1, <3>2
  <2> HIDE DEF ValueAt, R
  <2> QED BY <1>6, <2>1
<1>8. f = Body(f)
  <2> HIDE DEF Body
  <2> QED BY <1>7
<1> HIDE DEF f
<1>9. f[0] = base /\ \A i \in 1 .. N : f[i] = Adding(bits, i, f[i - 1])
  <2>1. \A i \in 0 .. N : Body(f)[i] = ValueAt(f, i)
    <3> HIDE DEF ValueAt
    <3> QED OBVIOUS
  <2>2. \A i \in 0 .. N : f[i] = ValueAt(f, i)
    <3> HIDE DEF Body, ValueAt
    <3> QED BY <1>8, <2>1
  <2>3. 0 \in 0 .. N /\ \A i \in 1 .. N : i \in 0 .. N /\ i # 0
    BY <1>1
  <2> HIDE DEF R, Body, base
  <2> QED BY <2>2, <2>3
<1> DEFINE S == {i \in Nat : i <= N => f[i] \in Nat /\ f[i] < Power[i]}
<1>10. 0 \in S
  BY <1>9, PowersAre DEF Powers
<1>11. ASSUME NEW i \in Nat, i \in S PROVE i + 1 \in S
  <2> SUFFICES ASSUME i + 1 <= N PROVE f[i + 1] \in Nat /\ f[i + 1] < Power[i + 1]
    OBVIOUS
  <2>1. PICK q : q = i + 1
    OBVIOUS
  <2>2. q \in 1 .. N /\ q - 1 = i /\ i <= N
    BY <1>1, <2>1
  <2>3. f[q] = Adding(bits, q, f[i]) /\ f[i] \in Nat /\ f[i] < Power[i]
    BY <1>9, <1>11, <2>2
  <2> HIDE DEF f
  <2>4. f[q] \in Nat /\ f[q] < Power[q]
    BY <1>3, <2>2, <2>3
  <2> QED BY <2>1, <2>4
<1>12. \A i \in 0 .. N : f[i] \in Nat /\ f[i] < Power[i]
  <2>1. Nat \subseteq S
    <3> HIDE DEF S
    <3> QED BY <1>10, <1>11, SetInduction
  <2> QED BY <1>1, <2>1
<1> DEFINE u == [i \in 0 .. N |-> f[i]]
<1>13. Sums(u, bits, width)
  <2>1. u \in [0 .. N -> Nat] /\ u[0] = 0
    BY <1>1, <1>9, <1>12
  <2>2. ASSUME NEW i \in 1 .. N PROVE u[i] = u[i - 1] + bits[i] * Power[i - 1]
    <3>1. i \in 0 .. N /\ i - 1 \in 0 .. N
      BY <1>1
    <3>2. u[i] = f[i] /\ u[i - 1] = f[i - 1] /\ f[i] = Adding(bits, i, f[i - 1])
      BY <1>9, <3>1
    <3> QED BY <3>2 DEF Adding
  <2>3. \A i \in 0 .. N : u[i] < Power[i]
    BY <1>12
  <2> HIDE DEF u
  <2> QED BY <2>1, <2>2, <2>3 DEF Sums, N
<1>14. FromBits(width, bits) = [width |-> width, value |-> u[width]]
  <2>1. N \in 0 .. N /\ u[N] = f[N]
    BY <1>1
  <2> HIDE DEF f, u
  <2>2. f[N] \in Nat /\ f[N] < Power[N] /\ Power[N] \in Nat
    BY <1>1, <1>12, <2>1, PowersAre DEF Powers
  <2>3. f[N] \in 0 .. Power[N] - 1 /\ f[N] \in Int
    BY <2>2
  <2>4. BV(N, f[N]) = [width |-> N, value |-> f[N]]
    BY <1>1, <2>3, VectorIs
  <2>5. BV(width, f[N]) = BV(N, f[N]) /\ u[width] = u[N]
    BY DEF N
  <2> QED BY <1>2, <2>1, <2>4, <2>5 DEF N
<1> HIDE DEF u
<1> QED BY <1>13, <1>14

\* A bit of a vector.
LEMMA SliceIs ==
  ASSUME NEW width \in Nat, NEW bits \in [1 .. width -> {0, 1}], NEW o \in 1 .. width
  PROVE  SliceExpr(FromBits(width, bits), o - 1, 1) = [width |-> 1, value |-> bits[o]]
<1>1. PICK u : Sums(u, bits, width) /\ FromBits(width, bits) = [width |-> width, value |-> u[width]]
  BY FromBitsIs
<1>2. /\ u \in [0 .. width -> Nat]
      /\ \A i \in 1 .. width : u[i] = u[i - 1] + bits[i] * Power[i - 1]
      /\ \A i \in 0 .. width : u[i] < Power[i]
  BY <1>1 DEF Sums
<1> DEFINE p == Power[o - 1]
           b == bits[o]
           v == u[o - 1]
<1>3. o - 1 \in Nat /\ o - 1 \in 0 .. width /\ p \in Nat /\ p > 0 /\ v \in Nat /\ v < p /\ b \in {0, 1}
  <2>1. PICK m : m = o - 1
    OBVIOUS
  <2>2. m \in Nat /\ m \in 0 .. width
    BY <2>1
  <2>3. Power[m] \in Nat /\ Power[m] > m
    BY <2>2, PowersAre DEF Powers
  <2>4. u[m] \in Nat /\ u[m] < Power[m]
    BY <1>2, <2>2
  <2>5. bits[o] \in {0, 1}
    OBVIOUS
  <2> QED BY <2>1, <2>2, <2>3, <2>4, <2>5
<1> HIDE DEF p, b, v
\* What is above the bit.
<1> DEFINE Splits(i) == \E q \in Nat : \E e \in Nat : u[i] = v + p * (b + 2 * q) /\ Power[i] = p * (2 * e)
           S == {j \in Nat : o + j <= width => Splits(o + j)}
<1>4. 0 \in S
  <2>1. u[o] = v + b * p
    BY <1>2 DEF v, p, b
  <2>2. Power[o] = 2 * p
    <3>1. PICK m : m = o - 1
      OBVIOUS
    <3>2. m \in Nat /\ m + 1 = o
      BY <3>1
    <3> QED BY <3>1, <3>2, PowersAre DEF Powers, p
  <2>3. u[o] = v + p * (b + 2 * 0) /\ Power[o] = p * (2 * 1)
    BY <1>3, <2>1, <2>2
  <2> QED BY <2>3
<1>5. ASSUME NEW j \in Nat, j \in S PROVE j + 1 \in S
  <2> SUFFICES ASSUME o + (j + 1) <= width PROVE Splits(o + (j + 1))
    OBVIOUS
  <2>1. PICK n : n = o + j
    OBVIOUS
  <2>2. PICK q : q = n + 1
    OBVIOUS
  <2>3. n \in Nat /\ q \in 1 .. width /\ q - 1 = n /\ o + j <= width /\ q = o + (j + 1)
    BY <2>1, <2>2
  <2>4. PICK a \in Nat, e \in Nat : u[n] = v + p * (b + 2 * a) /\ Power[n] = p * (2 * e)
    BY <1>5, <2>1, <2>3
  <2>5. u[q] = u[n] + bits[q] * Power[n] /\ bits[q] \in {0, 1}
    BY <1>2, <2>3
  <2>6. Power[q] = 2 * Power[n]
    BY <2>2, <2>3, PowersAre DEF Powers
  <2>7. Power[q] = p * (2 * (2 * e)) /\ 2 * e \in Nat
    <3>1. Power[q] = 2 * (p * (2 * e))
      BY <2>4, <2>6
    <3>2. 2 * (p * (2 * e)) = p * (2 * (2 * e))
      BY <1>3
    <3> QED BY <3>1, <3>2
  <2>8. \E c \in Nat : u[q] = v + p * (b + 2 * c)
    <3>1. CASE bits[q] = 0
      <4>1. u[q] = u[n]
        <5>1. Power[n] \in Nat
          BY <2>3, PowersAre DEF Powers
        <5>2. u[n] \in Nat
          BY <1>2, <2>3
        <5> QED BY <2>5, <3>1, <5>1, <5>2
      <4> QED BY <2>4, <4>1
    <3>2. CASE bits[q] = 1
      <4>1. u[q] = v + p * (b + 2 * a) + p * (2 * e)
        <5>1. Power[n] \in Nat
          BY <2>3, PowersAre DEF Powers
        <5> QED BY <2>4, <2>5, <3>2, <5>1
      <4>2. v + p * (b + 2 * a) + p * (2 * e) = v + p * (b + 2 * (a + e))
        BY <1>3
      <4> QED BY <4>1, <4>2
    <3> QED BY <2>5, <3>1, <3>2
  <2> QED BY <2>3, <2>7, <2>8
<1>6. PICK a \in Nat : u[width] = v + p * (b + 2 * a)
  <2>1. Nat \subseteq S
    <3> HIDE DEF S
    <3> QED BY <1>4, <1>5, SetInduction
  <2>2. width - o \in Nat /\ o + (width - o) = width
    OBVIOUS
  <2>3. PICK j \in Nat : o + j = width
    BY <2>2
  <2>4. j \in S
    BY <2>1
  <2>5. Splits(o + j)
    <3> HIDE DEF Splits
    <3> QED BY <2>3, <2>4
  <2>6. Splits(width)
    <3> HIDE DEF Splits
    <3> QED BY <2>3, <2>5
  <2> QED BY <2>6
<1>7. u[width] \div p = b + 2 * a
  <2>1. PICK c : c = b + 2 * a
    OBVIOUS
  <2>2. c \in Nat /\ u[width] = v + p * c
    BY <1>3, <1>6, <2>1
  <2>3. (v + p * c) \div p = c
    BY <1>3, <2>2
  <2> QED BY <2>1, <2>2, <2>3
<1>8. SliceExpr(FromBits(width, bits), o - 1, 1) = BV(1, b + 2 * a)
  BY <1>1, <1>7 DEF SliceExpr, p
<1>9. (b + 2 * a) % 2 = b /\ Power[1] = 2
  <2>1. PICK m \in Nat : m = 0
    OBVIOUS
  <2>2. Power[m + 1] = 2 * Power[m] /\ Power[0] = 1 /\ m + 1 = 1
    BY <2>1, PowersAre DEF Powers
  <2>3. Power[1] = 2
    BY <2>1, <2>2
  <2> QED BY <1>3, <2>3
<1> QED BY <1>8, <1>9 DEF BV, b

\* One bit.
LEMMA OneBit == ASSUME NEW f \in [1 .. 1 -> {0, 1}] PROVE FromBits(1, f) = [width |-> 1, value |-> f[1]]
<1>1. PICK u : Sums(u, f, 1) /\ FromBits(1, f) = [width |-> 1, value |-> u[1]]
  BY FromBitsIs
<1>2. u[0] = 0 /\ u[1] = u[1 - 1] + f[1] * Power[1 - 1] /\ Power[0] = 1
  BY <1>1, PowersAre DEF Sums, Powers
<1>3. f[1] \in {0, 1}
  OBVIOUS
<1>4. u[1] = f[1]
  BY <1>2, <1>3
<1> QED BY <1>1, <1>4

\* Vectors put together, the first one highest.
Joins(j, vs) ==
  /\ j \in [1 .. Len(vs) -> Words] /\ j[1] = vs[1]
  /\ \A i \in 2 .. Len(vs) : j[i] = Concat(j[i - 1], vs[i])
LEMMA ConcatIs == ASSUME NEW v \in Words, NEW w \in Words PROVE Concat(v, w) \in Words
<1>1. v.width + w.width \in Nat /\ Power[w.width] \in Nat /\ v.value \in Nat /\ w.value \in Nat
  BY PowersAre DEF Words, Powers
<1>2. v.value * Power[w.width] + w.value \in Int
  BY <1>1
<1> QED BY <1>1, <1>2, VectorIs DEF Concat

LEMMA JoinedUnfolds ==
  ASSUME NEW vs \in Seq(Words), Len(vs) >= 1
  PROVE  \E j : Joins(j, vs) /\ Joined(vs) = j[Len(vs)]
<1> DEFINE N == Len(vs)
           R == Words
           base == vs[1]
           ValueAt(f, i) == IF i = 1 THEN base ELSE Concat(f[i - 1], vs[i])
           Body(f) == [i \in 1 .. N |-> ValueAt(f, i)]
           f == CHOOSE h : h = Body(h)
           Step == [p \in (1 .. N) \X R |-> IF p[1] = 1 THEN base ELSE Concat(p[2], vs[p[1]])]
<1>1. N \in Nat /\ N >= 1 /\ vs \in [1 .. N -> R] /\ base \in R
  OBVIOUS
<1>2. Joined(vs) = f[N]
  BY DEF Joined
<1>3. Step \in [(1 .. N) \X R -> R]
  BY <1>1, ConcatIs
<1>4. PICK g : Stepped(g, R, base, Step, N)
  <2> HIDE DEF R, Step, base, N
  <2> QED BY <1>1, <1>3, Iteration
<1>5. g \in [0 .. N -> R] /\ \A i \in 1 .. N : g[i] = Step[<<i, g[i - 1]>>]
  <2> HIDE DEF R, Step, base, N
  <2> QED BY <1>4 DEF Stepped
<1>6. ASSUME NEW i \in 1 .. N PROVE i - 1 \in 0 .. N /\ g[i] = ValueAt(g, i)
  <2>1. i - 1 \in 0 .. N
    BY <1>1
  <2>2. g[i - 1] \in R
    <3> HIDE DEF R, N
    <3> QED BY <1>5, <2>1
  <2>3. Step[<<i, g[i - 1]>>] = IF i = 1 THEN base ELSE Concat(g[i - 1], vs[i])
    <3> HIDE DEF R, N, base
    <3> QED BY <2>2
  <2> HIDE DEF R, Step, N, base
  <2> QED BY <1>5, <2>1, <2>3
<1> DEFINE h == [i \in 1 .. N |-> g[i]]
<1>7. h = Body(h)
  <2>1. ASSUME NEW i \in 1 .. N PROVE h[i] = ValueAt(h, i)
    <3>1. CASE i = 1
      BY <1>6, <3>1
    <3>2. CASE i # 1
      <4>1. i - 1 \in 1 .. N
        BY <1>1, <3>2
      <4>2. h[i - 1] = g[i - 1] /\ h[i] = g[i]
        BY <4>1
      <4> HIDE DEF h, N, base
      <4> QED BY <1>6, <3>2, <4>2
    <3> QED BY <3>1, <3>2
  <2> HIDE DEF ValueAt
  <2> QED BY <2>1
<1>8. f = Body(f)
  <2> HIDE DEF Body
  <2> QED BY <1>7
<1> HIDE DEF f
<1>9. DOMAIN f = 1 .. N /\ \A i \in 1 .. N : f[i] = ValueAt(f, i)
  <2>1. \A i \in 1 .. N : Body(f)[i] = ValueAt(f, i)
    <3> HIDE DEF ValueAt
    <3> QED OBVIOUS
  <2>2. DOMAIN Body(f) = 1 .. N
    <3> HIDE DEF ValueAt
    <3> QED OBVIOUS
  <2> HIDE DEF Body, ValueAt
  <2> QED BY <1>8, <2>1, <2>2
<1> DEFINE S == {i \in Nat : i + 1 <= N => f[i + 1] \in R}
<1>10. 0 \in S
  <2>1. 1 \in 1 .. N
    BY <1>1
  <2> QED BY <1>1, <1>9, <2>1
<1>11. ASSUME NEW i \in Nat, i \in S PROVE i + 1 \in S
  <2> SUFFICES ASSUME (i + 1) + 1 <= N PROVE f[(i + 1) + 1] \in R
    OBVIOUS
  <2>1. PICK n : n = i + 1
    OBVIOUS
  <2>2. PICK q : q = n + 1
    OBVIOUS
  <2>3. q \in 1 .. N /\ q - 1 = n /\ q # 1 /\ i + 1 <= N
    BY <1>1, <2>1, <2>2
  <2>4. f[n] \in R /\ vs[q] \in R
    BY <1>1, <1>11, <2>1, <2>3
  <2>5. f[q] = Concat(f[n], vs[q])
    <3> HIDE DEF N, base
    <3> QED BY <1>9, <2>3
  <2> QED BY <2>1, <2>2, <2>4, <2>5, ConcatIs
<1>12. ASSUME NEW i \in 1 .. N PROVE f[i] \in R
  <2>1. Nat \subseteq S
    <3> HIDE DEF S
    <3> QED BY <1>10, <1>11, SetInduction
  <2>2. PICK n : n = i - 1
    OBVIOUS
  <2>3. n \in Nat /\ n + 1 = i /\ n + 1 <= N
    BY <1>1, <2>2
  <2> HIDE DEF R, N
  <2> QED BY <2>1, <2>3
<1>13. f \in [1 .. N -> R]
  <2>1. f = [i \in 1 .. N |-> f[i]]
    <3> DEFINE B == Body(f)
    <3>1. B = [i \in DOMAIN B |-> B[i]]
      OBVIOUS
    <3> HIDE DEF B
    <3>2. f = B
      BY <1>8 DEF B
    <3> QED BY <1>9, <3>1, <3>2
  <2> HIDE DEF R, N
  <2> QED BY <1>12, <2>1
<1>14. Joins(f, vs)
  <2>1. f[1] = vs[1]
    <3>1. 1 \in 1 .. N
      BY <1>1
    <3> QED BY <1>9, <3>1
  <2>2. ASSUME NEW i \in 2 .. N PROVE f[i] = Concat(f[i - 1], vs[i])
    <3>1. i \in 1 .. N /\ i # 1
      BY <1>1
    <3> HIDE DEF N
    <3> QED BY <1>9, <3>1
  <2> QED BY <1>13, <2>1, <2>2 DEF Joins
<1> QED BY <1>2, <1>14

LEMMA JoinedIs ==
  ASSUME NEW vs \in Seq(Words), Len(vs) >= 1
  PROVE  Joined(vs) \in Words
<1>1. PICK j : Joins(j, vs) /\ Joined(vs) = j[Len(vs)]
  BY JoinedUnfolds
<1>2. Len(vs) \in 1 .. Len(vs)
  OBVIOUS
<1> QED BY <1>1, <1>2 DEF Joins

\* The bits of a vector one by one, the last one highest.
LEMMA JoinedBits ==
  ASSUME NEW vs \in Seq(Words), NEW width \in Nat \ {0}, Len(vs) = width, NEW bits \in [1 .. width -> {0, 1}],
         \A i \in 1 .. width : vs[i] = [width |-> 1, value |-> bits[(width + 1) - i]]
  PROVE  Joined(vs) = FromBits(width, bits)
<1>1. PICK u : Sums(u, bits, width) /\ FromBits(width, bits) = [width |-> width, value |-> u[width]]
  BY FromBitsIs
<1>2. PICK j : Joins(j, vs) /\ Joined(vs) = j[width]
  BY JoinedUnfolds
<1>3. /\ u \in [0 .. width -> Nat] /\ u[0] = 0
      /\ \A i \in 1 .. width : u[i] = u[i - 1] + bits[i] * Power[i - 1]
  BY <1>1 DEF Sums
<1>4. j[1] = vs[1] /\ \A i \in 2 .. width : j[i] = Concat(j[i - 1], vs[i])
  BY <1>2 DEF Joins
<1>5. Power \in [Nat -> Nat] /\ Power[0] = 1 /\ (\A n \in Nat : Power[n + 1] = 2 * Power[n] /\ Power[n] > n) /\ Power[1] = 2
  <2>1. Power \in [Nat -> Nat] /\ Power[0] = 1 /\ \A n \in Nat : Power[n + 1] = 2 * Power[n] /\ Power[n] > n
    BY PowersAre DEF Powers
  <2>2. PICK m \in Nat : m = 0
    OBVIOUS
  <2>3. m + 1 = 1 /\ Power[m + 1] = 2 * Power[m] /\ Power[m] = 1
    BY <2>1, <2>2
  <2>4. Power[1] = 2
    BY <2>3
  <2> QED BY <2>1, <2>4
\* What the first n of them are, and the sum of those below.
<1> DEFINE Holds(n) == /\ j[n] = [width |-> n, value |-> j[n].value]
                       /\ j[n].value \in Nat /\ j[n].value < Power[n]
                       /\ u[width] = u[width - n] + Power[width - n] * j[n].value
           S == {i \in Nat : i + 1 <= width => Holds(i + 1)}
<1>6. 0 \in S
  <2>1. PICK q : q = width - 1
    OBVIOUS
  <2>2. q \in Nat /\ q \in 0 .. width /\ q + 1 = width /\ width \in 1 .. width /\ 1 \in 1 .. width /\ (width + 1) - 1 = width
    BY <2>1
  <2>3. j[1] = [width |-> 1, value |-> bits[width]]
    BY <1>4, <2>2
  <2>4. bits[width] \in {0, 1}
    BY <2>2
  <2>5. u[width] = u[q] + bits[width] * Power[q]
    BY <1>3, <2>1, <2>2
  <2>6. u[q] \in Nat /\ Power[q] \in Nat
    BY <1>3, <1>5, <2>2
  <2>7. u[width] = u[q] + Power[q] * bits[width]
    BY <2>4, <2>5, <2>6
  <2>8. Holds(1)
    <3>1. j[1].value = bits[width] /\ j[1] = [width |-> 1, value |-> j[1].value]
      BY <2>3
    <3>2. PICK w : w = j[1].value
      OBVIOUS
    <3>3. w \in {0, 1} /\ w = bits[width] /\ j[1] = [width |-> 1, value |-> w]
      BY <2>4, <3>1, <3>2
    <3>4. w \in Nat /\ w < Power[1] /\ u[width] = u[width - 1] + Power[width - 1] * w
      <4>1. w \in Nat /\ w < Power[1]
        <5>1. Power[1] = 2
          BY <1>5
        <5>2. w \in {0, 1}
          BY <3>3
        <5> QED BY <5>1, <5>2
      <4>2. u[width] = u[width - 1] + Power[width - 1] * w
        BY <2>1, <2>7, <3>3, Zenon
      <4> QED BY <4>1, <4>2
    <3> QED BY <3>2, <3>3, <3>4
  <2>9. 0 + 1 = 1
    OBVIOUS
  <2> HIDE DEF Holds
  <2> QED BY <2>8, <2>9
<1>7. ASSUME NEW i \in Nat, i \in S PROVE i + 1 \in S
  <2> SUFFICES ASSUME (i + 1) + 1 <= width PROVE Holds((i + 1) + 1)
    OBVIOUS
  <2>1. PICK n : n = i + 1
    OBVIOUS
  <2>2. PICK m : m = n + 1
    OBVIOUS
  <2>3. PICK q : q = width - m
    OBVIOUS
  <2>4. /\ n \in Nat /\ m \in 2 .. width /\ m \in 1 .. width /\ m - 1 = n /\ n <= width /\ m \in Nat
        /\ q \in Nat /\ q + 1 \in 1 .. width /\ q \in 0 .. width /\ width - n = q + 1 /\ (width + 1) - m = q + 1 /\ (q + 1) - 1 = q
    BY <2>1, <2>2, <2>3
  <2>5. Holds(n)
    <3> HIDE DEF Holds
    <3> QED BY <1>7, <2>1, <2>4
  <2> DEFINE w == j[n].value
             b == bits[q + 1]
             p == Power[q]
  <2>6. j[m] = Concat(j[n], vs[m]) /\ vs[m] = [width |-> 1, value |-> b]
    BY <1>4, <2>4
  <2>7. w \in Nat /\ w < Power[n] /\ j[n] = [width |-> n, value |-> w] /\ u[width] = u[q + 1] + Power[q + 1] * w
    BY <2>4, <2>5
  <2>8. b \in {0, 1} /\ p \in Nat /\ Power[q + 1] = 2 * p /\ Power[m] = 2 * Power[n] /\ Power[n] \in Nat
    BY <1>5, <2>2, <2>4
  <2>9. u[q + 1] = u[q] + b * p /\ u[q] \in Nat
    BY <1>3, <2>4
  <2> HIDE DEF w, b, p
  <2>10. (w * 2) + b \in 0 .. Power[m] - 1 /\ (w * 2) + b \in Nat
    BY <2>7, <2>8
  <2>11. j[m] = BV(n + 1, (w * Power[1]) + b)
    BY <2>6, <2>7 DEF Concat
  <2>12. j[m] = [width |-> m, value |-> (w * 2) + b]
    <3>1. j[m] = BV(m, (w * 2) + b)
      BY <1>5, <2>2, <2>11
    <3> QED BY <2>4, <2>10, <3>1, VectorIs
  <2>13. u[width] = u[q] + p * ((w * 2) + b)
    <3>1. CASE b = 0
      BY <2>7, <2>8, <2>9, <3>1
    <3>2. CASE b = 1
      BY <2>7, <2>8, <2>9, <3>2
    <3> QED BY <2>8, <3>1, <3>2
  <2>14. Holds(m)
    <3>1. PICK c : c = (w * 2) + b
      OBVIOUS
    <3>2. c \in Nat /\ c \in 0 .. Power[m] - 1 /\ j[m] = [width |-> m, value |-> c] /\ u[width] = u[q] + p * c
      BY <2>10, <2>12, <2>13, <3>1
    <3>3. j[m].value = c
      BY <3>2
    <3>4. Power[m] \in Nat
      BY <1>5, <2>4
    <3>5. c < Power[m]
      BY <3>2, <3>4
    <3> QED BY <2>3, <3>2, <3>3, <3>5 DEF p
  <2> HIDE DEF Holds
  <2> QED BY <2>1, <2>2, <2>14
<1>8. Holds(width)
  <2>1. Nat \subseteq S
    <3> HIDE DEF S
    <3> QED BY <1>6, <1>7, SetInduction
  <2>2. PICK n \in Nat : n + 1 = width
    <3>1. width - 1 \in Nat /\ (width - 1) + 1 = width
      OBVIOUS
    <3> QED BY <3>1
  <2>3. n \in S
    BY <2>1
  <2>4. Holds(n + 1)
    <3> HIDE DEF Holds
    <3> QED BY <2>2, <2>3
  <2> HIDE DEF Holds
  <2> QED BY <2>2, <2>4
<1>9. u[width] = j[width].value
  <2>1. PICK w : w = j[width].value
    OBVIOUS
  <2>2. w \in Nat /\ u[width] = u[width - width] + Power[width - width] * w
    BY <1>8, <2>1
  <2>3. width - width = 0
    OBVIOUS
  <2>4. u[width] = 0 + 1 * w
    BY <1>3, <1>5, <2>2, <2>3
  <2> QED BY <2>1, <2>2, <2>4
<1> QED BY <1>1, <1>2, <1>8, <1>9

\* The operators give vectors for vectors.
LEMMA WordIs == ASSUME NEW v \in Words PROVE v.width \in Nat /\ v.value \in Nat /\ v = [width |-> v.width, value |-> v.value]
BY DEF Words
LEMMA BoolIs == ASSUME NEW b PROVE Bool(b) \in Words
<1>1. (IF b THEN 1 ELSE 0) \in Int
  OBVIOUS
<1> QED BY <1>1, VectorIs DEF Bool
LEMMA MuxIs == ASSUME NEW c, NEW yes \in Words, NEW no \in Words PROVE Mux(c, yes, no) \in Words
BY DEF Mux
LEMMA ResizeIs ==
  ASSUME NEW v \in Words, NEW width \in Nat
  PROVE  Resize(v, width, FALSE) \in Words /\ Resize(v, width, FALSE).width = width
BY WordIs, VectorIs DEF Resize
LEMMA BitIs == ASSUME NEW v \in Words, NEW i \in Nat PROVE BitAt(v, i) \in {0, 1}
<1>1. Power[i] \in Nat /\ Power[i] > 0 /\ v.value \in Nat
  BY WordIs, PowersAre DEF Powers
<1>2. v.value \div Power[i] \in Int
  BY <1>1
<1> QED BY <1>2 DEF BitAt

LEMMA UnaryIs ==
  ASSUME NEW op \in {"bit_not", "negate", "reduce_and", "reduce_bool", "logical_not"}, NEW v \in Words
  PROVE  Unary(op, v) \in Words
<1>1. v.width \in Nat /\ -1 - v.value \in Int /\ -v.value \in Int
  BY WordIs
<1>2. BV(v.width, -1 - v.value) \in Words /\ BV(v.width, -v.value) \in Words
  BY <1>1, VectorIs
<1>3. Bool(v = Ones(v.width)) \in Words /\ Bool(v.value # 0) \in Words /\ Bool(v.value = 0) \in Words
  BY BoolIs
<1> QED BY <1>2, <1>3 DEF Unary

UnsignedOps == {"bit_and", "bit_or", "bit_xor", "add", "sub", "mul", "unsigned_div", "unsigned_rem",
                "shift_left", "logical_shift_right", "equal", "unsigned_less_than"}
LEMMA BinaryIs ==
  ASSUME NEW op \in UnsignedOps, NEW width \in Nat, NEW l \in Words, NEW r \in Words
  PROVE  Binary(op, width, l, r) \in Words
<1> DEFINE two(i) == BitAt(l, i - 1) + BitAt(r, i - 1)
           x == l.value
           y == r.value
<1>1. x \in Nat /\ y \in Nat
  BY WordIs
<1>2. \A n \in Nat : Power[n] \in Nat /\ Power[n] > 0
  BY PowersAre DEF Powers
<1>3. ASSUME NEW i \in 1 .. width PROVE two(i) \div 2 \in {0, 1} /\ (two(i) + 1) \div 2 \in {0, 1} /\ two(i) % 2 \in {0, 1}
  <2>1. i - 1 \in Nat
    OBVIOUS
  <2>2. BitAt(l, i - 1) \in {0, 1} /\ BitAt(r, i - 1) \in {0, 1}
    BY <2>1, BitIs
  <2>3. PICK t : t = two(i)
    OBVIOUS
  <2>4. t \in 0 .. 2
    BY <2>2, <2>3
  <2> HIDE DEF two
  <2>5. t \div 2 \in {0, 1} /\ (t + 1) \div 2 \in {0, 1} /\ t % 2 \in {0, 1}
    BY <2>4
  <2> QED BY <2>3, <2>5
<1>4. ASSUME NEW bits \in [1 .. width -> {0, 1}] PROVE FromBits(width, bits) \in Words
  <2>1. PICK u : Sums(u, bits, width) /\ FromBits(width, bits) = [width |-> width, value |-> u[width]]
    BY FromBitsIs
  <2>2. u[width] \in Nat
    BY <2>1 DEF Sums
  <2> QED BY <2>1, <2>2 DEF Words
<1>5. CASE op \in {"bit_and", "bit_or", "bit_xor"}
  <2>1. [i \in 1 .. width |-> two(i) \div 2] \in [1 .. width -> {0, 1}]
    BY <1>3
  <2>2. [i \in 1 .. width |-> (two(i) + 1) \div 2] \in [1 .. width -> {0, 1}]
    BY <1>3
  <2>3. [i \in 1 .. width |-> two(i) % 2] \in [1 .. width -> {0, 1}]
    BY <1>3
  <2>4. /\ FromBits(width, [i \in 1 .. width |-> two(i) \div 2]) \in Words
        /\ FromBits(width, [i \in 1 .. width |-> (two(i) + 1) \div 2]) \in Words
        /\ FromBits(width, [i \in 1 .. width |-> two(i) % 2]) \in Words
    <3> HIDE DEF two
    <3> QED BY <1>4, <2>1, <2>2, <2>3
  <2> QED BY <1>5, <2>4 DEF Binary
<1>6. CASE op \in {"add", "sub", "mul", "unsigned_div", "unsigned_rem"}
  <2>1. /\ x + y \in Int /\ x - y \in Int /\ x * y \in Int
        /\ (IF y = 0 THEN 0 ELSE x \div y) \in Int /\ (IF y = 0 THEN x ELSE x % y) \in Int
    <3> HIDE DEF x, y
    <3> QED BY <1>1
  <2>2. /\ BV(width, x + y) \in Words /\ BV(width, x - y) \in Words /\ BV(width, x * y) \in Words
        /\ BV(width, IF y = 0 THEN 0 ELSE x \div y) \in Words /\ BV(width, IF y = 0 THEN x ELSE x % y) \in Words
    <3> HIDE DEF x, y
    <3> QED BY <2>1, VectorIs
  <2> QED BY <1>6, <2>2 DEF Binary
<1>7. CASE op \in {"shift_left", "logical_shift_right"}
  <2>1. /\ (IF y >= width THEN 0 ELSE x * Power[y]) \in Int
        /\ (IF y >= width THEN 0 ELSE x \div Power[y]) \in Int
    <3> HIDE DEF x, y
    <3>1. PICK p : p = Power[y]
      OBVIOUS
    <3>2. p \in Nat /\ p > 0
      BY <1>1, <1>2, <3>1
    <3>3. x * p \in Int /\ x \div p \in Int
      BY <1>1, <3>2
    <3> QED BY <3>1, <3>3
  <2>2. /\ BV(width, IF y >= width THEN 0 ELSE x * Power[y]) \in Words
        /\ BV(width, IF y >= width THEN 0 ELSE x \div Power[y]) \in Words
    <3> HIDE DEF x, y
    <3> QED BY <2>1, VectorIs
  <2> QED BY <1>7, <2>2 DEF Binary
<1>8. CASE op \in {"equal", "unsigned_less_than"}
  <2>1. Bool(x = y) \in Words /\ Bool(x < y) \in Words
    BY BoolIs
  <2> QED BY <1>8, <2>1 DEF Binary
<1> QED BY <1>5, <1>6, <1>7, <1>8 DEF UnsignedOps

LEMMA LargerIs == ASSUME NEW m \in Nat, NEW n \in Nat PROVE Larger(m, n) \in Nat
BY DEF Larger

LEMMA ShiftsAre ==
  ASSUME NEW a \in Words, NEW b \in Words, NEW rest \in Words, NEW width \in Nat
  PROVE  /\ ArithmeticShiftRight(a, b, width, FALSE) \in Words
         /\ Shift(a, b, width, FALSE, FALSE) \in Words
         /\ ShiftX(a, b, width, rest) \in Words
<1>1. a.width \in Nat /\ b.width \in Nat
  BY WordIs
<1>2. ASSUME NEW work \in Nat, NEW v \in Words
      PROVE  Resize(Binary("logical_shift_right", work, Resize(v, work, FALSE), Resize(b, work, FALSE)), width, FALSE) \in Words
  <2>1. Resize(v, work, FALSE) \in Words /\ Resize(b, work, FALSE) \in Words
    BY ResizeIs
  <2>2. "logical_shift_right" \in UnsignedOps
    BY DEF UnsignedOps
  <2> QED BY <2>1, <2>2, BinaryIs, ResizeIs
<1>3. ArithmeticShiftRight(a, b, width, FALSE) \in Words
  <2> DEFINE base == Larger(a.width, width)
             work == Larger(base, b.width)
  <2>1. work \in Nat
    BY <1>1, LargerIs
  <2>2. ArithmeticShiftRight(a, b, width, FALSE) = ShiftThrough(work, base, a, b, width, FALSE)
    BY DEF ArithmeticShiftRight
  <2> HIDE DEF base, work
  <2>3. ShiftThrough(work, base, a, b, width, FALSE)
          = Resize(Binary("logical_shift_right", work, Resize(a, work, FALSE), Resize(b, work, FALSE)), width, FALSE)
    BY DEF ShiftThrough
  <2> QED BY <1>2, <2>1, <2>2, <2>3
<1>4. Shift(a, b, width, FALSE, FALSE) \in Words
  <2> DEFINE work == Larger(Larger(a.width, b.width), width)
  <2>1. work \in Nat
    BY <1>1, LargerIs
  <2>2. Shift(a, b, width, FALSE, FALSE)
          = Resize(Binary("logical_shift_right", work, Resize(a, work, FALSE), Resize(b, work, FALSE)), width, FALSE)
    BY DEF Shift
  <2> HIDE DEF work
  <2> QED BY <1>2, <2>1, <2>2
<1>5. ShiftX(a, b, width, rest) \in Words
  <2> DEFINE extended == Concat(rest, a)
             work == Larger(extended.width, b.width)
             far == Resize(b, work, FALSE)
             moved == Binary("logical_shift_right", work, Resize(extended, work, FALSE), far)
             low == Binary("unsigned_less_than", 1, far, BV(work, a.width))
  <2>1. extended \in Words /\ work \in Nat
    <3>1. extended \in Words
      BY ConcatIs
    <3> HIDE DEF extended
    <3> QED BY <1>1, <3>1, WordIs, LargerIs
  <2>2. Resize(moved, width, FALSE) \in Words
    <3> HIDE DEF extended, work
    <3> QED BY <1>2, <2>1
  <2>3. ShiftX(a, b, width, rest) = Mux(low, Resize(moved, width, FALSE), rest)
    BY DEF ShiftX
  <2> HIDE DEF moved, low
  <2> QED BY <2>2, <2>3, MuxIs
<1> QED BY <1>3, <1>4, <1>5

LEMMA CompareIs ==
  ASSUME NEW kind \in Compares, NEW a \in Words, NEW b \in Words
  PROVE  Compare(kind, a, b, FALSE, FALSE) \in Words
<1> DEFINE common == Larger(a.width, b.width)
           left == Resize(a, common, FALSE)
           right == Resize(b, common, FALSE)
           same == Binary("equal", 1, left, right)
           below == Binary("unsigned_less_than", 1, left, right)
           above == Binary("unsigned_less_than", 1, right, left)
           no(x) == Unary("logical_not", x)
<1>1. left \in Words /\ right \in Words
  <2>1. common \in Nat
    BY WordIs, LargerIs
  <2> HIDE DEF common
  <2> QED BY <2>1, ResizeIs
<1>2. same \in Words /\ below \in Words /\ above \in Words
  <2>1. {"equal", "unsigned_less_than"} \subseteq UnsignedOps
    BY DEF UnsignedOps
  <2> HIDE DEF left, right
  <2> QED BY <1>1, <2>1, BinaryIs
<1>3. no(same) \in Words /\ no(below) \in Words /\ no(above) \in Words
  <2> HIDE DEF same, below, above
  <2> QED BY <1>2, UnaryIs
<1>4. Compare(kind, a, b, FALSE, FALSE) \in {same, below, above, no(same), no(below), no(above)}
  <2>1. kind \in {"$eq", "$ne", "$lt", "$le", "$ge", "$gt"}
    BY DEF Compares
  <2> QED BY <2>1 DEF Compare
<1> HIDE DEF same, below, above, no
<1> QED BY <1>2, <1>3, <1>4

LEMMA CellValueIs ==
  ASSUME NEW kind \in SupportedComb, NEW a \in Words, NEW b \in Words, NEW s \in Words, NEW rest \in Words, NEW width \in Nat
  PROVE  CellValue(kind, a, b, s, width, FALSE, FALSE, rest) \in Words
<1> DEFINE v == CellValue(kind, a, b, s, width, FALSE, FALSE, rest)
           Un == {"$not", "$neg"}
           Re == {"$logic_not", "$reduce_and", "$reduce_or", "$reduce_bool"}
           Lo == {"$logic_and", "$logic_or"}
           Ar == {"$and", "$or", "$xor", "$add", "$sub", "$mul", "$div", "$mod", "$shl", "$shr"}
<1>1. DOMAIN UnaryOps = Un /\ DOMAIN ReduceOps = Re /\ DOMAIN LogicOps = Lo /\ DOMAIN ArithOps = Ar
  BY DEF UnaryOps, ReduceOps, LogicOps, ArithOps
<1>2. Resize(a, width, FALSE) \in Words /\ Resize(b, width, FALSE) \in Words
  BY ResizeIs
<1>a. /\ kind \in Un => kind \notin Re \cup Lo \cup Ar
      /\ kind \in Re => kind \notin Un \cup Lo \cup Ar
      /\ kind \in Lo => kind \notin Un \cup Re \cup Ar
      /\ kind \in Ar => kind \notin Un \cup Re \cup Lo
      /\ kind \in Un \cup Re \cup Lo \cup Ar => kind \notin Compares /\ kind \notin {"$mux", "$sshr", "$shift", "$shiftx"}
      /\ kind \in Compares => kind \notin Un \cup Re \cup Lo \cup Ar /\ kind \notin {"$mux", "$sshr", "$shift", "$shiftx"}
      /\ kind \in {"$mux", "$sshr", "$shift", "$shiftx"} => kind \notin Un \cup Re \cup Lo \cup Ar /\ kind \notin Compares
  BY DEF Compares
<1>3. CASE kind \in Un
  <2>1. v = Unary(UnaryOps[kind], Resize(a, width, FALSE))
    <3> HIDE DEF Un, Re, Lo, Ar
    <3> QED BY <1>1, <1>a, <1>3 DEF CellValue
  <2>2. UnaryOps[kind] \in {"bit_not", "negate"}
    BY <1>3 DEF UnaryOps
  <2> QED BY <1>2, <2>1, <2>2, UnaryIs
<1>4. CASE kind \in Re
  <2>1. v = Resize(Unary(ReduceOps[kind], a), width, FALSE)
    <3> HIDE DEF Un, Re, Lo, Ar
    <3> QED BY <1>1, <1>a, <1>4 DEF CellValue
  <2>2. ReduceOps[kind] \in {"logical_not", "reduce_and", "reduce_bool"}
    BY <1>4 DEF ReduceOps
  <2>3. Unary(ReduceOps[kind], a) \in Words
    BY <2>2, UnaryIs
  <2> QED BY <2>1, <2>3, ResizeIs
<1>5. CASE kind \in Lo
  <2> DEFINE l == Unary("reduce_bool", a)
             r == Unary("reduce_bool", b)
  <2>1. v = Resize(Binary(LogicOps[kind], 1, l, r), width, FALSE)
    <3> HIDE DEF Un, Re, Lo, Ar
    <3> QED BY <1>1, <1>a, <1>5 DEF CellValue
  <2>2. LogicOps[kind] \in UnsignedOps
    BY <1>5 DEF LogicOps, UnsignedOps
  <2>3. l \in Words /\ r \in Words
    BY UnaryIs
  <2> HIDE DEF l, r
  <2>4. Binary(LogicOps[kind], 1, l, r) \in Words
    BY <2>2, <2>3, BinaryIs
  <2> QED BY <2>1, <2>4, ResizeIs
<1>6. CASE kind \in Ar
  <2>1. v = Binary(ArithOps[kind], width, Resize(a, width, FALSE), Resize(b, width, FALSE))
    <3> HIDE DEF Un, Re, Lo, Ar
    <3> QED BY <1>1, <1>a, <1>6 DEF CellValue
  <2>2. ArithOps[kind] \in UnsignedOps
    BY <1>6 DEF ArithOps, UnsignedOps
  <2> QED BY <1>2, <2>1, <2>2, BinaryIs
<1>7. CASE kind \in Compares
  <2>1. v = Resize(Compare(kind, a, b, FALSE, FALSE), width, FALSE)
    <3> HIDE DEF Un, Re, Lo, Ar
    <3> QED BY <1>1, <1>a, <1>7 DEF CellValue
  <2> QED BY <1>7, <2>1, CompareIs, ResizeIs
<1>8. CASE kind \in {"$mux", "$sshr", "$shift", "$shiftx"}
  <2>1. v \in {Mux(s, Resize(b, width, FALSE), Resize(a, width, FALSE)), ArithmeticShiftRight(a, b, width, FALSE),
               Shift(a, b, width, FALSE, FALSE), ShiftX(a, b, width, rest)}
    <3> HIDE DEF Un, Re, Lo, Ar
    <3> QED BY <1>1, <1>a, <1>8 DEF CellValue
  <2>2. Mux(s, Resize(b, width, FALSE), Resize(a, width, FALSE)) \in Words
    BY <1>2, MuxIs
  <2>3. /\ ArithmeticShiftRight(a, b, width, FALSE) \in Words
        /\ Shift(a, b, width, FALSE, FALSE) \in Words /\ ShiftX(a, b, width, rest) \in Words
    BY ShiftsAre
  <2> HIDE DEF v
  <2>4. v \in Words
    BY <2>1, <2>2, <2>3
  <2> QED BY <2>4 DEF v
<1>9. kind \in Un \cup Re \cup Lo \cup Compares \cup Ar \cup {"$mux", "$sshr", "$shift", "$shiftx"}
  BY <1>1 DEF SupportedComb
<1> QED BY <1>3, <1>4, <1>5, <1>6, <1>7, <1>8, <1>9

--------------------------------------------------------------------------------
(* A module: what is known of its netlist, and of the cells of some kinds.    *)

Setting == netlist \in Netlists /\ policy \in Policies /\ env \in [Sources -> {0, 1}]

LEMMA MembersAre ==
  ASSUME NEW S, NEW s \in Seq(S)
  PROVE  /\ Members(s) \subseteq S /\ \A i \in DOMAIN s : s[i] \in Members(s)
         /\ Len(s) \in Nat /\ DOMAIN s = 1 .. Len(s)
BY DEF Members

CellFacts(c) ==
  /\ c.out \in Seq(Int) /\ c.A \in Seq(Int) /\ c.B \in Seq(Int) /\ c.S \in Seq(Int) /\ c.reset \in Seq(Int)
  /\ Members(c.out) \subseteq Nat /\ c.line \in Int
LEMMA CellsAre ==
  ASSUME Setting
  PROVE  /\ Len(Cells) \in Nat /\ DOMAIN Cells = 1 .. Len(Cells)
         /\ \A i \in DOMAIN Cells : CellFacts(Cells[i]) /\ Cells[i] \in Members(Cells)
<1>1. netlist \in Netlists
  BY DEF Setting
<1>2. /\ netlist.cells \in Seq(Members(netlist.cells))
      /\ \A c \in Members(netlist.cells) :
           {c.out, c.A, c.B, c.S, c.reset} \subseteq Seq(Int) /\ Members(c.out) \subseteq Nat /\ c.line \in Int
  BY <1>1, NetlistsAssumption
<1>3. Len(Cells) \in Nat /\ DOMAIN Cells = 1 .. Len(Cells) /\ \A i \in DOMAIN Cells : Cells[i] \in Members(Cells)
  BY <1>2, MembersAre DEF Cells
<1> QED BY <1>2, <1>3 DEF CellFacts, Cells

\* The loop of CellsOf collects the numbers of the cells, one after the other.
LEMMA CellsOfIs ==
  ASSUME Setting, NEW kinds
  PROVE  CellsOf(kinds) \in Seq(DOMAIN Cells) /\ Members(CellsOf(kinds)) = {i \in DOMAIN Cells : Cells[i].kind \in kinds}
<1> DEFINE N == Len(Cells)
           R == Seq(1 .. N)
           base == <<>>
           In(i) == Cells[i].kind \in kinds
           ValueAt(f, i) == IF i = 0 THEN base ELSE IF In(i) THEN Append(f[i - 1], i) ELSE f[i - 1]
           Body(f) == [i \in 0 .. N |-> ValueAt(f, i)]
           f == CHOOSE h : h = Body(h)
           Step == [p \in (1 .. N) \X R |-> IF In(p[1]) THEN Append(p[2], p[1]) ELSE p[2]]
<1>1. N \in Nat /\ DOMAIN Cells = 1 .. N
  BY CellsAre
<1>2. CellsOf(kinds) = f[N]
  BY DEF CellsOf
<1> HIDE DEF In, N
<1>3. Step \in [(1 .. N) \X R -> R] /\ base \in R
  <2>1. ASSUME NEW i \in 1 .. N, NEW r \in R PROVE Append(r, i) \in R
    OBVIOUS
  <2>2. base \in R
    OBVIOUS
  <2> HIDE DEF R
  <2> QED BY <2>1, <2>2
<1>4. PICK g : Stepped(g, R, base, Step, N)
  <2> HIDE DEF R, Step, base
  <2> QED BY <1>1, <1>3, Iteration
<1>5. g \in [0 .. N -> R] /\ g[0] = base /\ \A i \in 1 .. N : g[i] = Step[<<i, g[i - 1]>>]
  <2> HIDE DEF R, Step, base
  <2> QED BY <1>4 DEF Stepped
<1>6. ASSUME NEW i \in 0 .. N PROVE g[i] = ValueAt(g, i)
  <2>1. CASE i = 0
    BY <1>5, <2>1
  <2>2. CASE i # 0
    <3>1. i \in 1 .. N /\ i - 1 \in 0 .. N
      BY <1>1, <2>2
    <3>2. g[i - 1] \in R
      <4> HIDE DEF R
      <4> QED BY <1>5, <3>1
    <3>3. Step[<<i, g[i - 1]>>] = IF In(i) THEN Append(g[i - 1], i) ELSE g[i - 1]
      <4> HIDE DEF R
      <4> QED BY <3>1, <3>2
    <3> HIDE DEF R, Step
    <3> QED BY <1>5, <2>2, <3>1, <3>3
  <2> QED BY <2>1, <2>2
<1>7. g = Body(g)
  <2> HIDE DEF ValueAt, R
  <2> QED BY <1>5, <1>6
<1>8. f = Body(f)
  <2> HIDE DEF Body
  <2> QED BY <1>7
<1> HIDE DEF f
<1>9. f[0] = base /\ \A i \in 1 .. N : f[i] = IF In(i) THEN Append(f[i - 1], i) ELSE f[i - 1]
  <2>1. \A i \in 0 .. N : f[i] = ValueAt(f, i)
    <3>1. \A i \in 0 .. N : Body(f)[i] = ValueAt(f, i)
      <4> HIDE DEF ValueAt
      <4> QED OBVIOUS
    <3> HIDE DEF Body, ValueAt
    <3> QED BY <1>8, <3>1
  <2>2. 0 \in 0 .. N /\ \A i \in 1 .. N : i \in 0 .. N /\ i # 0
    BY <1>1
  <2> HIDE DEF R, Body, base
  <2> QED BY <2>1, <2>2
<1> DEFINE Holds(i) == f[i] \in R /\ Members(f[i]) = {n \in 1 .. i : In(n)}
           S == {i \in Nat : i <= N => Holds(i)}
<1>10. 0 \in S
  <2>1. Members(<<>>) = {} /\ {n \in 1 .. 0 : In(n)} = {}
    BY DEF Members
  <2>2. f[0] = <<>> /\ <<>> \in R
    BY <1>9
  <2> HIDE DEF R
  <2> QED BY <2>1, <2>2
<1>11. ASSUME NEW i \in Nat, i \in S PROVE i + 1 \in S
  <2> SUFFICES ASSUME i + 1 <= N PROVE Holds(i + 1)
    OBVIOUS
  <2>1. PICK q : q = i + 1
    OBVIOUS
  <2>2. q \in 1 .. N /\ q - 1 = i /\ i <= N /\ 1 .. q = (1 .. i) \cup {q}
    BY <1>1, <2>1
  <2>3. f[i] \in R /\ Members(f[i]) = {n \in 1 .. i : In(n)}
    BY <1>11, <2>2
  <2>4. f[q] = IF In(q) THEN Append(f[i], q) ELSE f[i]
    BY <1>9, <2>2
  <2>5. CASE ~In(q)
    <3>1. {n \in 1 .. q : In(n)} = {n \in 1 .. i : In(n)}
      BY <2>2, <2>5
    <3> HIDE DEF In
    <3> QED BY <2>1, <2>3, <2>4, <2>5, <3>1
  <2>6. CASE In(q)
    <3>1. {n \in 1 .. q : In(n)} = {n \in 1 .. i : In(n)} \cup {q}
      BY <2>2, <2>6
    <3>2. PICK s : s = f[i]
      OBVIOUS
    <3>3. s \in Seq(1 .. N) /\ f[q] = Append(s, q)
      BY <2>3, <2>4, <2>6, <3>2
    <3>4. Append(s, q) \in Seq(1 .. N)
      BY <2>2, <3>3
    <3>5. Members(Append(s, q)) = Members(s) \cup {q}
      BY <3>3 DEF Members
    <3> HIDE DEF In
    <3> QED BY <2>1, <2>3, <3>1, <3>2, <3>3, <3>4, <3>5
  <2> QED BY <2>5, <2>6
<1>12. Holds(N)
  <2>1. Nat \subseteq S
    <3> HIDE DEF S
    <3> QED BY <1>10, <1>11, SetInduction
  <2> HIDE DEF Holds
  <2> QED BY <1>1, <2>1
<1> QED BY <1>1, <1>2, <1>12 DEF In

FlopsAre == Flops \in Seq(DOMAIN Cells) /\ Members(Flops) = {i \in DOMAIN Cells : Cells[i].kind \in Sequential}
ChildrenAre == Children \in Seq(DOMAIN Cells) /\ Members(Children) = {i \in DOMAIN Cells : Cells[i].kind = "child"}
LEMMA FlopsAndChildren == Setting => FlopsAre /\ ChildrenAre
<1> SUFFICES ASSUME Setting PROVE FlopsAre /\ ChildrenAre
  OBVIOUS
<1>1. FlopsAre
  BY CellsOfIs DEF FlopsAre, Flops
<1>2. CellsOf({"child"}) \in Seq(DOMAIN Cells) /\ Members(CellsOf({"child"})) = {i \in DOMAIN Cells : Cells[i].kind \in {"child"}}
  BY CellsOfIs
<1>3. {i \in DOMAIN Cells : Cells[i].kind \in {"child"}} = {i \in DOMAIN Cells : Cells[i].kind = "child"}
  OBVIOUS
<1> QED BY <1>1, <1>2, <1>3 DEF ChildrenAre, Children

\* What a register or a child drives, and an input, is a source.
LEMMA SourcesAre ==
  ASSUME Setting
  PROVE  /\ \A i \in DOMAIN Cells : Cells[i].kind \in Sequential \cup {"child"} => Members(Cells[i].out) \subseteq Sources
         /\ \A v \in InputVectors \cup RegisterVectors : Members(v) \subseteq Sources
         /\ \A v \in InputVectors \cup RegisterVectors : v \in Seq(Nat)
<1>1. FlopsAre /\ ChildrenAre
  BY FlopsAndChildren
<1>2. \A i \in DOMAIN Cells : Cells[i].kind \in Sequential \cup {"child"} => Members(Cells[i].out) \subseteq Sources
  <2>1. ASSUME NEW i \in DOMAIN Cells, Cells[i].kind \in Sequential \cup {"child"}
        PROVE  i \in Members(Flops) \cup Members(Children)
    BY <1>1, <2>1 DEF FlopsAre, ChildrenAre
  <2> SUFFICES ASSUME NEW i \in DOMAIN Cells, Cells[i].kind \in Sequential \cup {"child"}
               PROVE  Members(Cells[i].out) \subseteq Sources
    OBVIOUS
  <2> QED BY <2>1 DEF Sources
<1>3. \A v \in InputVectors : Members(v) \subseteq Sources
  BY DEF InputVectors, Sources
<1>4. \A v \in RegisterVectors : Members(v) \subseteq Sources
  BY <1>1, <1>2 DEF RegisterVectors, FlopsAre
<1>5. \A v \in InputVectors : v \in Seq(Nat)
  BY NetlistsAssumption DEF Setting, InputVectors
<1>6. ASSUME NEW v \in RegisterVectors PROVE v \in Seq(Nat)
  <2>1. PICK i \in DOMAIN Cells : v = Cells[i].out
    BY <1>1 DEF RegisterVectors, FlopsAre
  <2>2. v \in Seq(Int) /\ Members(v) \subseteq Nat
    BY <2>1, CellsAre DEF CellFacts
  <2> QED BY <2>2 DEF Members
<1> QED BY <1>2, <1>3, <1>4, <1>5, <1>6

\* The first and the last of some cells, and the place of a bit in a vector.
LEMMA EndsOf ==
  ASSUME Setting, NEW set \in SUBSET DOMAIN Cells, set # {}
  PROVE  First(set) \in set /\ Last(set) \in set
<1>1. Len(Cells) \in Nat /\ DOMAIN Cells = 1 .. Len(Cells)
  BY CellsAre
<1>2. PICK n \in Nat : set \subseteq 1 .. n
  BY <1>1
<1>3. First(set) \in set
  <2>1. PICK i \in set : \A j \in set : j >= i
    <3>1. set \subseteq Nat
      BY <1>2
    <3>2. PICK i \in set : \A j \in set : i <= j
      BY <3>1, LeastNatural
    <3> QED BY <3>1, <3>2
  <2> QED BY <2>1 DEF First
<1>4. Last(set) \in set
  <2> DEFINE T == {n - i : i \in set}
  <2>1. T \subseteq Nat /\ T # {}
    BY <1>2
  <2>2. PICK m \in T : \A j \in T : m <= j
    <3> HIDE DEF T
    <3> QED BY <2>1, LeastNatural
  <2>3. PICK i \in set : m = n - i
    OBVIOUS
  <2>4. \A j \in set : j <= i
    <3> SUFFICES ASSUME NEW j \in set PROVE j <= i
      OBVIOUS
    <3>1. n - i <= n - j
      BY <2>2, <2>3
    <3> QED BY <1>2, <3>1
  <2> QED BY <2>3, <2>4 DEF Last
<1> QED BY <1>3, <1>4

LEMMA OffsetIs ==
  ASSUME NEW bits \in Seq(Int), NEW b \in Members(bits)
  PROVE  \E o \in 1 .. Len(bits) : OffsetIn(b, bits) = o - 1 /\ bits[o] = b
<1> DEFINE Is(o) == bits[o] = b /\ \A p \in DOMAIN bits : bits[p] = b => p <= o
           T == {Len(bits) - o : o \in {p \in DOMAIN bits : bits[p] = b}}
<1>1. DOMAIN bits = 1 .. Len(bits) /\ Len(bits) \in Nat
  OBVIOUS
<1>2. T \subseteq Nat /\ T # {}
  BY <1>1 DEF Members
<1>3. PICK m \in T : \A j \in T : m <= j
  <2> HIDE DEF T
  <2> QED BY <1>2, LeastNatural
<1>4. PICK o \in DOMAIN bits : bits[o] = b /\ m = Len(bits) - o
  OBVIOUS
<1>5. Is(o)
  <2> SUFFICES ASSUME NEW p \in DOMAIN bits, bits[p] = b PROVE p <= o
    BY <1>4
  <2>1. Len(bits) - o <= Len(bits) - p
    BY <1>3, <1>4
  <2> QED BY <1>1, <2>1
<1> DEFINE c == CHOOSE q \in DOMAIN bits : Is(q)
<1>6. c \in DOMAIN bits /\ Is(c)
  <2> HIDE DEF Is
  <2> QED BY <1>5
<1>7. OffsetIn(b, bits) = c - 1
  BY DEF OffsetIn
<1> HIDE DEF c
<1> QED BY <1>1, <1>6, <1>7

LEMMA DrivingIs == ASSUME NEW b PROVE \A i \in DOMAIN Cells : i \in Driving(b) <=> b \in Members(Cells[i].out)
BY DEF Driving

\* The cell of a vector drives it whole, or its only bit.
LEMMA CellOfIs ==
  ASSUME Setting, NEW bits
  PROVE  /\ CellOf(bits) # 0 => /\ CellOf(bits) \in DOMAIN Cells
                                /\ \/ Cells[CellOf(bits)].out = bits
                                   \/ Len(bits) = 1 /\ bits[1] \in Members(Cells[CellOf(bits)].out)
         /\ CellOf(bits) = 0 /\ Len(bits) = 1 => Driving(bits[1]) = {}
<1> DEFINE exact == {i \in DOMAIN Cells : Cells[i].out = bits}
           some == Driving(bits[1])
<1>1. exact \in SUBSET DOMAIN Cells /\ some \in SUBSET DOMAIN Cells
  BY DEF Driving
<1>2. 0 \notin DOMAIN Cells
  BY CellsAre
<1>3. CASE exact # {}
  <2>1. CellOf(bits) = First(exact)
    BY <1>3 DEF CellOf
  <2>2. First(exact) \in exact
    <3> HIDE DEF exact
    <3> QED BY <1>1, <1>3, EndsOf
  <2> QED BY <1>2, <2>1, <2>2
<1>4. CASE exact = {} /\ Len(bits) = 1 /\ some # {}
  <2>1. CellOf(bits) = Last(some)
    BY <1>4 DEF CellOf
  <2>2. Last(some) \in some
    <3> HIDE DEF some
    <3> QED BY <1>1, <1>4, EndsOf
  <2>3. Last(some) \in DOMAIN Cells /\ bits[1] \in Members(Cells[Last(some)].out)
    BY <2>2 DEF Driving
  <2> QED BY <1>2, <1>4, <2>1, <2>3
<1>5. CASE exact = {} /\ ~(Len(bits) = 1 /\ some # {})
  <2>1. CellOf(bits) = 0
    BY <1>5 DEF CellOf
  <2> QED BY <1>5, <2>1
<1> QED BY <1>3, <1>4, <1>5

--------------------------------------------------------------------------------
(* Loops: the cells whose value follows from the sources are closed under      *)
(* what they feed.                                                         *)

LEMMA FeedingIs ==
  /\ \A bits : Feeding(bits) \subseteq DOMAIN Cells
  /\ \A i : FeedingCell(i) \subseteq DOMAIN Cells
<1>1. \A b : Driving(b) \subseteq DOMAIN Cells
  BY DEF Driving
<1>2. \A bits : Feeding(bits) \subseteq DOMAIN Cells
  BY <1>1 DEF Feeding
<1> QED BY <1>2 DEF FeedingCell

Grown(set) == set \cup {i \in Combinational : FeedingCell(i) \subseteq set}
LEMMA SettledUnfolds ==
  ASSUME Setting
  PROVE  \E s : /\ s \in [0 .. Len(Cells) -> SUBSET DOMAIN Cells] /\ s[0] = DOMAIN Cells \ Combinational
                /\ \A i \in 1 .. Len(Cells) : s[i] = Grown(s[i - 1])
                /\ Settled = s[Len(Cells)]
<1> DEFINE N == Len(Cells)
           R == SUBSET DOMAIN Cells
           base == DOMAIN Cells \ Combinational
           ValueAt(f, i) == IF i = 0 THEN base ELSE Grown(f[i - 1])
           Body(f) == [i \in 0 .. N |-> ValueAt(f, i)]
           f == CHOOSE h : h = Body(h)
           Step == [p \in (1 .. N) \X R |-> Grown(p[2])]
<1>1. N \in Nat
  BY CellsAre
<1>2. Settled = f[N]
  BY DEF Settled, Grown
<1> HIDE DEF N
<1>3. Step \in [(1 .. N) \X R -> R] /\ base \in R
  <2>1. ASSUME NEW r \in R PROVE Grown(r) \in R
    BY DEF Grown, Combinational
  <2>2. base \in R
    OBVIOUS
  <2> HIDE DEF R, base
  <2> QED BY <2>1, <2>2
<1> HIDE DEF R, base
<1>4. PICK g : Stepped(g, R, base, Step, N)
  <2> HIDE DEF Step
  <2> QED BY <1>1, <1>3, Iteration
<1>5. g \in [0 .. N -> R] /\ g[0] = base /\ \A i \in 1 .. N : g[i] = Step[<<i, g[i - 1]>>]
  <2> HIDE DEF Step
  <2> QED BY <1>4 DEF Stepped
<1>6. ASSUME NEW i \in 1 .. N PROVE g[i] = Grown(g[i - 1])
  <2>1. i - 1 \in 0 .. N
    BY <1>1
  <2>2. g[i - 1] \in R
    BY <1>5, <2>1
  <2>3. Step[<<i, g[i - 1]>>] = Grown(g[i - 1])
    BY <2>2
  <2> HIDE DEF Step
  <2> QED BY <1>5, <2>3
<1>7. g = Body(g)
  <2>1. ASSUME NEW i \in 0 .. N PROVE g[i] = ValueAt(g, i)
    BY <1>1, <1>5, <1>6
  <2> HIDE DEF ValueAt
  <2> QED BY <1>5, <2>1
<1>8. f = Body(f)
  <2> HIDE DEF Body
  <2> QED BY <1>7
<1> HIDE DEF f
<1>9. DOMAIN f = 0 .. N /\ f[0] = base /\ \A i \in 1 .. N : f[i] = Grown(f[i - 1])
  <2>1. DOMAIN Body(f) = 0 .. N /\ \A i \in 0 .. N : Body(f)[i] = ValueAt(f, i)
    <3> HIDE DEF ValueAt
    <3> QED OBVIOUS
  <2>2. DOMAIN f = 0 .. N /\ \A i \in 0 .. N : f[i] = ValueAt(f, i)
    <3> HIDE DEF Body, ValueAt
    <3> QED BY <1>8, <2>1
  <2>3. 0 \in 0 .. N /\ \A i \in 1 .. N : i \in 0 .. N /\ i # 0
    BY <1>1
  <2> HIDE DEF Body
  <2> QED BY <2>2, <2>3
<1> DEFINE S == {i \in Nat : i <= N => f[i] \in R}
<1>10. 0 \in S
  BY <1>3, <1>9
<1>11. ASSUME NEW i \in Nat, i \in S PROVE i + 1 \in S
  <2> SUFFICES ASSUME i + 1 <= N PROVE f[i + 1] \in R
    OBVIOUS
  <2>1. PICK q : q = i + 1
    OBVIOUS
  <2>2. q \in 1 .. N /\ q - 1 = i /\ i <= N
    BY <1>1, <2>1
  <2>3. f[q] = Grown(f[i]) /\ f[i] \in R
    BY <1>9, <1>11, <2>2
  <2>4. f[q] \in R
    BY <2>3 DEF Grown, Combinational, R
  <2> QED BY <2>1, <2>4
<1>12. f \in [0 .. N -> R]
  <2>1. Nat \subseteq S
    <3> HIDE DEF S
    <3> QED BY <1>10, <1>11, SetInduction
  <2>2. \A i \in 0 .. N : f[i] \in R
    BY <1>1, <2>1
  <2>3. f = [i \in 0 .. N |-> f[i]]
    <3> DEFINE B == Body(f)
    <3>1. B = [i \in DOMAIN B |-> B[i]]
      OBVIOUS
    <3> HIDE DEF B
    <3>2. f = B
      BY <1>8 DEF B
    <3> QED BY <1>9, <3>1, <3>2
  <2> QED BY <2>2, <2>3
<1>13. /\ f \in [0 .. Len(Cells) -> SUBSET DOMAIN Cells] /\ f[0] = DOMAIN Cells \ Combinational
       /\ \A i \in 1 .. Len(Cells) : f[i] = Grown(f[i - 1])
       /\ Settled = f[Len(Cells)]
  BY <1>2, <1>9, <1>12 DEF N, R, base
<1> QED BY <1>13

ClosedUnder ==
  /\ Settled \subseteq DOMAIN Cells /\ DOMAIN Cells \ Combinational \subseteq Settled
  /\ \A i \in Combinational : i \in Settled <=> FeedingCell(i) \subseteq Settled
LEMMA SettledIs == ASSUME Setting PROVE ClosedUnder
<1> DEFINE N == Len(Cells)
           All == DOMAIN Cells
<1>1. N \in Nat /\ All = 1 .. N
  BY CellsAre
<1>2. PICK s : /\ s \in [0 .. N -> SUBSET All] /\ s[0] = All \ Combinational
               /\ \A i \in 1 .. N : s[i] = Grown(s[i - 1])
               /\ Settled = s[N]
  BY SettledUnfolds
<1> HIDE DEF N, All
<1>3. IsFiniteSet(All) /\ Cardinality(All) = N
  BY <1>1, FS_Interval
<1>4. Combinational \subseteq All
  BY DEF Combinational, All
<1> DEFINE Still(i) == Grown(s[i]) = s[i]
           Backed(i) == \A n \in s[i] \cap Combinational : FeedingCell(n) \subseteq s[i]
           Holds(i) == /\ s[0] \subseteq s[i] /\ Backed(i)
                       /\ Still(i) \/ Cardinality(s[i]) >= i
           S == {i \in Nat : i <= N => Holds(i)}
<1>5. 0 \in S
  <2>1. s[0] \in SUBSET All
    BY <1>1, <1>2
  <2>2. IsFiniteSet(s[0])
    BY <1>3, <2>1, FS_Subset
  <2>3. Cardinality(s[0]) >= 0
    BY <2>2, FS_CardinalityType
  <2>4. s[0] \cap Combinational = {}
    BY <1>2
  <2> QED BY <2>3, <2>4
<1>6. ASSUME NEW i \in Nat, i \in S PROVE i + 1 \in S
  <2> SUFFICES ASSUME i + 1 <= N PROVE Holds(i + 1)
    OBVIOUS
  <2>1. PICK q : q = i + 1
    OBVIOUS
  <2>2. q \in 1 .. N /\ q \in 0 .. N /\ q - 1 = i /\ i <= N /\ i \in 0 .. N
    BY <1>1, <2>1
  <2>3. s[q] = Grown(s[i]) /\ Holds(i)
    BY <1>2, <1>6, <2>2
  <2>4. s[i] \subseteq s[q] /\ s[i] \subseteq All /\ s[q] \subseteq All
    BY <1>2, <2>2, <2>3 DEF Grown
  <2>5. s[0] \subseteq s[q]
    BY <2>3, <2>4
  <2>6. Backed(q)
    <3> SUFFICES ASSUME NEW n \in s[q] \cap Combinational PROVE FeedingCell(n) \subseteq s[q]
      OBVIOUS
    <3>1. FeedingCell(n) \subseteq s[i]
      BY <2>3 DEF Grown
    <3> QED BY <2>4, <3>1
  <2>7. Still(q) \/ Cardinality(s[q]) >= q
    <3>1. CASE s[q] = s[i]
      <4>1. Grown(s[q]) = s[q]
        BY <2>3, <3>1
      <4> QED BY <4>1
    <3>2. CASE s[q] # s[i]
      <4>1. Cardinality(s[i]) >= i
        BY <2>3, <3>2
      <4>2. IsFiniteSet(s[q]) /\ IsFiniteSet(s[i])
        BY <1>3, <2>4, FS_Subset
      <4>3. Cardinality(s[i]) \in Nat /\ Cardinality(s[q]) \in Nat
        BY <4>2, FS_CardinalityType
      <4>4. Cardinality(s[i]) < Cardinality(s[q])
        <5>1. s[i] \in SUBSET s[q]
          BY <2>4
        <5>2. Cardinality(s[i]) <= Cardinality(s[q]) /\ (Cardinality(s[q]) = Cardinality(s[i]) => s[q] = s[i])
          BY <4>2, <5>1, FS_Subset
        <5> QED BY <3>2, <4>3, <5>2
      <4>5. Cardinality(s[q]) >= q
        BY <2>1, <4>1, <4>3, <4>4
      <4> QED BY <4>5
    <3> QED BY <3>1, <3>2
  <2> HIDE DEF Still, Backed
  <2> QED BY <2>1, <2>5, <2>6, <2>7
<1>7. Holds(N)
  <2>1. Nat \subseteq S
    <3> HIDE DEF S
    <3> QED BY <1>5, <1>6, SetInduction
  <2> HIDE DEF Holds
  <2> QED BY <1>1, <2>1
<1>8. s[N] \subseteq All
  <2>1. N \in 0 .. N
    BY <1>1
  <2> QED BY <1>2, <2>1
<1>9. Still(N)
  <2>1. SUFFICES ASSUME Cardinality(s[N]) >= N PROVE Grown(s[N]) = s[N]
    BY <1>7
  <2>2. s[N] = All
    <3>1. SUFFICES ASSUME s[N] # All PROVE FALSE
      OBVIOUS
    <3>2. Cardinality(s[N]) \in Nat
      BY <1>3, <1>8, FS_Subset, FS_CardinalityType
    <3>3. Cardinality(s[N]) <= Cardinality(All) /\ (Cardinality(All) = Cardinality(s[N]) => All = s[N])
      BY <1>3, <1>8, FS_Subset
    <3> QED BY <1>1, <1>3, <2>1, <3>1, <3>2, <3>3
  <2> QED BY <1>4, <2>2 DEF Grown
<1>10. \A i \in Combinational : i \in s[N] <=> FeedingCell(i) \subseteq s[N]
  BY <1>7, <1>9 DEF Grown
<1> QED BY <1>2, <1>7, <1>8, <1>10 DEF ClosedUnder, All

--------------------------------------------------------------------------------
(* What a translation may say: its vectors stand for what the netlist means,   *)
(* unless something blocks, and nothing is blocked or overflows without a       *)
(* reason.                                                                 *)

Wire(b) == b >= 0 => b \in Nets
Wired(bits) == \A b \in Members(bits) : Wire(b)
Solutions == {f \in [Nets -> {0, 1}] : Agrees(f)}
Alien == \E j \in DOMAIN Cells : Cells[j].kind \notin {"child"} \cup Sequential \cup SupportedComb
Undriven == \E b \in Nets : b \notin Sources /\ \A c \in Members(Cells) : b \notin Members(c.out)

\* The value of a bit, and the meaning of a vector bit by bit.
ValueOf(sigma, b, line) ==
  CASE b >= 0 -> sigma[b] [] b = X -> Fill(line) [] OTHER -> IF b = One THEN 1 ELSE 0
Bits(sigma, bits, line) == [i \in DOMAIN bits |-> ValueOf(sigma, bits[i], line)]

\* A blocked translation, or one whose bits have two drivers, claims nothing.
Trusted(st) == st.blocks = {} /\ st.overflow = FALSE /\ SharedBits = {}
Whole(i, v) == i \in Settled /\ \A sigma \in Solutions : v = Means(sigma, Cells[i].out, Cells[i].line)
Known(c) == \A i \in DOMAIN Cells : c[i].width # 0 => Whole(i, c[i])
Stands(bits, line, v) == Feeding(bits) \subseteq Settled /\ \A sigma \in Solutions : v = Means(sigma, bits, line)

Goes(st, next) ==
  /\ st.blocks \subseteq next.blocks /\ (st.overflow = TRUE => next.overflow = TRUE)
  /\ \A q \in next.blocks : q[1] = "yosys_cell" => q \in st.blocks \/ Alien
  /\ next.overflow = TRUE => st.overflow = TRUE \/ Undriven
  /\ Trusted(next) /\ Known(st.cache) => Known(next.cache)

LEMMA MeansIs ==
  ASSUME NEW sigma, NEW bits, NEW line
  PROVE  Means(sigma, bits, line) = FromBits(Len(bits), Bits(sigma, bits, line))
BY DEF Means, Bits, ValueOf

LEMMA ValueIs ==
  ASSUME NEW sigma \in [Nets -> {0, 1}], NEW b \in Int, Wire(b), NEW line
  PROVE  ValueOf(sigma, b, line) \in {0, 1}
<1>1. CASE b >= 0
  BY <1>1 DEF ValueOf, Wire, X
<1>2. CASE ~(b >= 0)
  BY <1>2 DEF ValueOf, Fill
<1> QED BY <1>1, <1>2

LEMMA BitsAre ==
  ASSUME NEW sigma \in [Nets -> {0, 1}], NEW bits \in Seq(Int), Wired(bits), NEW line
  PROVE  Bits(sigma, bits, line) \in [1 .. Len(bits) -> {0, 1}]
<1>1. DOMAIN bits = 1 .. Len(bits)
  OBVIOUS
<1>2. \A i \in 1 .. Len(bits) : ValueOf(sigma, bits[i], line) \in {0, 1}
  BY ValueIs DEF Wired, Members
<1> QED BY <1>1, <1>2 DEF Bits

LEMMA FromBitsAre ==
  ASSUME NEW bits \in Seq(Int), NEW f \in [1 .. Len(bits) -> {0, 1}]
  PROVE  FromBits(Len(bits), f) \in Words
<1>1. Len(bits) \in Nat
  OBVIOUS
<1>2. PICK u : Sums(u, f, Len(bits)) /\ FromBits(Len(bits), f) = [width |-> Len(bits), value |-> u[Len(bits)]]
  BY <1>1, FromBitsIs
<1>3. u[Len(bits)] \in Nat
  BY <1>1, <1>2 DEF Sums
<1> QED BY <1>1, <1>2, <1>3 DEF Words

\* Without two drivers for a bit, the cell that drives it is the only one.
LEMMA OneDriver ==
  ASSUME Setting, SharedBits = {}, NEW b, NEW i \in Driving(b), NEW j \in Driving(b)
  PROVE  i = j
<1>1. Driving(b) \subseteq DOMAIN Cells /\ IsFiniteSet(DOMAIN Cells)
  BY CellsAre, FS_Interval DEF Driving
<1>2. IsFiniteSet(Driving(b)) /\ Cardinality(Driving(b)) \in Nat
  BY <1>1, FS_Subset, FS_CardinalityType
<1>3. ~(Cardinality(Driving(b)) > 1)
  <2>1. b \in Members(Cells[i].out) /\ Cells[i] \in Members(Cells)
    BY <1>1, CellsAre DEF Driving
  <2>2. b \in UNION {Members(c.out) : c \in Members(Cells)}
    BY <2>1
  <2> QED BY <2>2 DEF SharedBits
<1>4. SUFFICES ASSUME i # j PROVE FALSE
  OBVIOUS
<1>5. {i, j} \in SUBSET Driving(b) /\ Cardinality({i, j}) = 2
  <2>1. IsFiniteSet({i}) /\ Cardinality({i}) = 1
    BY FS_Singleton
  <2>2. Cardinality({i} \cup {j}) = 2
    BY <1>4, <2>1, FS_AddElement
  <2>3. {i} \cup {j} = {i, j}
    OBVIOUS
  <2> QED BY <2>2, <2>3
<1>6. Cardinality({i, j}) <= Cardinality(Driving(b))
  BY <1>2, <1>5, FS_Subset
<1> QED BY <1>2, <1>3, <1>5, <1>6

LEMMA SourcesMean ==
  ASSUME Setting, NEW sigma \in Solutions
  PROVE  /\ sigma \in [Nets -> {0, 1}] /\ Sources \subseteq Nets
         /\ \A b \in Sources : b \in Nat /\ sigma[b] = env[b] /\ env[b] \in {0, 1}
<1>1. sigma \in [Nets -> {0, 1}] /\ \A b \in Sources : sigma[b] = env[b]
  BY DEF Solutions, Agrees
<1>2. \A b \in Sources : env[b] \in {0, 1}
  BY DEF Setting
<1>3. ASSUME NEW b \in Sources PROVE b \in Nets /\ b \in Nat
  <2>1. CASE b \in UNION {Members(p.bits) : p \in Members(netlist.inputs)}
    <3>1. PICK v \in InputVectors : b \in Members(v)
      BY <2>1 DEF InputVectors
    <3>2. b \in Nat
      BY <3>1, SourcesAre DEF Members
    <3> QED BY <3>1, <3>2 DEF Nets
  <2>2. CASE b \in UNION {Members(Cells[i].out) : i \in Members(Flops) \cup Members(Children)}
    <3>1. PICK i \in Members(Flops) \cup Members(Children) : b \in Members(Cells[i].out)
      BY <2>2
    <3>2. i \in DOMAIN Cells
      BY <3>1, FlopsAndChildren DEF FlopsAre, ChildrenAre
    <3>3. Cells[i] \in Members(Cells) /\ b \in Nat
      BY <3>1, <3>2, CellsAre DEF CellFacts
    <3>4. PICK v : v = Cells[i].out
      OBVIOUS
    <3>5. v \in {c.out : c \in Members(Cells)} /\ b \in Members(v)
      BY <3>1, <3>3, <3>4
    <3> QED BY <3>3, <3>5 DEF Nets
  <2> QED BY <2>1, <2>2 DEF Sources
<1> QED BY <1>1, <1>2, <1>3

\* What is sampled is what the netlist means.
LEMMA SampledIs ==
  ASSUME Setting, NEW bits \in Seq(Int), Members(bits) \subseteq Sources
  PROVE  /\ Sampled(bits) \in Words
         /\ \A sigma \in Solutions : \A line : Sampled(bits) = Means(sigma, bits, line)
<1> DEFINE f == [i \in DOMAIN bits |-> env[bits[i]]]
<1>1. DOMAIN bits = 1 .. Len(bits) /\ \A i \in DOMAIN bits : bits[i] \in Sources
  BY DEF Members
<1>2. f \in [1 .. Len(bits) -> {0, 1}]
  BY <1>1 DEF Setting
<1>3. Sampled(bits) = FromBits(Len(bits), f)
  BY DEF Sampled
<1>4. ASSUME NEW sigma \in Solutions, NEW line PROVE f = Bits(sigma, bits, line)
  <2>1. \A i \in DOMAIN bits : ValueOf(sigma, bits[i], line) = env[bits[i]]
    <3> SUFFICES ASSUME NEW i \in DOMAIN bits PROVE ValueOf(sigma, bits[i], line) = env[bits[i]]
      OBVIOUS
    <3>1. bits[i] \in Nat /\ sigma[bits[i]] = env[bits[i]]
      BY <1>1, SourcesMean
    <3>2. bits[i] >= 0 /\ bits[i] # X
      BY <3>1 DEF X
    <3> QED BY <3>1, <3>2 DEF ValueOf
  <2> QED BY <2>1 DEF Bits
<1> HIDE DEF f
<1> QED BY <1>2, <1>3, <1>4, FromBitsAre, MeansIs

LEMMA GoesStill == ASSUME NEW st PROVE Goes(st, st)
BY DEF Goes
LEMMA TrustedBefore ==
  ASSUME NEW st \in Translations, NEW next, Goes(st, next), Trusted(next)
  PROVE  Trusted(st)
<1>1. st.overflow \in BOOLEAN
  BY DEF Translations
<1> QED BY <1>1 DEF Goes, Trusted
LEMMA GoesOn ==
  ASSUME NEW st, NEW mid \in Translations, NEW next, Goes(st, mid), Goes(mid, next)
  PROVE  Goes(st, next)
<1>1. Trusted(next) => Trusted(mid)
  BY TrustedBefore
<1>2. st.blocks \subseteq next.blocks /\ (st.overflow = TRUE => next.overflow = TRUE)
  BY DEF Goes
<1>3. \A q \in next.blocks : q[1] = "yosys_cell" => q \in st.blocks \/ Alien
  BY DEF Goes
<1>4. next.overflow = TRUE => st.overflow = TRUE \/ Undriven
  BY DEF Goes
<1>5. Trusted(next) /\ Known(st.cache) => Known(next.cache)
  BY <1>1 DEF Goes
<1> QED BY <1>2, <1>3, <1>4, <1>5 DEF Goes

LEMMA BlockIs ==
  ASSUME NEW st \in Translations, NEW kind \in BlockKinds, NEW at \in Int, kind # "yosys_cell" \/ Alien
  PROVE  /\ Block(st, kind, at) \in Translations /\ Block(st, kind, at).cache = st.cache
         /\ Block(st, kind, at).overflow = st.overflow
         /\ Goes(st, Block(st, kind, at)) /\ ~Trusted(Block(st, kind, at))
<1> DEFINE next == Block(st, kind, at)
           q == <<kind, at>>
<1>1. /\ st.cache \in [DOMAIN Cells -> [width : Nat, value : Nat]] /\ st.blocks \subseteq BlockKinds \X Int
      /\ st.overflow \in BOOLEAN /\ st = [cache |-> st.cache, blocks |-> st.blocks, overflow |-> st.overflow]
  BY DEF Translations
<1>2. next = [cache |-> st.cache, blocks |-> st.blocks \cup {q}, overflow |-> st.overflow]
  <2>1. st = [cache |-> st.cache, blocks |-> st.blocks, overflow |-> st.overflow]
    BY <1>1
  <2> QED BY <2>1 DEF Block
<1>3. q \in BlockKinds \X Int /\ q[1] = kind
  OBVIOUS
<1> HIDE DEF next, q
<1>4. next.cache = st.cache /\ next.blocks = st.blocks \cup {q} /\ next.overflow = st.overflow
  BY <1>2
<1>5. next.blocks \subseteq BlockKinds \X Int
  BY <1>1, <1>3, <1>4
<1>6. next \in Translations
  <2>1. next = [cache |-> next.cache, blocks |-> next.blocks, overflow |-> next.overflow]
    BY <1>2, <1>4
  <2>2. next.cache \in [DOMAIN Cells -> [width : Nat, value : Nat]] /\ next.overflow \in BOOLEAN
    BY <1>1, <1>4
  <2> QED BY <1>5, <2>1, <2>2 DEF Translations
<1>7. ~Trusted(next)
  <2>1. next.blocks # {}
    BY <1>4
  <2> QED BY <2>1 DEF Trusted
<1>8. Goes(st, next)
  <2>1. \A b \in next.blocks : b[1] = "yosys_cell" => b \in st.blocks \/ Alien
    BY <1>3, <1>4
  <2> QED BY <1>4, <1>7, <2>1 DEF Goes
<1> QED BY <1>4, <1>6, <1>7, <1>8 DEF next

\* A partial answer for one vector.
IsResult(r) == r = Result(r.v, r.st) /\ r.v \in Words /\ r.st \in Translations
OneGood(bits, line, st, r) ==
  Goes(st, r.st) /\ (Trusted(r.st) /\ Known(st.cache) => Stands(bits, line, r.v))

LEMMA LiteralIs ==
  ASSUME NEW bits \in Seq(Int), NEW bit \in {0, 1}
  PROVE  /\ Literal(bits, bit) \in Words
         /\ \A sigma, line : (\A b \in Members(bits) : b < 0) /\ (X \notin Members(bits) \/ bit = Fill(line))
              => Literal(bits, bit) = Means(sigma, bits, line)
<1> DEFINE f == [i \in DOMAIN bits |-> CASE bits[i] = One -> 1 [] bits[i] = X -> bit [] OTHER -> 0]
<1>1. Literal(bits, bit) = FromBits(Len(bits), f)
  BY DEF Literal
<1>2. f \in [1 .. Len(bits) -> {0, 1}]
  <2>1. DOMAIN bits = 1 .. Len(bits)
    OBVIOUS
  <2>2. \A i \in DOMAIN bits : (CASE bits[i] = One -> 1 [] bits[i] = X -> bit [] OTHER -> 0) \in {0, 1}
    BY DEF One, X
  <2> QED BY <2>1, <2>2
<1>3. ASSUME NEW sigma, NEW line, \A b \in Members(bits) : b < 0, X \notin Members(bits) \/ bit = Fill(line)
      PROVE  f = Bits(sigma, bits, line)
  <2>1. ASSUME NEW i \in DOMAIN bits
        PROVE  (CASE bits[i] = One -> 1 [] bits[i] = X -> bit [] OTHER -> 0) = ValueOf(sigma, bits[i], line)
    <3>1. bits[i] \in Members(bits) /\ bits[i] \in Int
      BY DEF Members
    <3>2. ~(bits[i] >= 0)
      BY <1>3, <3>1
    <3>3. CASE bits[i] = X
      <4>1. bit = Fill(line)
        BY <1>3, <3>1, <3>3
      <4>2. bits[i] # One
        BY <3>3 DEF X, One
      <4> QED BY <3>2, <3>3, <4>1, <4>2 DEF ValueOf
    <3>4. CASE bits[i] = One
      <4>1. bits[i] # X
        BY <3>4 DEF X, One
      <4> QED BY <3>2, <3>4, <4>1 DEF ValueOf
    <3>5. CASE bits[i] # X /\ bits[i] # One
      BY <3>2, <3>5 DEF ValueOf
    <3> QED BY <3>3, <3>4, <3>5
  <2> QED BY <2>1 DEF Bits
<1> HIDE DEF f
<1> QED BY <1>1, <1>2, <1>3, FromBitsAre, MeansIs

LEMMA ConstantIs ==
  ASSUME Setting, NEW bits \in Seq(Int), \A b \in Members(bits) : b < 0, NEW line \in Int, NEW st \in Translations
  PROVE  LET r == Constant(bits, line, st)
         IN IsResult(r) /\ Goes(st, r.st) /\ (Trusted(r.st) => \A sigma : r.v = Means(sigma, bits, line))
<1> DEFINE r == Constant(bits, line, st)
           rule == CHOOSE x \in Matching(line) : TRUE
           kind == CASE policy = {} -> "four_state_constant"
                     [] policy # {} /\ Matching(line) = {} -> "four_state_policy_missing"
                     [] OTHER -> "four_state_policy_ambiguous"
<1>1. CASE X \notin Members(bits)
  <2>1. r = Result(Literal(bits, 0), st)
    BY <1>1 DEF Constant
  <2>2. r.v = Literal(bits, 0) /\ r.st = st /\ r = Result(r.v, r.st)
    BY <2>1 DEF Result
  <2> HIDE DEF r
  <2>3. r.v \in Words /\ \A sigma : r.v = Means(sigma, bits, line)
    BY <1>1, <2>2, LiteralIs
  <2> QED BY <2>2, <2>3, GoesStill DEF IsResult, r
<1>2. CASE X \in Members(bits) /\ Cardinality(Matching(line)) = 1
  <2>1. r = Result(Literal(bits, FillBit(rule)), st)
    BY <1>2 DEF Constant
  <2>2. FillBit(rule) \in {0, 1} /\ FillBit(rule) = Fill(line)
    <3>1. IsFiniteSet(Matching(line))
      <4>1. IsFiniteSet(policy) /\ Matching(line) \in SUBSET policy
        BY PoliciesAssumption DEF Setting, Matching
      <4> QED BY <4>1, FS_Subset
    <3>2. PICK x : Matching(line) = {x}
      BY <1>2, <3>1, FS_Singleton
    <3>3. rule = x
      BY <3>2 DEF BlockKinds
    <3> HIDE DEF rule
    <3> QED BY <3>2, <3>3 DEF FillBit, Fill
  <2>3. r.v = Literal(bits, FillBit(rule)) /\ r.st = st /\ r = Result(r.v, r.st)
    BY <2>1 DEF Result
  <2> HIDE DEF r, rule
  <2>4. r.v \in Words /\ \A sigma : r.v = Means(sigma, bits, line)
    BY <2>2, <2>3, LiteralIs
  <2> QED BY <2>3, <2>4, GoesStill DEF IsResult, r
<1>3. CASE X \in Members(bits) /\ Cardinality(Matching(line)) # 1
  <2>1. r = Result(BV(Len(bits), 0), Block(st, kind, line))
    BY <1>3 DEF Constant
  <2>2. kind \in BlockKinds /\ kind # "yosys_cell"
    <3>1. CASE policy = {}
      BY <3>1 DEF BlockKinds
    <3>2. CASE policy # {} /\ Matching(line) = {}
      BY <3>2 DEF BlockKinds
    <3>3. CASE policy # {} /\ Matching(line) # {}
      BY <3>3 DEF BlockKinds
    <3> QED BY <3>1, <3>2, <3>3
  <2> HIDE DEF kind
  <2>3. r.v = BV(Len(bits), 0) /\ r.st = Block(st, kind, line) /\ r = Result(r.v, r.st)
    BY <2>1 DEF Result
  <2> HIDE DEF r
  <2>4. r.v \in Words
    <3>1. Len(bits) \in Nat /\ 0 \in Int
      OBVIOUS
    <3> QED BY <2>3, <3>1, VectorIs
  <2>5. r.st \in Translations /\ Goes(st, r.st) /\ ~Trusted(r.st)
    BY <2>2, <2>3, BlockIs
  <2> QED BY <2>3, <2>4, <2>5 DEF IsResult, r
<1> QED BY <1>1, <1>2, <1>3

LEMMA LeafIs ==
  ASSUME Setting, NEW bits \in Seq(Int), IsLeaf(bits), NEW line \in Int, NEW st \in Translations
  PROVE  IsResult(LeafExpr(bits, line, st)) /\ OneGood(bits, line, st, LeafExpr(bits, line, st))
<1> DEFINE r == LeafExpr(bits, line, st)
<1>1. CASE bits = <<>>
  <2>1. r = Result(BV(1, 0), Block(st, "zero_width", line))
    BY <1>1 DEF LeafExpr
  <2>2. r.v = BV(1, 0) /\ r.st = Block(st, "zero_width", line) /\ r = Result(r.v, r.st)
    BY <2>1 DEF Result
  <2> HIDE DEF r
  <2>3. r.v \in Words
    BY <2>2, VectorIs
  <2>4. r.st \in Translations /\ Goes(st, r.st) /\ ~Trusted(r.st)
    <3>1. "zero_width" \in BlockKinds /\ "zero_width" # "yosys_cell"
      BY DEF BlockKinds
    <3> QED BY <2>2, <3>1, BlockIs
  <2> QED BY <2>2, <2>3, <2>4 DEF IsResult, OneGood, r
<1>2. CASE bits # <<>> /\ \A b \in Members(bits) : b < 0
  <2>1. r = Constant(bits, line, st)
    BY <1>2 DEF LeafExpr
  <2> HIDE DEF r
  <2>2. IsResult(r) /\ Goes(st, r.st) /\ (Trusted(r.st) => \A sigma : r.v = Means(sigma, bits, line))
    BY <1>2, <2>1, ConstantIs
  <2>3. \A b \in Members(bits) : Driving(b) = {}
    <3>1. \A i \in DOMAIN Cells : Members(Cells[i].out) \subseteq Nat
      BY CellsAre DEF CellFacts
    <3>2. \A b \in Members(bits) : b \notin Nat
      BY <1>2
    <3> QED BY <3>1, <3>2 DEF Driving
  <2>4. Feeding(bits) \subseteq Settled
    BY <2>3 DEF Feeding
  <2> QED BY <2>2, <2>4 DEF OneGood, Stands, r
<1>3. CASE bits # <<>> /\ ~(\A b \in Members(bits) : b < 0)
  <2>1. r = Result(Sampled(bits), st)
    BY <1>3 DEF LeafExpr
  <2>2. r.v = Sampled(bits) /\ r.st = st /\ r = Result(r.v, r.st)
    BY <2>1 DEF Result
  <2> HIDE DEF r
  <2>3. PICK v \in InputVectors \cup RegisterVectors : bits = v \/ (Len(bits) = 1 /\ bits[1] \in Members(v))
    BY <1>3 DEF IsLeaf, Aliased
  <2>4. Members(bits) \subseteq Members(v)
    <3>1. CASE Len(bits) = 1 /\ bits[1] \in Members(v)
      <4>1. DOMAIN bits = {1}
        BY <3>1
      <4> QED BY <3>1, <4>1 DEF Members
    <3> QED BY <2>3, <3>1
  <2>5. Members(bits) \subseteq Sources
    BY <2>4, SourcesAre
  <2>6. IsResult(r) /\ \A sigma \in Solutions : r.v = Means(sigma, bits, line)
    BY <2>2, <2>5, SampledIs DEF IsResult
  <2>7. ASSUME Trusted(r.st) PROVE Feeding(bits) \subseteq Settled
    <3> SUFFICES ASSUME NEW b \in Members(v), NEW i \in Driving(b) PROVE i \in Settled
      BY <2>4 DEF Feeding
    <3>1. i \in DOMAIN Cells /\ b \in Members(Cells[i].out) /\ Cells[i] \in Members(Cells)
      BY CellsAre DEF Driving
    <3>2. CASE v \in InputVectors
      <4>1. \A p \in Members(netlist.inputs) : Members(p.bits) \cap Members(Cells[i].out) = {}
        BY <3>1, NetlistsAssumption DEF Setting, Cells
      <4> QED BY <3>1, <3>2, <4>1 DEF InputVectors
    <3>3. CASE v \in RegisterVectors
      <4>1. PICK j \in Members(Flops) : v = Cells[j].out
        BY <3>3 DEF RegisterVectors
      <4>2. j \in DOMAIN Cells /\ Cells[j].kind \in Sequential
        BY <4>1, FlopsAndChildren DEF FlopsAre
      <4>3. j \in Driving(b)
        BY <4>1, <4>2 DEF Driving
      <4>4. i = j
        BY <2>7, <4>3, OneDriver DEF Trusted
      <4>5. j \notin Combinational
        BY <4>2 DEF Combinational, Sequential, SupportedComb, UnaryOps, ReduceOps, LogicOps, ArithOps, Compares
      <4> QED BY <4>2, <4>4, <4>5, SettledIs DEF ClosedUnder
    <3> QED BY <3>2, <3>3
  <2>8. Goes(st, r.st)
    BY <2>2, GoesStill
  <2> QED BY <2>6, <2>7, <2>8 DEF OneGood, Stands, r
<1> QED BY <1>1, <1>2, <1>3

\* A partial answer for several vectors, and one for a whole cell.
AreResults(vectors, r) ==
  r = Result(r.v, r.st) /\ r.v \in Seq(Words) /\ Len(r.v) = Len(vectors) /\ r.st \in Translations
AllGood(vectors, line, st, r) ==
  Goes(st, r.st) /\ (Trusted(r.st) /\ Known(st.cache) => \A n \in DOMAIN vectors : Stands(vectors[n], line, r.v[n]))
CellGood(i, st, r) == Goes(st, r.st) /\ (Trusted(r.st) /\ Known(st.cache) => Whole(i, r.v))

LEMMA ReadIsWired ==
  ASSUME NEW v \in Read, v \in Seq(Int)
  PROVE  Wired(v)
<1> SUFFICES ASSUME NEW b \in Members(v), b >= 0 PROVE b \in Nets
  BY DEF Wired, Wire
<1> DEFINE all == Read \cup InputVectors \cup {c.out : c \in Members(Cells)}
<1>1. v \in all
  OBVIOUS
<1>2. b \in UNION {Members(w) : w \in all}
  <2> HIDE DEF all
  <2> QED BY <1>1
<1> HIDE DEF all
<1> QED BY <1>2 DEF Nets, all

LEMMA OperandsAre ==
  ASSUME Setting, NEW i \in DOMAIN Cells
  PROVE  /\ Operands(Cells[i]) \in Seq(Seq(Int)) /\ Len(Operands(Cells[i])) \in 1 .. 3
         /\ \A v \in Members(Operands(Cells[i])) : Wired(v)
<1> DEFINE c == Cells[i]
<1>1. c.A \in Seq(Int) /\ c.B \in Seq(Int) /\ c.S \in Seq(Int) /\ c \in Members(Cells)
  BY CellsAre DEF CellFacts
<1>2. c.A \in Read /\ c.B \in Read /\ c.S \in Read
  BY <1>1 DEF Read
<1>3. Wired(c.A) /\ Wired(c.B) /\ Wired(c.S)
  BY <1>1, <1>2, ReadIsWired
<1>4. Operands(c) \in {<<c.B, c.A, c.S>>, <<c.A>>, <<c.A, c.B>>}
  <2>1. CASE c.kind = "$mux"
    BY <2>1 DEF Operands, UnaryOps, ReduceOps
  <2>2. CASE c.kind # "$mux" /\ c.kind \in DOMAIN UnaryOps \cup DOMAIN ReduceOps
    BY <2>2 DEF Operands
  <2>3. CASE c.kind # "$mux" /\ c.kind \notin DOMAIN UnaryOps \cup DOMAIN ReduceOps
    BY <2>3 DEF Operands
  <2> QED BY <2>1, <2>2, <2>3
<1> HIDE DEF c
<1> DEFINE o == Operands(c)
           Goal == o \in Seq(Seq(Int)) /\ Len(o) \in 1 .. 3 /\ \A v \in Members(o) : Wired(v)
<1>5. ASSUME Operands(c) = <<c.B, c.A, c.S>> PROVE Goal
  <2>1. <<c.B, c.A, c.S>> \in Seq(Seq(Int)) /\ Len(<<c.B, c.A, c.S>>) = 3 /\ Members(<<c.B, c.A, c.S>>) = {c.A, c.B, c.S}
    BY <1>1 DEF Members
  <2>2. \A v \in Members(<<c.B, c.A, c.S>>) : Wired(v)
    BY <1>3, <2>1, Zenon
  <2>3. Len(o) = 3
    BY <1>5, <2>1
  <2>4. o \in Seq(Seq(Int))
    BY <1>5, <2>1, Zenon
  <2>5. \A v \in Members(o) : Wired(v)
    BY <1>5, <2>2, Zenon
  <2>6. Len(o) \in 1 .. 3
    BY <2>3
  <2> HIDE DEF o
  <2> QED BY <2>4, <2>5, <2>6
<1>6. ASSUME Operands(c) = <<c.A>> PROVE Goal
  <2>1. <<c.A>> \in Seq(Seq(Int)) /\ Len(<<c.A>>) = 1 /\ Members(<<c.A>>) = {c.A}
    BY <1>1 DEF Members
  <2>2. \A v \in Members(<<c.A>>) : Wired(v)
    BY <1>3, <2>1, Zenon
  <2>3. Len(o) = 1
    BY <1>6, <2>1
  <2>4. o \in Seq(Seq(Int))
    BY <1>6, <2>1, Zenon
  <2>5. \A v \in Members(o) : Wired(v)
    BY <1>6, <2>2, Zenon
  <2>6. Len(o) \in 1 .. 3
    BY <2>3
  <2> HIDE DEF o
  <2> QED BY <2>4, <2>5, <2>6
<1>7. ASSUME Operands(c) = <<c.A, c.B>> PROVE Goal
  <2>1. <<c.A, c.B>> \in Seq(Seq(Int)) /\ Len(<<c.A, c.B>>) = 2 /\ Members(<<c.A, c.B>>) = {c.A, c.B}
    BY <1>1 DEF Members
  <2>2. \A v \in Members(<<c.A, c.B>>) : Wired(v)
    BY <1>3, <2>1, Zenon
  <2>3. Len(o) = 2
    BY <1>7, <2>1
  <2>4. o \in Seq(Seq(Int))
    BY <1>7, <2>1, Zenon
  <2>5. \A v \in Members(o) : Wired(v)
    BY <1>7, <2>2, Zenon
  <2>6. Len(o) \in 1 .. 3
    BY <2>3
  <2> HIDE DEF o
  <2> QED BY <2>4, <2>5, <2>6
<1>8. Goal
  BY <1>4, <1>5, <1>6, <1>7
<1> QED BY <1>8 DEF c

LEMMA LoweredIs ==
  ASSUME NEW c, c.kind \in SupportedComb, Len(c.out) \in Nat, NEW vs \in Seq(Words), Len(vs) \in 1 .. 3
  PROVE  Lowered(c, vs) \in Words
<1> DEFINE n == Len(vs)
<1>1. /\ vs[IF n = 3 THEN 2 ELSE 1] \in Words /\ vs[IF n = 3 THEN 1 ELSE n] \in Words
      /\ vs[n] \in Words /\ vs[1] \in Words
  OBVIOUS
<1> QED BY <1>1, CellValueIs DEF Lowered

LEMMA CachedIs ==
  ASSUME NEW i \in DOMAIN Cells, NEW st, NEW r, IsResult(r), CellGood(i, st, r)
  PROVE  IsResult(Cached(i, r)) /\ CellGood(i, st, Cached(i, r))
<1> DEFINE q == Cached(i, r)
           c == [r.st.cache EXCEPT ![i] = r.v]
<1>1. /\ r.st.cache \in [DOMAIN Cells -> Words] /\ r.st.blocks \subseteq BlockKinds \X Int /\ r.st.overflow \in BOOLEAN
      /\ r.st = [cache |-> r.st.cache, blocks |-> r.st.blocks, overflow |-> r.st.overflow] /\ r.v \in Words
  BY DEF IsResult, Translations, Words
<1>2. q = Result(r.v, [cache |-> c, blocks |-> r.st.blocks, overflow |-> r.st.overflow])
  <2>1. [r.st EXCEPT !.cache[i] = r.v] = [cache |-> c, blocks |-> r.st.blocks, overflow |-> r.st.overflow]
    <3>1. PICK s : s = r.st
      OBVIOUS
    <3>2. s = [cache |-> s.cache, blocks |-> s.blocks, overflow |-> s.overflow]
      BY <1>1, <3>1
    <3>3. [s EXCEPT !.cache[i] = r.v] = [cache |-> [s.cache EXCEPT ![i] = r.v], blocks |-> s.blocks, overflow |-> s.overflow]
      BY <3>2
    <3> QED BY <3>1, <3>3
  <2> HIDE DEF c
  <2> QED BY <2>1 DEF Cached
<1>3. c \in [DOMAIN Cells -> Words] /\ c[i] = r.v /\ \A j \in DOMAIN Cells : j # i => c[j] = r.st.cache[j]
  BY <1>1
<1> HIDE DEF q, c
<1>4. q.v = r.v /\ q.st.cache = c /\ q.st.blocks = r.st.blocks /\ q.st.overflow = r.st.overflow
  BY <1>2 DEF Result
<1>5. q = Result(q.v, q.st)
  BY <1>2 DEF Result
<1>6. q.st \in Translations
  <2>1. q.st = [cache |-> c, blocks |-> r.st.blocks, overflow |-> r.st.overflow]
    BY <1>2 DEF Result
  <2> QED BY <1>1, <1>3, <2>1 DEF Translations, Words
<1>7. Trusted(q.st) <=> Trusted(r.st)
  BY <1>4 DEF Trusted
<1>8. ASSUME Trusted(q.st), Known(st.cache) PROVE Known(q.st.cache) /\ Whole(i, q.v)
  <2>1. Known(r.st.cache) /\ Whole(i, r.v)
    BY <1>7, <1>8 DEF CellGood, Goes
  <2> QED BY <1>3, <1>4, <2>1 DEF Known
<1>9. Goes(st, q.st)
  BY <1>4, <1>8 DEF CellGood, Goes
<1> QED BY <1>1, <1>4, <1>5, <1>6, <1>8, <1>9 DEF IsResult, CellGood, q

LEMMA CellIs ==
  ASSUME Setting, NEW i \in DOMAIN Cells, NEW st \in Translations, NEW path, NEW read,
         LooksInto(i, st, path) =>
           AreResults(Operands(Cells[i]), read) /\ AllGood(Operands(Cells[i]), Cells[i].line, st, read)
  PROVE  IsResult(CellExpr(i, read, st, path)) /\ CellGood(i, st, CellExpr(i, read, st, path))
<1> DEFINE c == Cells[i]
           zero == BV(Larger(Len(c.out), 1), 0)
           r == CellExpr(i, read, st, path)
<1>1. CellFacts(c) /\ c \in Members(Cells) /\ i \in Int
  BY CellsAre
<1>2. Len(c.out) \in Nat
  BY <1>1 DEF CellFacts
<1>3. zero \in Words
  <2>1. Larger(Len(c.out), 1) \in Nat /\ 0 \in Int
    <3>1. 1 \in Nat /\ 0 \in Int
      OBVIOUS
    <3> QED BY <1>2, <3>1, LargerIs
  <2> QED BY <2>1, VectorIs
<1>4. st.cache \in [DOMAIN Cells -> Words]
  BY DEF Translations, Words
<1>5. CASE st.cache[i].width # 0
  <2>1. r = Result(st.cache[i], st)
    BY <1>5 DEF CellExpr
  <2>2. r.v = st.cache[i] /\ r.st = st /\ r = Result(r.v, r.st)
    BY <2>1 DEF Result
  <2> HIDE DEF r
  <2>3. Known(st.cache) => Whole(i, r.v)
    BY <1>5, <2>2 DEF Known
  <2> QED BY <1>4, <2>2, <2>3, GoesStill DEF IsResult, CellGood, r
<1>6. CASE st.cache[i].width = 0 /\ i \in path
  <2>1. r = Result(zero, Block(st, "combinational_cycle", i))
    BY <1>6 DEF CellExpr
  <2> HIDE DEF zero
  <2>2. r.v = zero /\ r.st = Block(st, "combinational_cycle", i) /\ r = Result(r.v, r.st)
    BY <2>1 DEF Result
  <2>3. "combinational_cycle" \in BlockKinds /\ "combinational_cycle" # "yosys_cell"
    BY DEF BlockKinds
  <2> HIDE DEF r
  <2>4. r.st \in Translations /\ Goes(st, r.st) /\ ~Trusted(r.st)
    BY <1>1, <2>2, <2>3, BlockIs
  <2> QED BY <1>3, <2>2, <2>4 DEF IsResult, CellGood, r
<1>7. CASE st.cache[i].width = 0 /\ i \notin path /\ c.kind \in Sequential \cup {"child"}
  <2> DEFINE s == Result(Sampled(c.out), st)
  <2>1. r = Cached(i, s)
    BY <1>7 DEF CellExpr
  <2>2. s.v = Sampled(c.out) /\ s.st = st /\ s = Result(s.v, s.st)
    BY DEF Result
  <2> HIDE DEF s, r
  <2>3. c.out \in Seq(Int) /\ Members(c.out) \subseteq Sources
    BY <1>1, <1>7, SourcesAre DEF CellFacts
  <2>4. Sampled(c.out) \in Words /\ \A sigma \in Solutions : \A line : Sampled(c.out) = Means(sigma, c.out, line)
    BY <2>3, SampledIs
  <2>5. i \in Settled
    <3>1. i \notin Combinational
      BY <1>7 DEF Combinational, Sequential, SupportedComb, UnaryOps, ReduceOps, LogicOps, ArithOps, Compares
    <3> QED BY <3>1, SettledIs DEF ClosedUnder
  <2>6. Whole(i, s.v)
    BY <2>2, <2>4, <2>5 DEF Whole
  <2>7. IsResult(s) /\ CellGood(i, st, s)
    BY <2>2, <2>4, <2>6, GoesStill DEF IsResult, CellGood
  <2> QED BY <2>1, <2>7, CachedIs DEF r
<1>8. CASE st.cache[i].width = 0 /\ i \notin path /\ c.kind \notin Sequential \cup {"child"} /\ c.kind \notin SupportedComb
  <2> DEFINE s == Result(zero, Block(st, "yosys_cell", i))
  <2>1. r = Cached(i, s)
    BY <1>8 DEF CellExpr
  <2> HIDE DEF zero
  <2>2. s.v = zero /\ s.st = Block(st, "yosys_cell", i) /\ s = Result(s.v, s.st)
    BY DEF Result
  <2> HIDE DEF s, r
  <2>3. "yosys_cell" \in BlockKinds /\ Alien
    BY <1>8 DEF BlockKinds, Alien
  <2>4. s.st \in Translations /\ Goes(st, s.st) /\ ~Trusted(s.st)
    BY <1>1, <2>2, <2>3, BlockIs
  <2>5. IsResult(s) /\ CellGood(i, st, s)
    BY <1>3, <2>2, <2>4 DEF IsResult, CellGood
  <2> QED BY <2>1, <2>5, CachedIs DEF r
<1>9. CASE st.cache[i].width = 0 /\ i \notin path /\ c.kind \notin Sequential \cup {"child"} /\ c.kind \in SupportedComb
  <2> DEFINE s == Result(Lowered(c, read.v), read.st)
             reads == Operands(c)
  <2>1. r = Cached(i, s)
    BY <1>9 DEF CellExpr
  <2>2. s.v = Lowered(c, read.v) /\ s.st = read.st /\ s = Result(s.v, s.st)
    BY DEF Result
  <2>3. AreResults(reads, read) /\ AllGood(reads, c.line, st, read)
    BY <1>9 DEF LooksInto
  <2>4. reads \in Seq(Seq(Int)) /\ Len(reads) \in 1 .. 3
    BY OperandsAre
  <2> HIDE DEF s, r, reads
  <2>5. s.v \in Words
    BY <1>2, <1>9, <2>2, <2>3, <2>4, LoweredIs DEF AreResults
  <2>6. i \in Combinational
    BY <1>9 DEF Combinational
  <2>7. ASSUME Trusted(read.st), Known(st.cache) PROVE Whole(i, s.v)
    <3>1. \A n \in DOMAIN reads : Stands(reads[n], c.line, read.v[n])
      BY <2>3, <2>7 DEF AllGood
    <3>2. FeedingCell(i) \subseteq Settled
      <4>1. \A v \in Members(reads) : Feeding(v) \subseteq Settled
        BY <3>1 DEF Stands, Members
      <4>2. FeedingCell(i) = UNION {Feeding(v) : v \in Members(reads)}
        BY <2>6 DEF FeedingCell, reads
      <4> QED BY <4>1, <4>2
    <3>3. i \in Settled
      BY <2>6, <3>2, SettledIs DEF ClosedUnder
    <3>4. ASSUME NEW sigma \in Solutions PROVE s.v = Means(sigma, c.out, c.line)
      <4> DEFINE ms == [n \in DOMAIN reads |-> Means(sigma, reads[n], c.line)]
      <4>1. ms = read.v
        <5>1. \A n \in DOMAIN reads : ms[n] = read.v[n]
          BY <3>1, <3>4 DEF Stands
        <5>2. read.v \in Seq(Words) /\ Len(read.v) = Len(reads)
          BY <2>3 DEF AreResults
        <5>3. DOMAIN read.v = DOMAIN reads /\ read.v = [n \in DOMAIN read.v |-> read.v[n]]
          BY <2>4, <5>2
        <5>4. ms = [n \in DOMAIN reads |-> ms[n]]
          OBVIOUS
        <5> HIDE DEF ms
        <5> QED BY <5>1, <5>3, <5>4
      <4>2. Agrees(sigma)
        BY <3>4 DEF Solutions
      <4>3. Means(sigma, c.out, c.line) = Lowered(c, ms)
        BY <2>6, <4>2 DEF Agrees, reads
      <4> HIDE DEF ms
      <4> QED BY <2>2, <4>1, <4>3
    <3> QED BY <3>3, <3>4 DEF Whole
  <2>8. IsResult(s) /\ CellGood(i, st, s)
    BY <2>2, <2>3, <2>5, <2>7 DEF IsResult, CellGood, AreResults, AllGood
  <2> QED BY <2>1, <2>8, CachedIs DEF r
<1> QED BY <1>5, <1>6, <1>7, <1>8, <1>9

LEMMA MeansOne ==
  ASSUME NEW sigma \in [Nets -> {0, 1}], NEW bits \in Seq(Int), Len(bits) = 1, Wire(bits[1]), NEW line
  PROVE  Means(sigma, bits, line) = [width |-> 1, value |-> ValueOf(sigma, bits[1], line)]
<1>1. DOMAIN bits = 1 .. 1 /\ 1 \in 1 .. 1 /\ bits[1] \in Int
  OBVIOUS
<1>2. ValueOf(sigma, bits[1], line) \in {0, 1}
  BY <1>1, ValueIs
<1> DEFINE f == Bits(sigma, bits, line)
<1>3. f \in [1 .. 1 -> {0, 1}] /\ f[1] = ValueOf(sigma, bits[1], line)
  <2>1. f = [i \in 1 .. 1 |-> ValueOf(sigma, bits[i], line)]
    BY <1>1 DEF Bits
  <2>2. \A i \in 1 .. 1 : i = 1
    OBVIOUS
  <2> HIDE DEF f
  <2> QED BY <1>1, <1>2, <2>1, <2>2
<1>4. Means(sigma, bits, line) = FromBits(1, f)
  BY MeansIs
<1> HIDE DEF f
<1> QED BY <1>3, <1>4, OneBit

\* A vector that a cell drives, whole or one bit of it.
LEMMA FromCellIs ==
  ASSUME Setting, NEW bits \in Seq(Int), NEW i \in DOMAIN Cells,
         Cells[i].out = bits \/ (Len(bits) = 1 /\ bits[1] \in Members(Cells[i].out)),
         NEW line \in Int, NEW st, NEW whole, IsResult(whole), CellGood(i, st, whole)
  PROVE  IsResult(FromCell(bits, i, whole)) /\ OneGood(bits, line, st, FromCell(bits, i, whole))
<1> DEFINE out == Cells[i].out
           r == FromCell(bits, i, whole)
<1>1. out \in Seq(Int) /\ Members(out) \subseteq Nat /\ Cells[i] \in Members(Cells)
  BY CellsAre DEF CellFacts
<1>2. Members(bits) \subseteq Members(out)
  <2>1. CASE Len(bits) = 1 /\ bits[1] \in Members(out)
    <3>1. DOMAIN bits = {1}
      BY <2>1
    <3> QED BY <2>1, <3>1 DEF Members
  <2> QED BY <2>1
<1>3. ASSUME NEW b \in Members(out) PROVE b \in Nat /\ b \in Nets /\ i \in Driving(b)
  <2>1. out \in {c.out : c \in Members(Cells)}
    BY <1>1
  <2>2. b \in UNION {Members(v) : v \in Read \cup InputVectors \cup {c.out : c \in Members(Cells)}}
    <3> HIDE DEF out
    <3> QED BY <2>1
  <2> QED BY <1>1, <2>2 DEF Nets, Driving
<1>4. SharedBits = {} /\ i \in Settled => Feeding(bits) \subseteq Settled
  <2> SUFFICES ASSUME SharedBits = {}, i \in Settled, NEW b \in Members(bits), NEW j \in Driving(b) PROVE j \in Settled
    BY DEF Feeding
  <2>1. i \in Driving(b)
    BY <1>2, <1>3
  <2> QED BY <2>1, OneDriver
<1>5. ASSUME NEW sigma \in Solutions PROVE sigma \in [Nets -> {0, 1}]
  BY DEF Solutions
<1>6. \A b \in Members(out) : Wire(b)
  BY <1>3 DEF Wire
<1>7. \A b \in Members(out) : \A sigma : ValueOf(sigma, b, line) = sigma[b]
  <2> SUFFICES ASSUME NEW b \in Members(out), NEW sigma PROVE ValueOf(sigma, b, line) = sigma[b]
    OBVIOUS
  <2>1. b >= 0 /\ b # X
    BY <1>3 DEF X
  <2> QED BY <2>1 DEF ValueOf
<1>8. \A b \in Members(out) : \A sigma : ValueOf(sigma, b, Cells[i].line) = sigma[b]
  <2> SUFFICES ASSUME NEW b \in Members(out), NEW sigma PROVE ValueOf(sigma, b, Cells[i].line) = sigma[b]
    OBVIOUS
  <2>1. b >= 0 /\ b # X
    BY <1>3 DEF X
  <2> QED BY <2>1 DEF ValueOf
<1>9. CASE out = bits
  <2>1. r = whole
    BY <1>9 DEF FromCell
  <2>2. ASSUME NEW sigma \in Solutions PROVE Means(sigma, out, Cells[i].line) = Means(sigma, bits, line)
    <3>1. \A n \in DOMAIN out : out[n] \in Members(out)
      BY DEF Members
    <3>2. \A n \in DOMAIN out : ValueOf(sigma, out[n], Cells[i].line) = ValueOf(sigma, out[n], line)
      BY <1>7, <1>8, <3>1
    <3>3. Bits(sigma, out, Cells[i].line) = Bits(sigma, bits, line)
      <4> HIDE DEF out
      <4> QED BY <1>9, <3>2 DEF Bits
    <3> HIDE DEF out
    <3> QED BY <1>9, <3>3, MeansIs
  <2>3. Trusted(r.st) /\ Known(st.cache) => Stands(bits, line, r.v)
    <3> SUFFICES ASSUME Trusted(r.st), Known(st.cache) PROVE Stands(bits, line, r.v)
      OBVIOUS
    <3>1. Whole(i, r.v) /\ SharedBits = {}
      BY <2>1 DEF CellGood, Trusted
    <3> QED BY <1>4, <2>2, <3>1 DEF Whole, Stands
  <2> QED BY <2>1, <2>3 DEF OneGood, CellGood
<1>10. CASE out # bits
  <2>1. Len(bits) = 1 /\ bits[1] \in Members(out) /\ bits[1] \in Members(bits)
    BY <1>10 DEF Members
  <2>2. PICK o \in 1 .. Len(out) : OffsetIn(bits[1], out) = o - 1 /\ out[o] = bits[1]
    <3> HIDE DEF out
    <3> QED BY <1>1, <2>1, OffsetIs
  <2>3. r = Result(SliceExpr(whole.v, o - 1, 1), whole.st)
    BY <1>10, <2>2 DEF FromCell
  <2>4. r.v = SliceExpr(whole.v, o - 1, 1) /\ r.st = whole.st /\ r = Result(r.v, r.st)
    BY <2>3 DEF Result
  <2> HIDE DEF r
  <2>5. r.v \in Words
    <3>1. PICK m : m = o - 1
      OBVIOUS
    <3>2. m \in Nat
      BY <1>1, <3>1
    <3>3. Power[m] \in Nat /\ Power[m] > 0
      <4>1. Power[m] \in Nat /\ Power[m] > m
        BY <3>2, PowersAre DEF Powers
      <4> QED BY <3>2, <4>1
    <3>4. whole.v.value \in Nat
      BY WordIs DEF IsResult
    <3>5. whole.v.value \div Power[m] \in Int
      BY <3>3, <3>4
    <3> QED BY <2>4, <3>1, <3>5, VectorIs DEF SliceExpr
  <2>6. ASSUME NEW sigma \in Solutions, whole.v = Means(sigma, out, Cells[i].line) PROVE r.v = Means(sigma, bits, line)
    <3> DEFINE f == Bits(sigma, out, Cells[i].line)
    <3>1. sigma \in [Nets -> {0, 1}] /\ Wired(out) /\ Wire(bits[1])
      BY <1>5, <1>6, <2>1 DEF Wired
    <3>2. f \in [1 .. Len(out) -> {0, 1}]
      <4> HIDE DEF out
      <4> QED BY <1>1, <3>1, BitsAre DEF out
    <3>3. f[o] = sigma[bits[1]]
      <4>1. DOMAIN out = 1 .. Len(out)
        BY <1>1
      <4>2. f[o] = ValueOf(sigma, out[o], Cells[i].line)
        BY <4>1 DEF Bits
      <4> HIDE DEF f
      <4> QED BY <1>8, <2>1, <2>2, <4>2
    <3>4. whole.v = FromBits(Len(out), f)
      BY <2>6, MeansIs
    <3> HIDE DEF f, out
    <3>5. SliceExpr(FromBits(Len(out), f), o - 1, 1) = [width |-> 1, value |-> f[o]]
      <4>1. Len(out) \in Nat
        BY <1>1
      <4> QED BY <3>2, <4>1, SliceIs
    <3>6. Means(sigma, bits, line) = [width |-> 1, value |-> sigma[bits[1]]]
      BY <1>7, <2>1, <3>1, MeansOne
    <3> QED BY <2>4, <3>3, <3>4, <3>5, <3>6
  <2>7. Trusted(r.st) /\ Known(st.cache) => Stands(bits, line, r.v)
    <3> SUFFICES ASSUME Trusted(r.st), Known(st.cache) PROVE Stands(bits, line, r.v)
      OBVIOUS
    <3>1. Whole(i, whole.v) /\ SharedBits = {}
      BY <2>4 DEF CellGood, Trusted
    <3> QED BY <1>4, <2>6, <3>1 DEF Whole, Stands
  <2> QED BY <2>4, <2>5, <2>7 DEF OneGood, CellGood, IsResult, r
<1> QED BY <1>9, <1>10

\* A vector that is put together bit by bit.
AllWired(vectors) == \A v \in Members(vectors) : Wired(v)
LEMMA SinglesAre ==
  ASSUME NEW bits \in Seq(Int)
  PROVE  /\ Singles(bits) \in Seq(Seq(Int)) /\ Len(Singles(bits)) = Len(bits)
         /\ \A i \in 1 .. Len(bits) : Singles(bits)[i] = <<bits[(Len(bits) + 1) - i]>> /\ Len(Singles(bits)[i]) = 1
         /\ Wired(bits) => AllWired(Singles(bits))
<1> DEFINE N == Len(bits)
<1>1. N \in Nat /\ DOMAIN bits = 1 .. N
  OBVIOUS
<1>2. Singles(bits) = [i \in 1 .. N |-> <<bits[(N + 1) - i]>>]
  BY <1>1 DEF Singles
<1>3. \A i \in 1 .. N : (N + 1) - i \in 1 .. N /\ bits[(N + 1) - i] \in Int
  BY <1>1
<1>4. \A i \in 1 .. N : <<bits[(N + 1) - i]>> \in Seq(Int)
  BY <1>3
<1> HIDE DEF N
<1>5. Singles(bits) \in Seq(Seq(Int)) /\ Len(Singles(bits)) = N
  BY <1>1, <1>2, <1>4
<1>6. \A i \in 1 .. N : Singles(bits)[i] = <<bits[(N + 1) - i]>> /\ Len(Singles(bits)[i]) = 1
  <2> SUFFICES ASSUME NEW i \in 1 .. N PROVE Singles(bits)[i] = <<bits[(N + 1) - i]>> /\ Len(Singles(bits)[i]) = 1
    OBVIOUS
  <2>1. Singles(bits)[i] = <<bits[(N + 1) - i]>>
    BY <1>2
  <2>2. Len(<<bits[(N + 1) - i]>>) = 1
    OBVIOUS
  <2> QED BY <2>1, <2>2
<1>7. ASSUME Wired(bits), NEW v \in Members(Singles(bits)) PROVE Wired(v)
  <2>1. PICK i \in 1 .. N : v = <<bits[(N + 1) - i]>>
    BY <1>2 DEF Members
  <2>2. Wire(bits[(N + 1) - i])
    BY <1>1, <1>3, <1>7 DEF Wired, Members
  <2>3. Members(v) = {bits[(N + 1) - i]}
    BY <2>1 DEF Members
  <2> QED BY <2>2, <2>3 DEF Wired
<1> QED BY <1>5, <1>6, <1>7 DEF N, AllWired

LEMMA PartsMean ==
  ASSUME Setting, NEW bits \in Seq(Int), Len(bits) > 1, NEW line \in Int, NEW st, NEW read, AreResults(Singles(bits), read)
  PROVE  LET r == Result(Joined(read.v), read.st)
         IN IsResult(r) /\ (Wired(bits) /\ AllGood(Singles(bits), line, st, read) => OneGood(bits, line, st, r))
<1> DEFINE N == Len(bits)
           r == Result(Joined(read.v), read.st)
           one(i) == bits[(N + 1) - i]
<1>1. N \in Nat \ {0} /\ DOMAIN bits = 1 .. N
  OBVIOUS
<1>2. read.v \in Seq(Words) /\ Len(read.v) = N /\ read.st \in Translations
  BY SinglesAre DEF AreResults
<1>3. r.v = Joined(read.v) /\ r.st = read.st /\ r = Result(r.v, r.st)
  BY DEF Result
<1> HIDE DEF r
<1>4. r.v \in Words
  BY <1>2, <1>3, JoinedIs
<1>5. ASSUME Wired(bits), AllGood(Singles(bits), line, st, read), Trusted(read.st), Known(st.cache)
      PROVE  Stands(bits, line, r.v)
  <2>1. ASSUME NEW i \in 1 .. N PROVE Stands(<<one(i)>>, line, read.v[i])
    <3>1. DOMAIN Singles(bits) = 1 .. N /\ Singles(bits)[i] = <<one(i)>>
      <4>1. PICK s : s = Singles(bits)
        OBVIOUS
      <4>2. s \in Seq(Seq(Int)) /\ Len(s) = N
        BY <4>1, SinglesAre
      <4>3. DOMAIN s = 1 .. N
        BY <1>1, <4>2
      <4>4. Singles(bits)[i] = <<one(i)>>
        BY SinglesAre
      <4> QED BY <4>1, <4>3, <4>4
    <3> HIDE DEF one
    <3> QED BY <1>5, <3>1 DEF AllGood
  <2>2. Feeding(bits) \subseteq Settled
    <3> SUFFICES ASSUME NEW b \in Members(bits) PROVE Driving(b) \subseteq Settled
      BY DEF Feeding
    <3>1. PICK n \in 1 .. N : b = bits[n]
      BY <1>1 DEF Members
    <3>2. PICK i : i = (N + 1) - n
      OBVIOUS
    <3>3. i \in 1 .. N /\ (N + 1) - i = n
      BY <1>1, <3>2
    <3>4. Feeding(<<b>>) \subseteq Settled
      BY <2>1, <3>1, <3>3 DEF Stands
    <3>5. Members(<<b>>) = {b}
      BY DEF Members
    <3> QED BY <3>4, <3>5 DEF Feeding
  <2>3. ASSUME NEW sigma \in Solutions PROVE r.v = Means(sigma, bits, line)
    <3> DEFINE f == Bits(sigma, bits, line)
    <3>1. sigma \in [Nets -> {0, 1}]
      BY DEF Solutions
    <3>2. f \in [1 .. N -> {0, 1}]
      BY <1>5, <3>1, BitsAre
    <3>3. ASSUME NEW i \in 1 .. N PROVE read.v[i] = [width |-> 1, value |-> f[(N + 1) - i]]
      <4>1. (N + 1) - i \in 1 .. N
        BY <1>1
      <4>2. one(i) \in Int /\ one(i) \in Members(bits)
        BY <1>1, <4>1 DEF Members
      <4>3. Wire(one(i))
        BY <1>5, <4>2 DEF Wired
      <4>4. f[(N + 1) - i] = ValueOf(sigma, one(i), line)
        BY <1>1, <4>1 DEF Bits
      <4>5. <<one(i)>> \in Seq(Int) /\ Len(<<one(i)>>) = 1 /\ <<one(i)>>[1] = one(i)
        BY <4>2
      <4>6. read.v[i] = Means(sigma, <<one(i)>>, line)
        BY <2>1 DEF Stands
      <4> HIDE DEF one, f
      <4>7. Means(sigma, <<one(i)>>, line) = [width |-> 1, value |-> ValueOf(sigma, one(i), line)]
        BY <3>1, <4>3, <4>5, MeansOne
      <4> QED BY <4>4, <4>6, <4>7
    <3>4. Means(sigma, bits, line) = FromBits(N, f)
      BY MeansIs
    <3> HIDE DEF f, N
    <3>5. Joined(read.v) = FromBits(N, f)
      BY <1>1, <1>2, <3>2, <3>3, JoinedBits
    <3> QED BY <1>3, <3>4, <3>5
  <2> QED BY <2>2, <2>3 DEF Stands
<1> QED BY <1>2, <1>3, <1>4, <1>5 DEF IsResult, OneGood, AllGood, r

\* The walk asks for less each time, and what it reads fits what it answers.
Fits(vectors, line, st, r) == AreResults(vectors, r) /\ (AllWired(vectors) => AllGood(vectors, line, st, r))
FitsAsk(q, r) == Fits(q.vectors, q.line, q.before, r)

LEMMA AskIs ==
  ASSUME NEW vectors, NEW line, NEW st, NEW path
  PROVE  /\ Ask(vectors, line, st, path).vectors = vectors /\ Ask(vectors, line, st, path).line = line
         /\ Ask(vectors, line, st, path).before = st /\ Ask(vectors, line, st, path).path = path
BY DEF Ask
LEMMA AskIsOne ==
  ASSUME NEW vectors \in Seq(Seq(Int)), NEW line \in Int, NEW st \in Translations, NEW path \in SUBSET DOMAIN Cells
  PROVE  Ask(vectors, line, st, path) \in Asks
BY DEF Ask, Asks

LEMMA UndrivenIs ==
  ASSUME Setting, NEW bits \in Seq(Int), ~IsLeaf(bits), CellOf(bits) = 0, ~(Len(bits) > 1), Wired(bits)
  PROVE  Undriven
<1> DEFINE b == bits[1]
<1>1. ~(\A n \in Members(bits) : n < 0) /\ ~Aliased(bits, InputVectors) /\ ~Aliased(bits, RegisterVectors)
  BY DEF IsLeaf
<1>2. bits # <<>>
  BY <1>1 DEF Members
<1>3. Len(bits) = 1
  BY <1>2
<1>4. Members(bits) = {b} /\ b \in Int
  BY <1>3 DEF Members
<1>5. b \in Nets
  BY <1>1, <1>4 DEF Wired, Wire
<1>6. Driving(b) = {}
  BY <1>3, CellOfIs
<1>7. \A c \in Members(Cells) : b \notin Members(c.out)
  BY <1>6 DEF Members, Driving
<1>8. \A v \in InputVectors : b \notin Members(v)
  BY <1>1, <1>3 DEF Aliased
<1>9. b \notin Sources
  <2>1. b \notin UNION {Members(p.bits) : p \in Members(netlist.inputs)}
    BY <1>8 DEF InputVectors
  <2>2. ASSUME NEW i \in Members(Flops) \cup Members(Children) PROVE b \notin Members(Cells[i].out)
    <3>1. i \in DOMAIN Cells
      BY FlopsAndChildren DEF FlopsAre, ChildrenAre
    <3>2. Cells[i] \in Members(Cells)
      BY <3>1, CellsAre
    <3> QED BY <1>7, <3>2
  <2> HIDE DEF b
  <2> QED BY <2>1, <2>2 DEF Sources
<1> HIDE DEF b
<1> QED BY <1>5, <1>7, <1>9 DEF Undriven

LEMMA OneIs ==
  ASSUME Setting, NEW bits \in Seq(Int), NEW line \in Int, NEW st \in Translations, NEW path, NEW read,
         FitsAsk(Asked(bits, line, st, path), read)
  PROVE  /\ IsResult(OneExpr(bits, line, st, path, read))
         /\ Wired(bits) => OneGood(bits, line, st, OneExpr(bits, line, st, path, read))
<1> DEFINE i == CellOf(bits)
           r == OneExpr(bits, line, st, path, read)
<1>1. CASE IsLeaf(bits)
  <2>1. r = LeafExpr(bits, line, st)
    BY <1>1 DEF OneExpr
  <2> QED BY <1>1, <2>1, LeafIs
<1>2. CASE ~IsLeaf(bits) /\ i # 0
  <2>1. r = FromCell(bits, i, CellExpr(i, read, st, path))
    BY <1>2 DEF OneExpr
  <2>2. i \in DOMAIN Cells /\ (Cells[i].out = bits \/ (Len(bits) = 1 /\ bits[1] \in Members(Cells[i].out)))
    BY <1>2, CellOfIs
  <2>3. Asked(bits, line, st, path)
          = Ask(IF LooksInto(i, st, path) THEN Operands(Cells[i]) ELSE <<>>, Cells[i].line, st, path \cup {i})
    BY <1>2 DEF Asked
  <2> HIDE DEF i, r
  <2>4. LooksInto(i, st, path) => Fits(Operands(Cells[i]), Cells[i].line, st, read)
    BY <2>3, AskIs DEF FitsAsk
  <2>5. AllWired(Operands(Cells[i]))
    BY <2>2, OperandsAre DEF AllWired
  <2>6. LooksInto(i, st, path) =>
          AreResults(Operands(Cells[i]), read) /\ AllGood(Operands(Cells[i]), Cells[i].line, st, read)
    BY <2>4, <2>5 DEF Fits
  <2> DEFINE whole == CellExpr(i, read, st, path)
  <2>7. IsResult(whole) /\ CellGood(i, st, whole)
    BY <2>2, <2>6, CellIs
  <2> HIDE DEF whole
  <2>8. IsResult(FromCell(bits, i, whole)) /\ OneGood(bits, line, st, FromCell(bits, i, whole))
    BY <2>2, <2>7, FromCellIs
  <2> QED BY <2>1, <2>8 DEF whole, r
<1>3. CASE ~IsLeaf(bits) /\ i = 0 /\ Len(bits) > 1
  <2>1. r = Result(Joined(read.v), read.st)
    BY <1>3 DEF OneExpr
  <2>2. Asked(bits, line, st, path) = Ask(Singles(bits), line, st, path)
    BY <1>3 DEF Asked
  <2> HIDE DEF r, i
  <2>3. Fits(Singles(bits), line, st, read)
    BY <2>2, AskIs DEF FitsAsk
  <2>4. Wired(bits) => AllWired(Singles(bits))
    BY SinglesAre
  <2> QED BY <1>3, <2>1, <2>3, <2>4, PartsMean DEF Fits, r
<1>4. CASE ~IsLeaf(bits) /\ i = 0 /\ ~(Len(bits) > 1)
  <2> DEFINE next == [st EXCEPT !.overflow = TRUE]
  <2>1. r = Result(BV(1, 0), next)
    BY <1>4 DEF OneExpr
  <2>2. /\ st.cache \in [DOMAIN Cells -> [width : Nat, value : Nat]] /\ st.blocks \subseteq BlockKinds \X Int
        /\ st = [cache |-> st.cache, blocks |-> st.blocks, overflow |-> st.overflow]
    BY DEF Translations
  <2>3. next = [cache |-> st.cache, blocks |-> st.blocks, overflow |-> TRUE]
    <3>1. st = [cache |-> st.cache, blocks |-> st.blocks, overflow |-> st.overflow]
      BY <2>2
    <3>2. PICK s : s = st
      OBVIOUS
    <3>3. s = [cache |-> s.cache, blocks |-> s.blocks, overflow |-> s.overflow]
      BY <3>1, <3>2
    <3>4. PICK yes : yes = TRUE
      OBVIOUS
    <3>5. [s EXCEPT !.overflow = yes] = [cache |-> s.cache, blocks |-> s.blocks, overflow |-> yes]
      BY <3>3
    <3> QED BY <3>2, <3>4, <3>5, Zenon
  <2> HIDE DEF next
  <2>4. next \in Translations
    BY <2>2, <2>3 DEF Translations
  <2>5. next.blocks = st.blocks /\ next.overflow = TRUE
    BY <2>3
  <2>6. r.v = BV(1, 0) /\ r.st = next /\ r = Result(r.v, r.st)
    BY <2>1 DEF Result
  <2> HIDE DEF r
  <2>7. r.v \in Words
    BY <2>6, VectorIs
  <2>8. ~Trusted(r.st)
    BY <2>5, <2>6 DEF Trusted
  <2>9. Wired(bits) => Goes(st, r.st)
    BY <1>4, <2>5, <2>6, <2>8, UndrivenIs DEF Goes
  <2> QED BY <2>4, <2>6, <2>7, <2>8, <2>9 DEF IsResult, OneGood, r
<1> QED BY <1>1, <1>2, <1>3, <1>4

LEMMA AnswerIs ==
  ASSUME Setting, NEW vectors \in Seq(Seq(Int)), NEW line \in Int, NEW st \in Translations, NEW path, NEW walk,
         vectors # <<>> =>
           LET asked == Asked(Head(vectors), line, st, path)
               first == OneExpr(Head(vectors), line, st, path, walk[asked])
               rest == Ask(Tail(vectors), line, first.st, path)
           IN FitsAsk(asked, walk[asked]) /\ FitsAsk(rest, walk[rest])
  PROVE  Fits(vectors, line, st, Answer(walk, vectors, line, st, path))
<1> DEFINE r == Answer(walk, vectors, line, st, path)
<1>1. CASE vectors = <<>>
  <2>1. r = Result(<<>>, st)
    BY <1>1 DEF Answer
  <2>2. r.v = <<>> /\ r.st = st /\ r = Result(r.v, r.st)
    BY <2>1 DEF Result
  <2> HIDE DEF r
  <2>3. r.v \in Seq(Words) /\ Len(r.v) = Len(vectors) /\ DOMAIN vectors = {}
    BY <1>1, <2>2
  <2> QED BY <2>2, <2>3, GoesStill DEF Fits, AreResults, AllGood, r
<1>2. CASE vectors # <<>>
  <2> DEFINE bits == Head(vectors)
             more == Tail(vectors)
             asked == Asked(bits, line, st, path)
             first == OneExpr(bits, line, st, path, walk[asked])
             others == walk[Ask(more, line, first.st, path)]
  <2>1. bits \in Seq(Int) /\ more \in Seq(Seq(Int)) /\ Len(vectors) = Len(more) + 1 /\ Len(more) \in Nat /\ vectors[1] = bits
        /\ DOMAIN more = 1 .. Len(more) /\ DOMAIN vectors = 1 .. Len(more) + 1
    BY <1>2
  <2>2. \A n \in 1 .. Len(more) : vectors[n + 1] = more[n]
    BY <1>2
  <2>3. FitsAsk(asked, walk[asked]) /\ FitsAsk(Ask(more, line, first.st, path), others)
    BY <1>2
  <2>4. r = Result(<<first.v>> \o others.v, others.st)
    BY <1>2 DEF Answer, AndThen, Followed
  <2> HIDE DEF bits, more
  <2>5. IsResult(first) /\ (Wired(bits) => OneGood(bits, line, st, first))
    BY <2>1, <2>3, OneIs
  <2> HIDE DEF first, asked
  <2>6. Fits(more, line, first.st, others)
    BY <2>3, AskIs DEF FitsAsk
  <2> HIDE DEF others
  <2>7. r.v = <<first.v>> \o others.v /\ r.st = others.st /\ r = Result(r.v, r.st)
    BY <2>4 DEF Result
  <2> HIDE DEF r
  <2>8. first.v \in Words /\ others.v \in Seq(Words) /\ Len(others.v) = Len(more) /\ others.st \in Translations /\ first.st \in Translations
    BY <2>5, <2>6 DEF IsResult, Fits, AreResults
  <2>9. r.v \in Seq(Words) /\ Len(r.v) = Len(vectors) /\ r.v[1] = first.v /\ \A n \in 1 .. Len(more) : r.v[n + 1] = others.v[n]
    BY <2>1, <2>7, <2>8
  <2>10. ASSUME AllWired(vectors) PROVE AllGood(vectors, line, st, r)
    <3>1. Wired(bits)
      <4>1. bits \in Members(vectors)
        <5>1. 1 \in DOMAIN vectors /\ vectors[1] = bits
          BY <2>1
        <5> QED BY <5>1 DEF Members
      <4> QED BY <2>10, <4>1 DEF AllWired
    <3>2. AllWired(more)
      <4>1. ASSUME NEW n \in 1 .. Len(more) PROVE Wired(more[n])
        <5>1. n + 1 \in DOMAIN vectors
          BY <2>1
        <5>2. vectors[n + 1] \in Members(vectors)
          BY <5>1 DEF Members
        <5> QED BY <2>2, <2>10, <5>2 DEF AllWired
      <4> QED BY <2>1, <4>1 DEF AllWired, Members
    <3>3. OneGood(bits, line, st, first) /\ AllGood(more, line, first.st, others)
      BY <2>5, <2>6, <3>1, <3>2 DEF Fits
    <3>4. Goes(st, first.st) /\ Goes(first.st, others.st)
      BY <3>3 DEF OneGood, AllGood
    <3>5. Goes(st, others.st)
      BY <2>8, <3>4, GoesOn
    <3>6. ASSUME Trusted(others.st), Known(st.cache), NEW n \in DOMAIN vectors PROVE Stands(vectors[n], line, r.v[n])
      <4>1. Trusted(first.st)
        BY <2>8, <3>4, <3>6, TrustedBefore
      <4>2. Known(first.st.cache)
        BY <3>4, <3>6, <4>1 DEF Goes
      <4>3. CASE n = 1
        BY <2>1, <2>9, <3>3, <3>6, <4>1, <4>3 DEF OneGood
      <4>4. CASE n # 1
        <5>1. PICK m \in 1 .. Len(more) : n = m + 1
          <6>1. n - 1 \in 1 .. Len(more) /\ n = (n - 1) + 1
            BY <2>1, <4>4
          <6> QED BY <6>1
        <5>2. Stands(more[m], line, others.v[m])
          BY <2>1, <3>3, <3>6, <4>2 DEF AllGood
        <5> QED BY <2>2, <2>9, <5>1, <5>2
      <4> QED BY <4>3, <4>4
    <3> QED BY <2>7, <3>5, <3>6 DEF AllGood
  <2> QED BY <2>7, <2>8, <2>9, <2>10 DEF Fits, AreResults, r
<1> QED BY <1>1, <1>2

\* What is asked next is less: fewer cells are left, or only single bits are
\* asked for, or fewer vectors.
Room == [q \in Asks |-> Cardinality(DOMAIN Cells \ q.path)]
Long == [q \in Asks |-> IF \E n \in DOMAIN q.vectors : Len(q.vectors[n]) > 1 THEN 1 ELSE 0]
Count == [q \in Asks |-> Len(q.vectors)]
Below == {p \in Asks \X Asks : Before(p, Room, Long, Count)}

LEMMA AsksAre ==
  ASSUME NEW q \in Asks
  PROVE  /\ q.vectors \in Seq(Seq(Int)) /\ q.line \in Int /\ q.before \in Translations /\ q.path \in SUBSET DOMAIN Cells
         /\ q = Ask(q.vectors, q.line, q.before, q.path)
BY DEF Asks, Ask

LEMMA RanksAre == ASSUME Setting PROVE Room \in [Asks -> Nat] /\ Long \in [Asks -> Nat] /\ Count \in [Asks -> Nat]
<1>1. IsFiniteSet(DOMAIN Cells)
  BY CellsAre, FS_Interval
<1>2. ASSUME NEW q \in Asks PROVE Cardinality(DOMAIN Cells \ q.path) \in Nat
  BY <1>1, FS_Subset, FS_CardinalityType
<1>3. ASSUME NEW q \in Asks PROVE Len(q.vectors) \in Nat
  BY AsksAre
<1>4. Room \in [Asks -> Nat]
  BY <1>2 DEF Room
<1>5. Count \in [Asks -> Nat]
  BY <1>3 DEF Count
<1>6. Long \in [Asks -> Nat]
  BY DEF Long
<1> QED BY <1>4, <1>5, <1>6

LEMMA RestIsBelow ==
  ASSUME Setting, NEW q \in Asks, q.vectors # <<>>, NEW st \in Translations
  PROVE  <<Ask(Tail(q.vectors), q.line, st, q.path), q>> \in Below
<1> DEFINE s == q.vectors
           y == Ask(Tail(s), q.line, st, q.path)
<1>1. s \in Seq(Seq(Int)) /\ Len(s) \in Nat /\ Len(s) > 0 /\ Tail(s) \in Seq(Seq(Int)) /\ Len(Tail(s)) = Len(s) - 1
  BY AsksAre
<1>2. y \in Asks /\ y.vectors = Tail(s) /\ y.path = q.path
  <2>1. q.line \in Int /\ q.path \in SUBSET DOMAIN Cells
    BY AsksAre
  <2>2. y \in Asks
    BY <1>1, <2>1, AskIsOne
  <2>3. y.vectors = Tail(s) /\ y.path = q.path
    BY AskIs
  <2> QED BY <2>2, <2>3
<1>3. Long[y] = Long[q] \/ Long[y] < Long[q]
  <2>1. (\E n \in DOMAIN Tail(s) : Len(Tail(s)[n]) > 1) => \E n \in DOMAIN s : Len(s[n]) > 1
    <3> SUFFICES ASSUME NEW n \in DOMAIN Tail(s), Len(Tail(s)[n]) > 1 PROVE \E m \in DOMAIN s : Len(s[m]) > 1
      OBVIOUS
    <3>1. n + 1 \in DOMAIN s /\ Tail(s)[n] = s[n + 1]
      BY <1>1
    <3> QED BY <3>1
  <2>2. Long[y] = IF \E n \in DOMAIN Tail(s) : Len(Tail(s)[n]) > 1 THEN 1 ELSE 0
    <3> HIDE DEF y
    <3> QED BY <1>2 DEF Long
  <2>3. Long[q] = IF \E n \in DOMAIN s : Len(s[n]) > 1 THEN 1 ELSE 0
    BY DEF Long
  <2> DEFINE some == \E n \in DOMAIN Tail(s) : Len(Tail(s)[n]) > 1
             all == \E n \in DOMAIN s : Len(s[n]) > 1
  <2> HIDE DEF some, all, y, s
  <2> QED BY <2>1, <2>2, <2>3 DEF some, all
<1>4. Room[y] = Room[q] /\ Count[y] < Count[q]
  <2>1. Count[q] = Len(s)
    BY DEF Count
  <2> HIDE DEF y, s
  <2>2. Room[y] = Room[q]
    BY <1>2 DEF Room
  <2>3. Count[y] = Len(Tail(s))
    BY <1>2 DEF Count
  <2> QED BY <1>1, <2>1, <2>2, <2>3
<1> HIDE DEF y
<1>5. <<y, q>> \in Asks \X Asks /\ Before(<<y, q>>, Room, Long, Count)
  BY <1>2, <1>3, <1>4 DEF Before
<1> QED BY <1>5 DEF Below, y

LEMMA AskedIsBelow ==
  ASSUME Setting, NEW q \in Asks, q.vectors # <<>>
  PROVE  <<Asked(Head(q.vectors), q.line, q.before, q.path), q>> \in Below
<1> DEFINE s == q.vectors
           bits == Head(s)
           i == CellOf(bits)
           y == Asked(bits, q.line, q.before, q.path)
<1>1. s \in Seq(Seq(Int)) /\ Len(s) \in Nat /\ Len(s) > 0 /\ bits \in Seq(Int) /\ 1 \in DOMAIN s /\ s[1] = bits
  BY AsksAre
<1>2. q.line \in Int /\ q.before \in Translations /\ q.path \in SUBSET DOMAIN Cells
  BY AsksAre
<1>3. ASSUME NEW line \in Int, y = Ask(<<>>, line, q.before, q.path) PROVE <<y, q>> \in Below
  <2>1. <<>> \in Seq(Seq(Int)) /\ Len(<<>>) = 0 /\ DOMAIN <<>> = {}
    OBVIOUS
  <2> HIDE DEF y
  <2>2. y \in Asks /\ y.vectors = <<>> /\ y.path = q.path
    <3>1. Ask(<<>>, line, q.before, q.path) \in Asks
      BY <1>2, <2>1, AskIsOne
    <3>2. Ask(<<>>, line, q.before, q.path).vectors = <<>> /\ Ask(<<>>, line, q.before, q.path).path = q.path
      BY AskIs
    <3> QED BY <1>3, <3>1, <3>2
  <2>3. Room[y] = Room[q] /\ Count[y] < Count[q]
    BY <1>1, <2>1, <2>2 DEF Room, Count
  <2>4. Long[y] = Long[q] \/ Long[y] < Long[q]
    <3>1. Long[y] = 0
      BY <2>1, <2>2 DEF Long
    <3>2. Long[q] \in {0, 1}
      BY DEF Long
    <3> QED BY <3>1, <3>2
  <2>5. <<y, q>> \in Asks \X Asks /\ Before(<<y, q>>, Room, Long, Count)
    BY <2>2, <2>3, <2>4 DEF Before
  <2>6. <<y, q>> \in Below
    BY <2>5 DEF Below
  <2> QED BY <2>6 DEF y
<1>4. CASE IsLeaf(bits)
  <2>1. y = Ask(<<>>, q.line, q.before, q.path)
    BY <1>4 DEF Asked
  <2> QED BY <1>2, <1>3, <2>1
<1>5. CASE ~IsLeaf(bits) /\ i # 0
  <2> DEFINE o == IF LooksInto(i, q.before, q.path) THEN Operands(Cells[i]) ELSE <<>>
  <2>1. y = Ask(o, Cells[i].line, q.before, q.path \cup {i})
    BY <1>5 DEF Asked
  <2>2. i \in DOMAIN Cells
    BY <1>5, CellOfIs
  <2>3. Cells[i].line \in Int
    BY <2>2, CellsAre DEF CellFacts
  <2>4. CASE i \in q.path
    <3>1. o = <<>>
      BY <2>4 DEF LooksInto
    <3>2. q.path \cup {i} = q.path
      BY <2>4
    <3>3. PICK at : at = Cells[i].line
      OBVIOUS
    <3>4. at \in Int /\ y = Ask(<<>>, at, q.before, q.path)
      <4> HIDE DEF y, o, i
      <4> QED BY <2>1, <2>3, <3>1, <3>2, <3>3
    <3> HIDE DEF y, o
    <3>5. <<y, q>> \in Below
      BY <1>3, <3>4
    <3> QED BY <3>5 DEF y
  <2>5. CASE i \notin q.path
    <3>1. o \in Seq(Seq(Int))
      BY <2>2, OperandsAre
    <3> HIDE DEF y, o, i
    <3>2. q.path \cup {i} \in SUBSET DOMAIN Cells
      BY <1>2, <2>2
    <3>3. y \in Asks /\ y.path = q.path \cup {i}
      BY <1>2, <2>1, <2>3, <3>1, <3>2, AskIsOne, AskIs
    <3>4. Room[y] < Room[q]
      <4> DEFINE A == DOMAIN Cells \ q.path
                 B == DOMAIN Cells \ y.path
      <4>1. IsFiniteSet(A) /\ Cardinality(A) \in Nat
        <5>1. IsFiniteSet(DOMAIN Cells)
          BY CellsAre, FS_Interval
        <5>2. A \in SUBSET DOMAIN Cells
          OBVIOUS
        <5> QED BY <5>1, <5>2, FS_Subset, FS_CardinalityType
      <4>2. B \in SUBSET A /\ B # A
        BY <2>2, <2>5, <3>3
      <4> HIDE DEF A, B
      <4>3. Cardinality(B) <= Cardinality(A) /\ (Cardinality(A) = Cardinality(B) => A = B) /\ IsFiniteSet(B)
        BY <4>1, <4>2, FS_Subset
      <4>4. Cardinality(B) \in Nat
        BY <4>3, FS_CardinalityType
      <4>5. Cardinality(B) < Cardinality(A)
        BY <4>1, <4>2, <4>3, <4>4
      <4> QED BY <3>3, <4>5 DEF Room, A, B
    <3>5. <<y, q>> \in Asks \X Asks /\ Before(<<y, q>>, Room, Long, Count)
      BY <3>3, <3>4 DEF Before
    <3>6. <<y, q>> \in Below
      BY <3>5 DEF Below
    <3> QED BY <3>6 DEF y
  <2> QED BY <2>4, <2>5
<1>6. CASE ~IsLeaf(bits) /\ i = 0 /\ Len(bits) > 1
  <2>1. y = Ask(Singles(bits), q.line, q.before, q.path)
    BY <1>6 DEF Asked
  <2>2. Singles(bits) \in Seq(Seq(Int)) /\ Len(Singles(bits)) = Len(bits)
    BY <1>1, SinglesAre
  <2>3. y \in Asks /\ y.vectors = Singles(bits) /\ y.path = q.path
    BY <1>2, <2>1, <2>2, AskIsOne, AskIs
  <2>4. Room[y] = Room[q]
    BY <2>3 DEF Room
  <2>5. ASSUME NEW n \in DOMAIN Singles(bits) PROVE Len(Singles(bits)[n]) = 1
    <3>1. n \in 1 .. Len(bits)
      <4>1. PICK t : t = Singles(bits)
        OBVIOUS
      <4>2. t \in Seq(Seq(Int)) /\ Len(t) = Len(bits) /\ n \in DOMAIN t
        BY <2>2, <4>1
      <4>3. DOMAIN t = 1 .. Len(bits)
        BY <4>2
      <4> QED BY <4>2, <4>3
    <3> QED BY <1>1, <3>1, SinglesAre
  <2>6. Long[y] = 0
    <3>1. y \in Asks => Long[y] = IF \E n \in DOMAIN y.vectors : Len(y.vectors[n]) > 1 THEN 1 ELSE 0
      <4> HIDE DEF y
      <4> QED BY DEF Long
    <3>2. ~\E n \in DOMAIN Singles(bits) : Len(Singles(bits)[n]) > 1
      <4> SUFFICES ASSUME NEW n \in DOMAIN Singles(bits), Len(Singles(bits)[n]) > 1 PROVE FALSE
        OBVIOUS
      <4>1. Len(Singles(bits)[n]) = 1
        BY <2>5
      <4>2. PICK one : one = Singles(bits)[n]
        OBVIOUS
      <4>3. Len(one) = 1 /\ Len(one) > 1
        BY <4>1, <4>2
      <4> HIDE DEF bits
      <4> QED BY <4>3
    <3>3. ~\E n \in DOMAIN y.vectors : Len(y.vectors[n]) > 1
      <4> HIDE DEF y, bits
      <4> QED BY <2>3, <3>2
    <3> HIDE DEF y, bits
    <3> QED BY <2>3, <3>1, <3>3
  <2> HIDE DEF y, bits
  <2>7. Long[q] = 1
    BY <1>1, <1>6 DEF Long
  <2>8. <<y, q>> \in Asks \X Asks /\ Before(<<y, q>>, Room, Long, Count)
    BY <2>3, <2>4, <2>6, <2>7 DEF Before
  <2> QED BY <2>8 DEF Below, y, bits
<1>7. CASE ~IsLeaf(bits) /\ i = 0 /\ ~(Len(bits) > 1)
  <2>1. y = Ask(<<>>, q.line, q.before, q.path)
    BY <1>7 DEF Asked
  <2> QED BY <1>2, <1>3, <2>1
<1> QED BY <1>4, <1>5, <1>6, <1>7

\* An answer fits when what it reads fits, and is the same for the same reading.
Step(walk, q) == Answer(walk, q.vectors, q.line, q.before, q.path)
Replies == [v : Seq(Words), st : Translations]
LEMMA StepIs ==
  ASSUME Setting, NEW q \in Asks, NEW f, \A y \in Asks : <<y, q>> \in Below => FitsAsk(y, f[y])
  PROVE  /\ FitsAsk(q, Step(f, q)) /\ Step(f, q) \in Replies
         /\ \A g : (\A y \in Asks : <<y, q>> \in Below => f[y] = g[y]) => Step(f, q) = Step(g, q)
<1> DEFINE s == q.vectors
           line == q.line
           asked == Asked(Head(s), line, q.before, q.path)
           first(w) == OneExpr(Head(s), line, q.before, q.path, w[asked])
           rest(w) == Ask(Tail(s), line, first(w).st, q.path)
<1>1. s \in Seq(Seq(Int)) /\ line \in Int /\ q.before \in Translations
  BY AsksAre
<1>2. ASSUME s # <<>>
      PROVE  asked \in Asks /\ <<asked, q>> \in Below /\ rest(f) \in Asks /\ <<rest(f), q>> \in Below
  <2>1. asked \in Asks /\ <<asked, q>> \in Below
    <3>1. <<asked, q>> \in Below
      BY <1>2, AskedIsBelow
    <3> HIDE DEF asked
    <3> QED BY <3>1 DEF Below
  <2>2. FitsAsk(asked, f[asked])
    <3> HIDE DEF asked
    <3> QED BY <2>1
  <2>3. Head(s) \in Seq(Int)
    BY <1>1, <1>2
  <2>4. first(f).st \in Translations
    BY <1>1, <2>2, <2>3, OneIs DEF IsResult
  <2> HIDE DEF first, asked
  <2>5. <<rest(f), q>> \in Below
    BY <1>2, <2>4, RestIsBelow
  <2> HIDE DEF rest
  <2> QED BY <2>1, <2>5 DEF Below
<1>3. Fits(s, line, q.before, Answer(f, s, line, q.before, q.path))
  <2>1. s # <<>> => FitsAsk(asked, f[asked]) /\ FitsAsk(rest(f), f[rest(f)])
    <3> HIDE DEF asked, rest
    <3> QED BY <1>2
  <2> QED BY <1>1, <2>1, AnswerIs
<1>4. FitsAsk(q, Step(f, q))
  BY <1>3 DEF FitsAsk, Step
<1>5. Step(f, q) \in Replies
  <2> DEFINE r == Step(f, q)
  <2>1. AreResults(s, r)
    BY <1>3 DEF Step, Fits
  <2> HIDE DEF r
  <2>2. r = [v |-> r.v, st |-> r.st] /\ r.v \in Seq(Words) /\ r.st \in Translations
    BY <2>1 DEF AreResults, Result
  <2> QED BY <2>2 DEF Replies, r
<1>6. ASSUME NEW g, \A y \in Asks : <<y, q>> \in Below => f[y] = g[y] PROVE Step(f, q) = Step(g, q)
  <2>1. CASE s = <<>>
    BY <2>1 DEF Step, Answer
  <2>2. CASE s # <<>>
    <3>1. f[asked] = g[asked]
      <4> HIDE DEF asked
      <4> QED BY <1>2, <1>6, <2>2
    <3>2. first(f) = first(g)
      BY <3>1
    <3>3. rest(f) = rest(g)
      <4> HIDE DEF first
      <4> QED BY <3>2
    <3>4. f[rest(f)] = g[rest(f)]
      <4> HIDE DEF rest
      <4> QED BY <1>2, <1>6, <2>2
    <3>5. \A w : Step(w, q) = Followed(first(w).v, w[rest(w)])
      BY <2>2 DEF Step, Answer, AndThen
    <3> HIDE DEF first, rest
    <3>6. f[rest(f)] = g[rest(g)]
      BY <3>3, <3>4
    <3> QED BY <3>2, <3>5, <3>6
  <2> QED BY <2>1, <2>2
<1> QED BY <1>4, <1>5, <1>6

\* The walk: its recursion has a solution, and every solution fits.
LEMMA ExprsAre ==
  ASSUME Setting, NEW vectors \in Seq(Seq(Int)), NEW line \in Int, NEW st \in Translations
  PROVE  Fits(vectors, line, st, Exprs(vectors, line, st, {}))
<1> DEFINE Body(w) == [q \in Asks |-> Step(w, q)]
           walk == CHOOSE w : w = Body(w)
           T == [q \in Asks |-> {r \in Replies : FitsAsk(q, r)}]
           none == Result(<<>>, st)
           F == [w \in [Asks -> Replies] |-> [q \in Asks |-> IF Step(w, q) \in Replies THEN Step(w, q) ELSE none]]
           start == Ask(vectors, line, st, {})
<1>1. Exprs(vectors, line, st, {}) = walk[start]
  BY DEF Exprs, Step
<1>2. Founded(Below, Asks)
  BY RanksAre, RanksFound DEF Below
<1>3. none \in Replies
  <2>1. <<>> \in Seq(Words)
    OBVIOUS
  <2> QED BY <2>1 DEF Replies, Result
<1>4. DeterminedBy(F, T, Below, Asks, Replies)
  <2>1. F \in [[Asks -> Replies] -> [Asks -> Replies]]
    <3>1. ASSUME NEW w \in [Asks -> Replies], NEW q \in Asks
          PROVE  (IF Step(w, q) \in Replies THEN Step(w, q) ELSE none) \in Replies
      BY <1>3
    <3> HIDE DEF none
    <3> QED BY <3>1
  <2>2. \A q \in Asks : T[q] \subseteq Replies
    OBVIOUS
  <2>3. ASSUME NEW f \in [Asks -> Replies], NEW g \in [Asks -> Replies], NEW q \in Asks,
               \A y \in Asks : <<y, q>> \in Below => f[y] = g[y] /\ f[y] \in T[y]
        PROVE  F[f][q] = F[g][q] /\ F[f][q] \in T[q]
    <3>1. \A y \in Asks : <<y, q>> \in Below => FitsAsk(y, f[y])
      BY <2>3
    <3>2. FitsAsk(q, Step(f, q)) /\ Step(f, q) \in Replies
      BY <3>1, StepIs
    <3>3. Step(f, q) = Step(g, q)
      <4>1. \A y \in Asks : <<y, q>> \in Below => f[y] = g[y]
        BY <2>3
      <4> QED BY <3>1, <4>1, StepIs
    <3>4. F[f][q] = Step(f, q) /\ F[g][q] = Step(g, q)
      BY <3>2, <3>3
    <3>5. Step(f, q) \in T[q]
      BY <3>2
    <3> HIDE DEF F, T
    <3> QED BY <3>3, <3>4, <3>5
  <2> HIDE DEF F, T
  <2> QED BY <2>1, <2>2, <2>3 DEF DeterminedBy
<1>5. PICK w \in [Asks -> Replies] : w = F[w] /\ \A q \in Asks : w[q] \in T[q]
  <2> HIDE DEF F, T, none
  <2> QED BY <1>2, <1>3, <1>4, FoundedRecursion
<1>6. w = Body(w)
  <2>1. ASSUME NEW q \in Asks PROVE w[q] = Step(w, q)
    <3>1. \A y \in Asks : FitsAsk(y, w[y])
      BY <1>5
    <3>2. Step(w, q) \in Replies
      BY <3>1, StepIs
    <3>3. F[w][q] = Step(w, q)
      BY <3>2
    <3> HIDE DEF F, T
    <3> QED BY <1>5, <3>3
  <2>2. w = [q \in Asks |-> w[q]]
    BY <1>5
  <2> HIDE DEF F, T
  <2> QED BY <2>1, <2>2
<1>7. walk = Body(walk)
  <2> HIDE DEF Body
  <2> QED BY <1>6
<1> HIDE DEF walk
<1>8. \A q \in Asks : walk[q] = Step(walk, q)
  <2>1. \A q \in Asks : Body(walk)[q] = Step(walk, q)
    OBVIOUS
  <2> HIDE DEF Body
  <2> QED BY <1>7, <2>1
<1> DEFINE Bad == {q \in Asks : ~FitsAsk(q, walk[q])}
<1>9. Bad = {}
  <2>1. SUFFICES ASSUME Bad # {} PROVE FALSE
    OBVIOUS
  <2>2. PICK q \in Bad : \A y \in Bad : <<y, q>> \notin Below
    <3>1. Bad \in SUBSET Asks
      OBVIOUS
    <3> HIDE DEF Bad
    <3> QED BY <1>2, <2>1, <3>1 DEF Founded
  <2>3. \A y \in Asks : <<y, q>> \in Below => FitsAsk(y, walk[y])
    BY <2>2
  <2>4. FitsAsk(q, Step(walk, q))
    BY <2>3, StepIs
  <2> QED BY <1>8, <2>4
<1>10. start \in Asks
  BY AskIsOne
<1>11. FitsAsk(start, walk[start])
  <2> HIDE DEF start
  <2> QED BY <1>9, <1>10
<1> QED BY <1>1, <1>11, AskIs DEF FitsAsk

--------------------------------------------------------------------------------
(* Modules: what a translation has done so far is right, and what it has not   *)
(* blocked is what the netlist means.                                       *)

\* What the emitted expressions start from, and what they depend on.
Emitted ==
  Members(Flops) \cup (UNION {Feeding(p.bits) : p \in Members(netlist.outputs)})
    \cup (UNION {UNION {Feeding(v) : v \in Members(Controls(Cells[i]))} : i \in Members(Flops)})
    \cup (UNION {Feeding(Cells[i].A) : i \in Members(Children)})
Fed(set) == set \cup (UNION {FeedingCell(i) : i \in set})
LEMMA NeededUnfolds ==
  ASSUME Setting
  PROVE  \E s : /\ s \in [0 .. Len(Cells) -> SUBSET DOMAIN Cells] /\ s[0] = Emitted
                /\ \A i \in 1 .. Len(Cells) : s[i] = Fed(s[i - 1])
                /\ Needed = s[Len(Cells)]
<1> DEFINE N == Len(Cells)
           R == SUBSET DOMAIN Cells
           base == Emitted
           ValueAt(f, i) == IF i = 0 THEN base ELSE Fed(f[i - 1])
           Body(f) == [i \in 0 .. N |-> ValueAt(f, i)]
           f == CHOOSE h : h = Body(h)
           Stage == [p \in (1 .. N) \X R |-> Fed(p[2])]
<1>1. N \in Nat
  BY CellsAre
<1>2. Needed = f[N]
  BY DEF Needed, Fed, Emitted
<1> HIDE DEF N
<1>3. Stage \in [(1 .. N) \X R -> R] /\ base \in R
  <2>1. ASSUME NEW r \in R PROVE Fed(r) \in R
    BY FeedingIs DEF Fed
  <2>2. base \in R
    <3>1. Members(Flops) \subseteq DOMAIN Cells
      BY FlopsAndChildren DEF FlopsAre
    <3> QED BY <3>1, FeedingIs DEF Emitted
  <2> HIDE DEF R, base
  <2> QED BY <2>1, <2>2
<1> HIDE DEF R, base
<1>4. PICK g : Stepped(g, R, base, Stage, N)
  <2> HIDE DEF Stage
  <2> QED BY <1>1, <1>3, Iteration
<1>5. g \in [0 .. N -> R] /\ g[0] = base /\ \A i \in 1 .. N : g[i] = Stage[<<i, g[i - 1]>>]
  <2> HIDE DEF Stage
  <2> QED BY <1>4 DEF Stepped
<1>6. ASSUME NEW i \in 1 .. N PROVE g[i] = Fed(g[i - 1])
  <2>1. i - 1 \in 0 .. N
    BY <1>1
  <2>2. g[i - 1] \in R
    BY <1>5, <2>1
  <2>3. Stage[<<i, g[i - 1]>>] = Fed(g[i - 1])
    BY <2>2
  <2> HIDE DEF Stage
  <2> QED BY <1>5, <2>3
<1>7. g = Body(g)
  <2>1. ASSUME NEW i \in 0 .. N PROVE g[i] = ValueAt(g, i)
    BY <1>1, <1>5, <1>6
  <2> HIDE DEF ValueAt
  <2> QED BY <1>5, <2>1
<1>8. f = Body(f)
  <2> HIDE DEF Body
  <2> QED BY <1>7
<1> HIDE DEF f
<1>9. DOMAIN f = 0 .. N /\ f[0] = base /\ \A i \in 1 .. N : f[i] = Fed(f[i - 1])
  <2>1. DOMAIN Body(f) = 0 .. N /\ \A i \in 0 .. N : Body(f)[i] = ValueAt(f, i)
    <3> HIDE DEF ValueAt
    <3> QED OBVIOUS
  <2>2. DOMAIN f = 0 .. N /\ \A i \in 0 .. N : f[i] = ValueAt(f, i)
    <3> HIDE DEF Body, ValueAt
    <3> QED BY <1>8, <2>1
  <2>3. 0 \in 0 .. N /\ \A i \in 1 .. N : i \in 0 .. N /\ i # 0
    BY <1>1
  <2> HIDE DEF Body
  <2> QED BY <2>2, <2>3
<1>10. \A i \in 0 .. N : f[i] = g[i]
  <2> DEFINE S == {i \in Nat : i <= N => f[i] = g[i]}
  <2>1. 0 \in S
    BY <1>5, <1>9
  <2>2. ASSUME NEW i \in S PROVE i + 1 \in S
    <3> SUFFICES ASSUME i + 1 <= N PROVE f[i + 1] = g[i + 1]
      OBVIOUS
    <3>1. PICK m : m = i + 1
      OBVIOUS
    <3>2. m \in 1 .. N /\ m - 1 = i /\ i <= N
      BY <1>1, <3>1
    <3>3. f[m] = Fed(f[i]) /\ g[m] = Fed(g[i])
      BY <1>6, <1>9, <3>2
    <3> QED BY <3>1, <3>2, <3>3
  <2>3. S = Nat
    <3> HIDE DEF S
    <3>1. S \subseteq Nat
      BY DEF S
    <3> QED BY <2>1, <2>2, <3>1, SetInduction
  <2> QED BY <1>1, <2>3
<1>11. f \in [0 .. N -> R] /\ f[0] = base /\ \A i \in 1 .. N : f[i] = Fed(f[i - 1])
  <2>1. f = [i \in 0 .. N |-> f[i]]
    <3>1. Body(f) = [i \in 0 .. N |-> Body(f)[i]]
      OBVIOUS
    <3> HIDE DEF Body
    <3> QED BY <1>8, <3>1
  <2> QED BY <1>5, <1>9, <1>10, <2>1
<1> QED BY <1>2, <1>11 DEF N, R, base

\* When every emitted expression starts from what is settled, all it needs is.
LEMMA NeededIs == ASSUME Setting, Emitted \subseteq Settled PROVE Needed \subseteq Settled
<1>1. PICK s : /\ s[0] = Emitted /\ Needed = s[Len(Cells)]
               /\ \A i \in 1 .. Len(Cells) : s[i] = Fed(s[i - 1])
  BY NeededUnfolds
<1>2. ASSUME NEW set, set \subseteq Settled PROVE Fed(set) \subseteq Settled
  <2>1. ASSUME NEW i \in set PROVE FeedingCell(i) \subseteq Settled
    <3>1. CASE i \in Combinational
      BY <1>2, <3>1, SettledIs DEF ClosedUnder
    <3>2. CASE i \notin Combinational
      BY <3>2 DEF FeedingCell
    <3> QED BY <3>1, <3>2
  <2> QED BY <1>2, <2>1 DEF Fed
<1> DEFINE N == Len(Cells)
           S == {i \in Nat : i <= N => s[i] \subseteq Settled}
<1>3. N \in Nat
  BY CellsAre
<1> HIDE DEF N
<1>4. 0 \in S
  BY <1>1
<1>5. ASSUME NEW i \in S PROVE i + 1 \in S
  <2> SUFFICES ASSUME i + 1 <= N PROVE s[i + 1] \subseteq Settled
    OBVIOUS
  <2>1. PICK m : m = i + 1
    OBVIOUS
  <2>2. m \in 1 .. N /\ m - 1 = i /\ i <= N
    BY <1>3, <2>1
  <2>3. s[m] = Fed(s[i]) /\ s[i] \subseteq Settled
    BY <1>1, <2>2 DEF N
  <2> QED BY <1>2, <2>1, <2>3
<1>6. S = Nat
  <2> HIDE DEF S
  <2>1. S \subseteq Nat
    BY DEF S
  <2> QED BY <1>4, <1>5, <2>1, SetInduction
<1> QED BY <1>1, <1>3, <1>6 DEF N

--------------------------------------------------------------------------------
\* A register: its next value from what its controls read.
LEMMA JoinOne ==
  ASSUME NEW S, NEW s \in Seq(S), NEW x \in S, NEW t \in Seq(S),
         Len(t) = Len(s) + 1, t[Len(t)] = x, \A i \in 1 .. Len(s) : t[i] = s[i]
  PROVE  s \o <<x>> = t
<1>1. PICK q : q = <<x>>
  OBVIOUS
<1>2. q \in Seq(S) /\ Len(q) = 1 /\ q[1] = x
  BY <1>1
<1>3. PICK r : r = s \o q
  OBVIOUS
<1>4. r \in Seq(S) /\ Len(r) = Len(s) + 1 /\ \A i \in 1 .. Len(s) + 1 : r[i] = IF i <= Len(s) THEN s[i] ELSE q[i - Len(s)]
  <2>1. q \in Seq(S)
    BY <1>2
  <2>2. s \o q \in Seq(S) /\ Len(s \o q) = Len(s) + Len(q)
        /\ \A i \in 1 .. Len(s) + Len(q) : (s \o q)[i] = IF i <= Len(s) THEN s[i] ELSE q[i - Len(s)]
    BY <2>1, ConcatProperties
  <2> QED BY <1>2, <1>3, <2>2
<1>5. ASSUME NEW i \in 1 .. Len(t) PROVE r[i] = t[i]
  <2>1. Len(s) \in Nat
    OBVIOUS
  <2>2. CASE i <= Len(s)
    BY <1>4, <2>1, <2>2
  <2>3. CASE i = Len(s) + 1
    <3>1. i - Len(s) = 1
      BY <2>1, <2>3
    <3> QED BY <1>2, <1>4, <2>1, <2>3, <3>1
  <2> QED BY <2>1, <2>2, <2>3
<1>6. r = t
  BY <1>4, <1>5, SeqEqual
<1> QED BY <1>1, <1>3, <1>6
LEMMA PairIs ==
  ASSUME NEW S, NEW x \in S, NEW y \in S
  PROVE  <<x>> \o <<y>> = <<x, y>>
<1>1. PICK p : p = <<x>>
  OBVIOUS
<1>2. PICK t : t = <<x, y>>
  OBVIOUS
<1>3. p \in Seq(S) /\ Len(p) = 1 /\ p[1] = x
  BY <1>1
<1>4. t \in Seq(S) /\ Len(t) = 2 /\ t[1] = x /\ t[2] = y
  BY <1>2
<1>5. p \o <<y>> = t
  <2>1. \A i \in 1 .. Len(p) : t[i] = p[i]
    BY <1>3, <1>4
  <2>2. Len(t) = Len(p) + 1
    BY <1>3, <1>4
  <2> QED BY <1>3, <1>4, <2>1, <2>2, JoinOne
<1> QED BY <1>1, <1>2, <1>5
LEMMA TripleIs ==
  ASSUME NEW S, NEW x \in S, NEW y \in S, NEW z \in S
  PROVE  <<x, y>> \o <<z>> = <<x, y, z>>
<1>1. PICK p : p = <<x, y>>
  OBVIOUS
<1>2. PICK t : t = <<x, y, z>>
  OBVIOUS
<1>3. p \in Seq(S) /\ Len(p) = 2 /\ p[1] = x /\ p[2] = y
  BY <1>1
<1>4. t \in Seq(S) /\ Len(t) = 3 /\ t[1] = x /\ t[2] = y /\ t[3] = z
  BY <1>2
<1>5. p \o <<z>> = t
  <2>1. \A i \in 1 .. Len(p) : t[i] = p[i]
    BY <1>3, <1>4
  <2>2. Len(t) = Len(p) + 1
    BY <1>3, <1>4
  <2> QED BY <1>3, <1>4, <2>1, <2>2, JoinOne
<1> QED BY <1>1, <1>2, <1>5

LEMMA ControlsAre ==
  ASSUME Setting, NEW i \in DOMAIN Cells
  PROVE  /\ Controls(Cells[i]) \in Seq(Seq(Int)) /\ Len(Controls(Cells[i])) \in 1 .. 3
         /\ AllWired(Controls(Cells[i]))
         /\ Cells[i].kind = "$dff" => Controls(Cells[i]) = <<Cells[i].A>>
         /\ Cells[i].kind = "$dffe" => Controls(Cells[i]) = <<Cells[i].A, Cells[i].B>>
         /\ Cells[i].kind = "$sdff" => Controls(Cells[i]) = <<Cells[i].A, Cells[i].S>>
         /\ Cells[i].kind \in {"$sdffe", "$sdffce"} => Controls(Cells[i]) = <<Cells[i].A, Cells[i].B, Cells[i].S>>
<1>1. PICK c : c = Cells[i]
  OBVIOUS
<1>2. c.A \in Seq(Int) /\ c.B \in Seq(Int) /\ c.S \in Seq(Int) /\ c \in Members(Cells)
  BY <1>1, CellsAre DEF CellFacts
<1>3. c.A \in Read /\ c.B \in Read /\ c.S \in Read
  BY <1>2 DEF Read
<1>4. Wired(c.A) /\ Wired(c.B) /\ Wired(c.S)
  BY <1>2, <1>3, ReadIsWired
<1> DEFINE o == Controls(c)
           b == IF c.kind \in Enabled THEN <<c.B>> ELSE <<>>
           s == IF c.kind \in Resets THEN <<c.S>> ELSE <<>>
<1>5. o = <<c.A>> \o b \o s
  BY DEF Controls
<1>6. /\ <<c.A>> \o <<>> \o <<>> = <<c.A>> /\ <<c.A>> \o <<c.B>> \o <<>> = <<c.A, c.B>>
      /\ <<c.A>> \o <<>> \o <<c.S>> = <<c.A, c.S>> /\ <<c.A>> \o <<c.B>> \o <<c.S>> = <<c.A, c.B, c.S>>
  <2> SUFFICES ASSUME NEW x \in Seq(Int), NEW y \in Seq(Int), NEW z \in Seq(Int)
               PROVE  /\ <<x>> \o <<>> \o <<>> = <<x>> /\ <<x>> \o <<y>> \o <<>> = <<x, y>>
                      /\ <<x>> \o <<>> \o <<z>> = <<x, z>> /\ <<x>> \o <<y>> \o <<z>> = <<x, y, z>>
    BY <1>2
  <2>1. <<x>> \o <<y>> = <<x, y>> /\ <<x>> \o <<z>> = <<x, z>> /\ <<x, y>> \o <<z>> = <<x, y, z>>
    BY PairIs, TripleIs
  <2>2. <<x>> \in Seq(Seq(Int)) /\ <<x, y>> \in Seq(Seq(Int))
    OBVIOUS
  <2>3. <<x>> \o <<>> = <<x>> /\ <<x, y>> \o <<>> = <<x, y>>
    BY <2>2, ConcatEmptySeq
  <2> QED BY <2>1, <2>3
<1>7. \/ o = <<c.A>> \/ o = <<c.A, c.B>> \/ o = <<c.A, c.S>> \/ o = <<c.A, c.B, c.S>>
  <2>1. (b = <<c.B>> \/ b = <<>>) /\ (s = <<c.S>> \/ s = <<>>)
    OBVIOUS
  <2> HIDE DEF o, b, s
  <2> QED BY <1>5, <1>6, <2>1
<1> HIDE DEF o
<1>8. o \in Seq(Seq(Int)) /\ Len(o) \in 1 .. 3
  <2> SUFFICES ASSUME NEW x \in Seq(Int), NEW y \in Seq(Int), NEW z \in Seq(Int),
                      o = <<x>> \/ o = <<x, y>> \/ o = <<x, y, z>>
               PROVE  o \in Seq(Seq(Int)) /\ Len(o) \in 1 .. 3
    BY <1>2, <1>7
  <2>1. <<x>> \in Seq(Seq(Int)) /\ <<x, y>> \in Seq(Seq(Int)) /\ <<x, y, z>> \in Seq(Seq(Int))
    OBVIOUS
  <2>2. CASE o = <<x>>
    <3>1. Len(o) = 1
      BY <2>2
    <3> QED BY <2>1, <2>2, <3>1
  <2>3. CASE o = <<x, y>>
    <3>1. Len(o) = 2
      BY <2>3
    <3> QED BY <2>1, <2>3, <3>1
  <2>4. CASE o = <<x, y, z>>
    <3>1. Len(o) = 3
      BY <2>4
    <3> QED BY <2>1, <2>4, <3>1
  <2> QED BY <2>2, <2>3, <2>4
<1>9. AllWired(o)
  <2>1. Members(o) \subseteq {c.A, c.B, c.S}
    BY <1>7 DEF Members
  <2> QED BY <1>4, <2>1 DEF AllWired
<1>10. /\ c.kind = "$dff" => o = <<c.A>>
       /\ c.kind = "$dffe" => o = <<c.A, c.B>>
       /\ c.kind = "$sdff" => o = <<c.A, c.S>>
       /\ c.kind \in {"$sdffe", "$sdffce"} => o = <<c.A, c.B, c.S>>
  <2>1. c.kind = "$dff" => b = <<>> /\ s = <<>>
    BY DEF Enabled, Resets
  <2>2. c.kind = "$dffe" => b = <<c.B>> /\ s = <<>>
    BY DEF Enabled, Resets
  <2>3. c.kind = "$sdff" => b = <<>> /\ s = <<c.S>>
    BY DEF Enabled, Resets
  <2>4. c.kind \in {"$sdffe", "$sdffce"} => b = <<c.B>> /\ s = <<c.S>>
    BY DEF Enabled, Resets
  <2> HIDE DEF b, s
  <2> QED BY <1>5, <1>6, <2>1, <2>2, <2>3, <2>4
<1> QED BY <1>1, <1>8, <1>9, <1>10 DEF o

\* What a register takes: one of what it holds, its data, and its reset value.
LEMMA RegisterNextIs ==
  ASSUME NEW c, NEW d, NEW e, NEW r
  PROVE  LET q == Sampled(c.out)
             enable == Level(e, c.enHigh)
             reset == Level(r, c.rstHigh)
             value == ResetValue(c)
         IN /\ RegisterNext(c, d, e, r) \in {q, d, value}
            /\ c.kind = "$dff" => RegisterNext(c, d, e, r) = d
            /\ c.kind = "$dffe" => RegisterNext(c, d, e, r) = IF enable THEN d ELSE q
            /\ c.kind = "$sdff" => RegisterNext(c, d, e, r) = IF reset THEN value ELSE d
            /\ c.kind = "$sdffe" => RegisterNext(c, d, e, r) = IF reset THEN value ELSE IF enable THEN d ELSE q
            /\ c.kind = "$sdffce" => RegisterNext(c, d, e, r) = IF ~enable THEN q ELSE IF reset THEN value ELSE d
<1> DEFINE q == Sampled(c.out)
           value == ResetValue(c)
           enable == Level(e, c.enHigh)
           reset == Level(r, c.rstHigh)
           enabled(yes) == IF c.kind \in Enabled /\ ~enable THEN q ELSE yes
           cleared(no) == IF c.kind \in Resets /\ reset THEN value ELSE no
           next == RegisterNext(c, d, e, r)
<1>1. next = IF c.kind = "$sdffce" THEN enabled(cleared(d)) ELSE cleared(enabled(d))
  BY DEF RegisterNext
<1> HIDE DEF q, value, enable, reset, next
<1>2. next \in {q, d, value}
  BY <1>1
<1>3. c.kind = "$dff" => next = d
  BY <1>1 DEF Enabled, Resets
<1>4. c.kind = "$dffe" => next = IF enable THEN d ELSE q
  BY <1>1 DEF Enabled, Resets
<1>5. c.kind = "$sdff" => next = IF reset THEN value ELSE d
  BY <1>1 DEF Enabled, Resets
<1>6. c.kind = "$sdffe" => next = IF reset THEN value ELSE IF enable THEN d ELSE q
  BY <1>1 DEF Enabled, Resets
<1>7. c.kind = "$sdffce" => next = IF ~enable THEN q ELSE IF reset THEN value ELSE d
  BY <1>1 DEF Enabled, Resets
<1> QED BY <1>2, <1>3, <1>4, <1>5, <1>6, <1>7 DEF q, value, enable, reset, next

ControlsSettle(c) == \A v \in Members(Controls(c)) : Feeding(v) \subseteq Settled
NextIsRight(c, v) == ResetsKnown => \A sigma \in Solutions : v = YosysNext(sigma, c)
AllStand(vectors, line, vs) == \A n \in DOMAIN vectors : Stands(vectors[n], line, vs[n])

\* The next value is a word, and the one the netlist means when its controls
\* stand and the register has no asynchronous reset.
LEMMA NextIs ==
  ASSUME Setting, NEW i \in Members(Flops), NEW r, AreResults(Controls(Cells[i]), r)
  PROVE  /\ NextOf(Cells[i], r.v) \in Words
         /\ AllStand(Controls(Cells[i]), Cells[i].line, r.v) /\ Cells[i].kind \notin {"$adff", "$adffe"}
              => NextIsRight(Cells[i], NextOf(Cells[i], r.v))
<1> DEFINE vs == r.v
           s == Controls(Cells[i])
<1>1. PICK c : c = Cells[i]
  OBVIOUS
<1>2. i \in DOMAIN Cells /\ c.kind \in Sequential
  BY <1>1, FlopsAndChildren DEF FlopsAre
<1>3. c.out \in Seq(Int) /\ c.reset \in Seq(Int) /\ Members(c.out) \subseteq Sources
  BY <1>1, <1>2, CellsAre, SourcesAre DEF CellFacts
<1>4. s \in Seq(Seq(Int)) /\ Len(s) \in 1 .. 3
  BY <1>2, ControlsAre
<1>5. vs \in Seq(Words) /\ Len(vs) = Len(s)
  BY DEF AreResults
<1> DEFINE d == vs[1]
           e == vs[IF Len(vs) > 1 THEN 2 ELSE 1]
           t == vs[Len(vs)]
<1>6. NextOf(c, vs) = RegisterNext(c, d, e, t)
  BY DEF NextOf
<1>7. Sampled(c.out) \in Words
  BY <1>3, SampledIs
<1>8. ResetValue(c) \in Words
  BY <1>3, LiteralIs DEF ResetValue
<1>9. d \in Words
  <2> HIDE DEF vs, s
  <2> QED BY <1>4, <1>5
<1>10. NextOf(c, vs) \in Words
  <2> HIDE DEF vs, s, d, e, t
  <2> QED BY <1>6, <1>7, <1>8, <1>9, RegisterNextIs
<1>11. ASSUME AllStand(s, c.line, vs), c.kind \notin {"$adff", "$adffe"}, ResetsKnown, NEW sigma \in Solutions
       PROVE  NextOf(c, vs) = YosysNext(sigma, c)
  <2>1. \A n \in 1 .. Len(s) : vs[n] = Means(sigma, s[n], c.line)
    BY <1>4, <1>11 DEF AllStand, Stands
  <2>2. Sampled(c.out) = Means(sigma, c.out, c.line)
    BY <1>3, SampledIs
  <2>3. ResetValue(c) = Literal(c.reset, Fill(c.line))
    <3>1. X \notin Members(c.reset)
      BY <1>1, <1>11 DEF ResetsKnown
    <3>2. \A n \in DOMAIN c.reset : c.reset[n] # X
      BY <3>1 DEF Members
    <3> QED BY <3>2 DEF ResetValue, Literal
  <2> DEFINE dd == Means(sigma, c.A, c.line)
             q == Means(sigma, c.out, c.line)
             enable == Level(Means(sigma, c.B, c.line), c.enHigh)
             reset == Level(Means(sigma, c.S, c.line), c.rstHigh)
             value == Literal(c.reset, Fill(c.line))
             wanted == YosysNext(sigma, c)
  <2>4. /\ c.kind = "$dff" => wanted = dd
        /\ c.kind = "$dffe" => wanted = IF enable THEN dd ELSE q
        /\ c.kind = "$sdff" => wanted = IF reset THEN value ELSE dd
        /\ c.kind = "$sdffe" => wanted = IF reset THEN value ELSE IF enable THEN dd ELSE q
        /\ c.kind = "$sdffce" => wanted = IF ~enable THEN q ELSE IF reset THEN value ELSE dd
    <3> DEFINE given(kind) == CASE kind = "$dff"    -> dd
                                [] kind = "$dffe"   -> IF enable THEN dd ELSE q
                                [] kind = "$sdff"   -> IF reset THEN value ELSE dd
                                [] kind = "$sdffe"  -> IF reset THEN value ELSE IF enable THEN dd ELSE q
                                [] kind = "$sdffce" -> IF ~enable THEN q ELSE IF reset THEN value ELSE dd
    <3>1. wanted = given(c.kind)
      BY DEF YosysNext
    <3> HIDE DEF wanted, dd, enable, q, reset, value
    <3>2. given("$dff") = dd /\ given("$dffe") = IF enable THEN dd ELSE q
      OBVIOUS
    <3>3. given("$sdff") = IF reset THEN value ELSE dd
      OBVIOUS
    <3>4. given("$sdffe") = IF reset THEN value ELSE IF enable THEN dd ELSE q
      OBVIOUS
    <3>5. given("$sdffce") = IF ~enable THEN q ELSE IF reset THEN value ELSE dd
      OBVIOUS
    <3> HIDE DEF given
    <3> QED BY <3>1, <3>2, <3>3, <3>4, <3>5
  <2>5. CASE c.kind = "$dff"
    <3>1. s = <<c.A>> /\ Len(s) = 1 /\ s[1] = c.A
      BY <1>1, <1>2, <2>5, ControlsAre
    <3>2. d = dd
      BY <2>1, <3>1
    <3>3. NextOf(c, vs) = d
      <4> HIDE DEF vs, s, d, e, t
      <4> QED BY <1>6, <2>5, RegisterNextIs
    <3> QED BY <2>4, <2>5, <3>2, <3>3
  <2>6. CASE c.kind = "$dffe"
    <3>1. s = <<c.A, c.B>>
      BY <1>1, <1>2, <2>6, ControlsAre
    <3>2. Len(s) = 2 /\ s[1] = c.A /\ s[2] = c.B
      <4> HIDE DEF s
      <4> QED BY <3>1
    <3>3. d = dd /\ e = Means(sigma, c.B, c.line)
      <4> HIDE DEF vs, s
      <4> QED BY <1>5, <2>1, <3>2
    <3>4. NextOf(c, vs) = IF Level(e, c.enHigh) THEN d ELSE Sampled(c.out)
      <4> HIDE DEF vs, s, d, e, t
      <4> QED BY <1>6, <2>6, RegisterNextIs
    <3> HIDE DEF d, e, t, vs, s
    <3> QED BY <2>2, <2>4, <2>6, <3>3, <3>4
  <2>7. CASE c.kind = "$sdff"
    <3>1. s = <<c.A, c.S>>
      BY <1>1, <1>2, <2>7, ControlsAre
    <3>2. Len(s) = 2 /\ s[1] = c.A /\ s[2] = c.S
      <4> HIDE DEF s
      <4> QED BY <3>1
    <3>3. d = dd /\ t = Means(sigma, c.S, c.line)
      <4> HIDE DEF vs, s
      <4> QED BY <1>5, <2>1, <3>2
    <3>4. NextOf(c, vs) = IF Level(t, c.rstHigh) THEN ResetValue(c) ELSE d
      <4> HIDE DEF vs, s, d, e, t
      <4> QED BY <1>6, <2>7, RegisterNextIs
    <3> HIDE DEF d, e, t, vs, s
    <3> QED BY <2>3, <2>4, <2>7, <3>3, <3>4
  <2>8. CASE c.kind \in {"$sdffe", "$sdffce"}
    <3>1. s = <<c.A, c.B, c.S>>
      BY <1>1, <1>2, <2>8, ControlsAre
    <3>2. Len(s) = 3 /\ s[1] = c.A /\ s[2] = c.B /\ s[3] = c.S
      <4> HIDE DEF s
      <4> QED BY <3>1
    <3>3. d = dd /\ e = Means(sigma, c.B, c.line) /\ t = Means(sigma, c.S, c.line)
      <4> HIDE DEF vs, s
      <4> QED BY <1>5, <2>1, <3>2
    <3>4. /\ c.kind = "$sdffe" => NextOf(c, vs) = IF Level(t, c.rstHigh) THEN ResetValue(c)
                                                ELSE IF Level(e, c.enHigh) THEN d ELSE Sampled(c.out)
          /\ c.kind = "$sdffce" => NextOf(c, vs) = IF ~Level(e, c.enHigh) THEN Sampled(c.out)
                                                 ELSE IF Level(t, c.rstHigh) THEN ResetValue(c) ELSE d
      <4> HIDE DEF vs, s, d, e, t
      <4> QED BY <1>6, RegisterNextIs
    <3> HIDE DEF d, e, t, vs, s
    <3>5. CASE c.kind = "$sdffe"
      BY <2>2, <2>3, <2>4, <3>3, <3>4, <3>5
    <3>6. CASE c.kind = "$sdffce"
      BY <2>2, <2>3, <2>4, <3>3, <3>4, <3>6
    <3> QED BY <2>8, <3>5, <3>6
  <2> QED BY <1>2, <1>11, <2>5, <2>6, <2>7, <2>8 DEF Sequential
<1> QED BY <1>1, <1>10, <1>11 DEF NextIsRight

--------------------------------------------------------------------------------
(* The invariant of a module: how far the translation is, what it blocks for,  *)
(* and that everything it has emitted is right unless something is blocked.     *)
Phases == {"index", "collect", "next", "instances", "outputs", "pass", "blocked", "overflow"}
AsyncFlop == \E i \in Members(Flops) : Cells[i].kind \in {"$adff", "$adffe"}
Progress(at, n, dom, regs, outs) ==
  /\ regs \in Seq(Words) /\ outs \in Seq(Words) /\ n \in Nat
  /\ at \in {"index", "collect"} => regs = <<>> /\ n = 1 /\ dom = <<>>
  /\ at = "next" => n \in 1 .. Len(Flops) + 1 /\ Len(regs) = n - 1
  /\ at \in {"instances", "outputs", "pass", "blocked"} => Len(regs) = Len(Flops)
  /\ at \in {"index", "collect", "next", "instances"} => outs = <<>>
  /\ at = "instances" => n \in 1 .. Len(Children) + 1
  /\ at = "outputs" => n \in 1 .. Len(netlist.outputs) + 1 /\ Len(outs) = n - 1
  /\ at \in {"pass", "blocked"} => Len(outs) = Len(netlist.outputs)
Cautious(at, st, dom) ==
  /\ \A q \in st.blocks : q[1] = "yosys_cell" => Alien
  /\ at = "overflow" => Undriven
  /\ at # "index" /\ SharedBits # {} => st.blocks # {}
  /\ at \in {"outputs", "pass", "blocked"} /\ Alien => st.blocks # {}
  /\ at = "pass" => st.blocks = {}
  /\ at = "blocked" => st.blocks # {}
  /\ at \notin {"index", "collect"} => /\ dom = [n \in DOMAIN Flops |-> DomainOf(Flops[n])]
                                       /\ AsyncFlop => st.blocks # {}
Controlled == {c \in Members(Cells) : ControlsSettle(c)}
Clocks == {p \in Members(Cells) \X Words : NextIsRight(p[1], p[2])}
ChildSettles(n) == Feeding(Cells[Children[n]].A) \subseteq Settled
Right(at, n, st, regs, outs) ==
  /\ Known(st.cache)
  /\ \A m \in DOMAIN regs : Cells[Flops[m]] \in Controlled /\ <<Cells[Flops[m]], regs[m]>> \in Clocks
  /\ at = "instances" => \A m \in 1 .. n - 1 : ChildSettles(m)
  /\ at \in {"outputs", "pass"} => \A m \in DOMAIN Children : ChildSettles(m)
  /\ \A m \in DOMAIN outs : Stands(netlist.outputs[m].bits, netlist.outputs[m].line, outs[m])
Holds(at, n, st, dom, regs, outs) ==
  /\ at \in Phases /\ st \in Translations /\ st.overflow = FALSE
  /\ Progress(at, n, dom, regs, outs)
  /\ Cautious(at, st, dom)
  /\ at # "overflow" /\ Trusted(st) => Right(at, n, st, regs, outs)
ModuleInv == Setting /\ Holds(phase, k, Now, domains, registers, outputs)
HoldsNext == Holds(phase', k', [cache |-> cache', blocks |-> blocks', overflow |-> FALSE], domains', registers', outputs')

\* What a step leaves alone does not change what the netlist means.
LEMMA NetlistStill ==
  ASSUME UNCHANGED netlist, UNCHANGED policy, UNCHANGED env
  PROVE  /\ Cells' = Cells /\ Flops' = Flops /\ Children' = Children /\ Sources' = Sources
         /\ SharedBits' = SharedBits /\ Settled' = Settled /\ Solutions' = Solutions /\ Translations' = Translations
         /\ (Alien' <=> Alien) /\ (Undriven' <=> Undriven) /\ (AsyncFlop' <=> AsyncFlop) /\ (ResetsKnown' <=> ResetsKnown)
<1>1. Cells' = Cells /\ Flops' = Flops /\ Children' = Children
  BY DEF Cells, Flops, Children, CellsOf
<1>2. Sources' = Sources
  BY DEF Sources, Cells, Flops, Children, CellsOf, Members
<1>3. SharedBits' = SharedBits
  BY DEF SharedBits, Cells, Members, Driving
<1>4. Settled' = Settled
  BY DEF Settled, Combinational, FeedingCell, Feeding, Driving, Cells, Members
<1>5. Solutions' = Solutions
  BY DEF Solutions, Agrees, Means, Fill, Matching, Combinational, Cells, Sources, Flops, Children, CellsOf, Members, Nets, Read, InputVectors
<1>6. Translations' = Translations
  BY DEF Translations, Cells
<1>7. Alien' <=> Alien
  BY DEF Alien, Cells
<1>8. Undriven' <=> Undriven
  BY DEF Undriven, Nets, Read, InputVectors, Sources, Cells, Flops, Children, CellsOf, Members
<1>9. (AsyncFlop' <=> AsyncFlop) /\ (ResetsKnown' <=> ResetsKnown)
  BY DEF AsyncFlop, ResetsKnown, Cells, Flops, CellsOf, Members
<1> QED BY <1>1, <1>2, <1>3, <1>4, <1>5, <1>6, <1>7, <1>8, <1>9

LEMMA ModuleStill ==
  ASSUME UNCHANGED <<netlist, policy, env>>, Setting, HoldsNext
  PROVE  ModuleInv'
<1> DEFINE next == [cache |-> cache', blocks |-> blocks', overflow |-> FALSE]
<1>1. UNCHANGED netlist /\ UNCHANGED policy /\ UNCHANGED env
  OBVIOUS
<1>2. Setting'
  BY <1>1, NetlistStill DEF Setting
<1>3. Progress(phase, k, domains, registers, outputs)' <=> Progress(phase', k', domains', registers', outputs')
  BY <1>1, NetlistStill DEF Progress
<1>4. Cautious(phase, Now, domains)' <=> Cautious(phase', next, domains')
  BY <1>1, NetlistStill DEF Cautious, DomainOf, Now
<1>5. Known(Now.cache)' <=> Known(next.cache)
  BY <1>1, NetlistStill DEF Known, Whole, Means, Fill, Matching, Now
<1>6. Controlled' = Controlled /\ Clocks' = Clocks
  <2>1. ASSUME NEW c PROVE ControlsSettle(c)' <=> ControlsSettle(c)
    <3>1. \A v : Feeding(v)' = Feeding(v)
      BY <1>1, NetlistStill DEF Feeding, Driving, Members
    <3> QED BY <3>1, NetlistStill, <1>1 DEF ControlsSettle
  <2>2. ASSUME NEW c, NEW v PROVE NextIsRight(c, v)' <=> NextIsRight(c, v)
    <3>1. \A sigma : YosysNext(sigma, c)' = YosysNext(sigma, c)
      BY <1>1 DEF YosysNext, Means, Fill, Matching
    <3> QED BY <3>1, <1>1, NetlistStill DEF NextIsRight
  <2>3. Members(Cells)' = Members(Cells)
    BY <1>1 DEF Cells, Members
  <2> QED BY <2>1, <2>2, <2>3 DEF Controlled, Clocks
<1>7. \A m : ChildSettles(m)' <=> ChildSettles(m)
  BY <1>1, NetlistStill DEF ChildSettles, Feeding, Driving, Members
<1>8. (\A m \in DOMAIN outputs : Stands(netlist.outputs[m].bits, netlist.outputs[m].line, outputs[m]))'
        <=> \A m \in DOMAIN outputs' : Stands(netlist.outputs[m].bits, netlist.outputs[m].line, outputs'[m])
  BY <1>1, NetlistStill DEF Stands, Feeding, Driving, Means, Fill, Matching, Members
<1>9. Right(phase, k, Now, registers, outputs)' <=> Right(phase', k', next, registers', outputs')
  <2> HIDE DEF next
  <2> QED BY <1>1, <1>5, <1>6, <1>7, <1>8, NetlistStill DEF Right
<1>10. Trusted(Now)' <=> Trusted(next)
  BY <1>1, NetlistStill DEF Trusted, Now
<1>11. Now' = next /\ Phases' = Phases
  BY DEF Now, Phases
<1>12. Holds(phase, k, Now, domains, registers, outputs)'
  <2> HIDE DEF next
  <2> QED BY <1>1, <1>3, <1>4, <1>9, <1>10, <1>11, NetlistStill DEF HoldsNext, Holds, next
<1> QED BY <1>2, <1>12 DEF ModuleInv

\* A walk keeps what is blocked for a reason.
Kept(st) == [cache |-> st.cache, blocks |-> st.blocks, overflow |-> FALSE]
LEMMA KeptIs ==
  ASSUME NEW st \in Translations
  PROVE  /\ Kept(st) \in Translations /\ Kept(st).cache = st.cache /\ Kept(st).blocks = st.blocks /\ Kept(st).overflow = FALSE
         /\ st.overflow \in BOOLEAN /\ (st.overflow = FALSE => Kept(st) = st)
<1>1. /\ st.cache \in [DOMAIN Cells -> [width : Nat, value : Nat]] /\ st.blocks \in SUBSET (BlockKinds \X Int)
      /\ st.overflow \in BOOLEAN /\ st = [cache |-> st.cache, blocks |-> st.blocks, overflow |-> st.overflow]
  BY DEF Translations
<1>2. PICK no : no = FALSE
  OBVIOUS
<1>3. Kept(st) = [cache |-> st.cache, blocks |-> st.blocks, overflow |-> no]
  BY <1>2 DEF Kept
<1>4. Kept(st).cache = st.cache /\ Kept(st).blocks = st.blocks /\ Kept(st).overflow = no
  BY <1>3
<1>5. no \in BOOLEAN
  BY <1>2
<1>6. Kept(st) \in Translations
  BY <1>1, <1>3, <1>5 DEF Translations
<1>7. st.overflow = no => Kept(st) = st
  BY <1>1, <1>3
<1> QED BY <1>1, <1>2, <1>4, <1>6, <1>7

LEMMA WalkIsCautious ==
  ASSUME NEW at \in {"next", "instances", "outputs"}, NEW st \in Translations, st.overflow = FALSE,
         NEW r \in Translations, Goes(st, r), NEW dom, Cautious(at, st, dom)
  PROVE  Cautious(IF r.overflow THEN "overflow" ELSE at, Kept(r), dom)
<1> DEFINE to == IF r.overflow THEN "overflow" ELSE at
<1>1. r.overflow \in BOOLEAN /\ Kept(r).blocks = r.blocks
  BY KeptIs
<1>2. to \notin {"index", "collect", "pass", "blocked"} /\ (to = "outputs" => at = "outputs") /\ (to = "overflow" => r.overflow = TRUE)
  BY <1>1
<1>3. /\ st.blocks \subseteq r.blocks
      /\ \A q \in r.blocks : q[1] = "yosys_cell" => q \in st.blocks \/ Alien
      /\ r.overflow = TRUE => Undriven
  BY DEF Goes
<1>4. /\ \A q \in st.blocks : q[1] = "yosys_cell" => Alien
      /\ SharedBits # {} => st.blocks # {}
      /\ at = "outputs" /\ Alien => st.blocks # {}
      /\ dom = [n \in DOMAIN Flops |-> DomainOf(Flops[n])] /\ (AsyncFlop => st.blocks # {})
  BY DEF Cautious
<1> HIDE DEF to
<1>5. \A q \in r.blocks : q[1] = "yosys_cell" => Alien
  BY <1>3, <1>4
<1>6. st.blocks # {} => r.blocks # {}
  BY <1>3
<1>7. Cautious(to, Kept(r), dom)
  BY <1>1, <1>2, <1>3, <1>4, <1>5, <1>6 DEF Cautious
<1> QED BY <1>7 DEF to

\* What Yields does: the translation kept, or its end.
LEMMA YieldsIs ==
  ASSUME NEW at \in Phases, NEW r \in Translations, Yields(r, at)
  PROVE  /\ phase' = (IF r.overflow THEN "overflow" ELSE at) /\ phase' \in Phases
         /\ [cache |-> cache', blocks |-> blocks', overflow |-> FALSE] = Kept(r)
         /\ phase' # "overflow" => phase' = at /\ Kept(r) = r
         /\ phase' \in {at, "overflow"}
<1>1. phase' = IF r.overflow THEN "overflow" ELSE at
  BY DEF Yields
<1>2. r.overflow \in BOOLEAN /\ (r.overflow = FALSE => Kept(r) = r)
  BY KeptIs
<1>3. "overflow" \in Phases
  BY DEF Phases
<1>4. [cache |-> cache', blocks |-> blocks', overflow |-> FALSE] = Kept(r)
  BY DEF Yields, Kept
<1> QED BY <1>1, <1>2, <1>3, <1>4

LEMMA NowIs == /\ Now.cache = cache /\ Now.blocks = blocks /\ Now.overflow = FALSE
               /\ Now = [cache |-> cache, blocks |-> blocks, overflow |-> FALSE]
BY DEF Now

--------------------------------------------------------------------------------
LEMMA ModuleStarts == ASSUME Init PROVE ModuleInv
<1>1. Setting
  BY DEF Init, Setting
<1>2. phase = "index" /\ k = 1 /\ blocks = {} /\ domains = <<>> /\ registers = <<>> /\ outputs = <<>>
      /\ cache = [i \in DOMAIN Cells |-> BV(0, 0)]
  BY DEF Init
<1>3. BV(0, 0) \in [width : Nat, value : Nat] /\ BV(0, 0).width = 0
  BY VectorIs DEF Words
<1>4. cache \in [DOMAIN Cells -> [width : Nat, value : Nat]] /\ \A i \in DOMAIN Cells : cache[i].width = 0
  BY <1>2, <1>3
<1>5. Now \in Translations
  <2>1. PICK no : no = FALSE
    OBVIOUS
  <2>2. Now = [cache |-> cache, blocks |-> blocks, overflow |-> no] /\ no \in BOOLEAN /\ blocks \in SUBSET (BlockKinds \X Int)
    BY <1>2, <2>1 DEF Now
  <2> QED BY <1>4, <2>2 DEF Translations
<1>6. Progress(phase, k, domains, registers, outputs)
  <2>1. <<>> \in Seq(Words)
    OBVIOUS
  <2> QED BY <1>2, <2>1 DEF Progress
<1>7. Cautious(phase, Now, domains)
  BY <1>2, NowIs DEF Cautious
<1>8. Right(phase, k, Now, registers, outputs)
  <2>1. DOMAIN registers = {} /\ DOMAIN outputs = {}
    BY <1>2
  <2>2. Known(Now.cache)
    BY <1>4, NowIs DEF Known
  <2> QED BY <1>2, <2>1, <2>2 DEF Right
<1>9. phase \in Phases
  BY <1>2 DEF Phases
<1> QED BY <1>1, <1>5, <1>6, <1>7, <1>8, <1>9, NowIs DEF ModuleInv, Holds

LEMMA IndexKeeps == ASSUME ModuleInv, Index PROVE HoldsNext
<1> DEFINE next == [cache |-> cache', blocks |-> blocks', overflow |-> FALSE]
           more == {<<"multiple_drivers", b>> : b \in SharedBits}
<1>1. /\ phase = "index" /\ phase' = "collect" /\ blocks' = blocks \cup more
      /\ UNCHANGED k /\ UNCHANGED cache /\ UNCHANGED domains /\ UNCHANGED registers /\ UNCHANGED outputs
  BY DEF Index
<1>2. Setting /\ Holds(phase, k, Now, domains, registers, outputs)
  BY DEF ModuleInv
<1>3. more \subseteq BlockKinds \X Int /\ \A q \in more : q[1] # "yosys_cell"
  <2>1. SharedBits \subseteq Int
    <3>1. \A c \in Members(Cells) : Members(c.out) \subseteq Int
      <4>1. \A c \in Members(Cells) : \E i \in DOMAIN Cells : c = Cells[i]
        BY DEF Members
      <4> QED BY <1>2, <4>1, CellsAre DEF CellFacts
    <3> QED BY <3>1 DEF SharedBits
  <2>2. PICK kind : kind = "multiple_drivers"
    OBVIOUS
  <2>3. kind \in BlockKinds /\ kind # "yosys_cell"
    BY <2>2 DEF BlockKinds
  <2>4. ASSUME NEW q \in more PROVE q \in BlockKinds \X Int /\ q[1] # "yosys_cell"
    <3>1. PICK b \in SharedBits : q = <<kind, b>>
      BY <2>2
    <3> QED BY <2>1, <2>3, <3>1
  <2> QED BY <2>4
<1>4. SharedBits # {} => more # {}
  OBVIOUS
<1> HIDE DEF more
<1>5. Now \in Translations /\ Progress(phase, k, domains, registers, outputs) /\ Cautious(phase, Now, domains)
      /\ (Trusted(Now) => Right(phase, k, Now, registers, outputs))
  BY <1>1, <1>2 DEF Holds
<1>6. next.cache = cache /\ next.blocks = blocks \cup more /\ next.overflow = FALSE
  BY <1>1
<1>7. next \in Translations
  <2>1. PICK no : no = FALSE
    OBVIOUS
  <2>2. next = [cache |-> cache, blocks |-> blocks \cup more, overflow |-> no] /\ no \in BOOLEAN
    BY <1>1, <2>1
  <2>3. cache \in [DOMAIN Cells -> [width : Nat, value : Nat]] /\ blocks \in SUBSET (BlockKinds \X Int)
    BY <1>5, NowIs DEF Translations
  <2>4. blocks \cup more \in SUBSET (BlockKinds \X Int)
    BY <1>3, <2>3
  <2> HIDE DEF next
  <2> QED BY <2>2, <2>3, <2>4 DEF Translations
<1> HIDE DEF next
<1>8. Progress(phase', k', domains', registers', outputs')
  BY <1>1, <1>5 DEF Progress
<1>9. Cautious(phase', next, domains')
  BY <1>1, <1>3, <1>4, <1>5, <1>6, NowIs DEF Cautious
<1>10. ASSUME Trusted(next) PROVE Right(phase', k', next, registers', outputs')
  <2>1. Trusted(Now)
    BY <1>6, <1>10, NowIs DEF Trusted
  <2> QED BY <1>1, <1>5, <1>6, <2>1, NowIs DEF Right
<1>11. phase' \in Phases
  BY <1>1 DEF Phases
<1> QED BY <1>6, <1>7, <1>8, <1>9, <1>10, <1>11 DEF HoldsNext, Holds, next

LEMMA CollectKeeps == ASSUME ModuleInv, Collect PROVE HoldsNext
<1> DEFINE next == [cache |-> cache', blocks |-> blocks', overflow |-> FALSE]
           more == IF AsyncFlop THEN {<<"asynchronous_reset_state", 0>>} ELSE {}
<1>1. /\ phase = "collect" /\ phase' = "next" /\ blocks' = blocks \cup more
      /\ domains' = [n \in DOMAIN Flops |-> DomainOf(Flops[n])]
      /\ UNCHANGED k /\ UNCHANGED cache /\ UNCHANGED registers /\ UNCHANGED outputs
  BY DEF Collect, AsyncFlop
<1>2. Setting /\ Holds(phase, k, Now, domains, registers, outputs)
  BY DEF ModuleInv
<1>3. more \subseteq BlockKinds \X Int /\ \A q \in more : q[1] # "yosys_cell"
  BY DEF BlockKinds
<1>4. AsyncFlop => more # {}
  OBVIOUS
<1> HIDE DEF more
<1>5. Now \in Translations /\ Progress(phase, k, domains, registers, outputs) /\ Cautious(phase, Now, domains)
      /\ (Trusted(Now) => Right(phase, k, Now, registers, outputs))
  BY <1>1, <1>2 DEF Holds
<1>6. next.cache = cache /\ next.blocks = blocks \cup more /\ next.overflow = FALSE
  BY <1>1
<1>7. next \in Translations
  <2>1. PICK no : no = FALSE
    OBVIOUS
  <2>2. next = [cache |-> cache, blocks |-> blocks \cup more, overflow |-> no] /\ no \in BOOLEAN
    BY <1>1, <2>1
  <2>3. cache \in [DOMAIN Cells -> [width : Nat, value : Nat]] /\ blocks \in SUBSET (BlockKinds \X Int)
    BY <1>5, NowIs DEF Translations
  <2>4. blocks \cup more \in SUBSET (BlockKinds \X Int)
    BY <1>3, <2>3
  <2> HIDE DEF next
  <2> QED BY <2>2, <2>3, <2>4 DEF Translations
<1> HIDE DEF next
<1>8. Progress(phase', k', domains', registers', outputs')
  <2>1. k = 1 /\ registers = <<>> /\ outputs = <<>> /\ <<>> \in Seq(Words) /\ Len(registers) = 0
    BY <1>1, <1>5 DEF Progress
  <2>2. Len(Flops) \in Nat
    BY <1>2, FlopsAndChildren DEF FlopsAre
  <2>3. 1 \in 1 .. Len(Flops) + 1
    BY <2>2
  <2> QED BY <1>1, <2>1, <2>3 DEF Progress
<1>9. Cautious(phase', next, domains')
  BY <1>1, <1>3, <1>4, <1>5, <1>6, NowIs DEF Cautious
<1>10. ASSUME Trusted(next) PROVE Right(phase', k', next, registers', outputs')
  <2>1. Trusted(Now)
    BY <1>6, <1>10, NowIs DEF Trusted
  <2> QED BY <1>1, <1>5, <1>6, <2>1, NowIs DEF Right
<1>11. phase' \in Phases
  BY <1>1 DEF Phases
<1> QED BY <1>6, <1>7, <1>8, <1>9, <1>10, <1>11 DEF HoldsNext, Holds, next

\* What a walk over some vectors gives, from where the translation is.
LEMMA WalkIs ==
  ASSUME Setting, NEW vectors \in Seq(Seq(Int)), AllWired(vectors), NEW line \in Int, NEW st \in Translations
  PROVE  LET r == Exprs(vectors, line, st, {})
         IN /\ AreResults(vectors, r) /\ r.st \in Translations /\ Goes(st, r.st)
            /\ Trusted(r.st) /\ Known(st.cache) => AllStand(vectors, line, r.v) /\ Known(r.st.cache)
<1> DEFINE r == Exprs(vectors, line, st, {})
<1>1. Fits(vectors, line, st, r)
  BY ExprsAre
<1> HIDE DEF r
<1>2. AreResults(vectors, r) /\ AllGood(vectors, line, st, r)
  BY <1>1 DEF Fits
<1>3. r.st \in Translations
  BY <1>2 DEF AreResults
<1> QED BY <1>2, <1>3 DEF AllGood, AllStand, Goes, r

LEMMA RegisterKeeps == ASSUME ModuleInv, TranslateRegister PROVE HoldsNext
<1> DEFINE i == Flops[k]
           c == Cells[i]
           r == Exprs(Controls(c), c.line, Now, {})
           v == NextOf(c, r.v)
<1>1. /\ phase = "next" /\ k <= Len(Flops) /\ k' = k + 1 /\ UNCHANGED domains /\ UNCHANGED outputs
      /\ registers' = Append(registers, v) /\ Yields(r.st, "next")
  BY DEF TranslateRegister, AddRegister
<1>2. Setting /\ Holds(phase, k, Now, domains, registers, outputs)
  BY DEF ModuleInv
<1>3. Now \in Translations /\ Now.overflow = FALSE
      /\ Progress(phase, k, domains, registers, outputs) /\ Cautious(phase, Now, domains)
      /\ (Trusted(Now) => Right(phase, k, Now, registers, outputs))
  BY <1>1, <1>2 DEF Holds
<1>4. k \in 1 .. Len(Flops) + 1 /\ Len(registers) = k - 1 /\ registers \in Seq(Words) /\ outputs = <<>>
  BY <1>1, <1>3 DEF Progress
<1>5. Flops \in Seq(DOMAIN Cells) /\ Len(Flops) \in Nat
  BY <1>2, FlopsAndChildren DEF FlopsAre
<1>6. k \in 1 .. Len(Flops) /\ k \in DOMAIN Flops
  BY <1>1, <1>4, <1>5
<1>7. i \in DOMAIN Cells /\ i \in Members(Flops)
  BY <1>5, <1>6 DEF Members
<1> HIDE DEF i
<1>8. c.line \in Int /\ c \in Members(Cells) /\ Controls(c) \in Seq(Seq(Int)) /\ AllWired(Controls(c))
  BY <1>2, <1>7, CellsAre, ControlsAre DEF CellFacts
<1>9. /\ AreResults(Controls(c), r) /\ r.st \in Translations /\ Goes(Now, r.st)
      /\ Trusted(r.st) /\ Known(Now.cache) => AllStand(Controls(c), c.line, r.v) /\ Known(r.st.cache)
  <2> HIDE DEF c
  <2> QED BY <1>2, <1>3, <1>8, WalkIs
<1>10. v \in Words /\ (AllStand(Controls(c), c.line, r.v) /\ c.kind \notin {"$adff", "$adffe"} => NextIsRight(c, v))
  <2> HIDE DEF r
  <2> QED BY <1>2, <1>7, <1>9, NextIs
<1> HIDE DEF r, c, v
<1>11. "next" \in Phases
  BY DEF Phases
<1>12. /\ phase' = (IF r.st.overflow THEN "overflow" ELSE "next") /\ phase' \in Phases
       /\ [cache |-> cache', blocks |-> blocks', overflow |-> FALSE] = Kept(r.st)
       /\ phase' # "overflow" => phase' = "next" /\ Kept(r.st) = r.st
       /\ phase' \in {"next", "overflow"}
  BY <1>1, <1>9, <1>11, YieldsIs
<1>13. Kept(r.st) \in Translations /\ Kept(r.st).overflow = FALSE
  BY <1>9, KeptIs
<1>14. Cautious(phase', Kept(r.st), domains')
  <2>1. Cautious("next", Now, domains)
    BY <1>1, <1>3
  <2>2. Cautious(IF r.st.overflow THEN "overflow" ELSE "next", Kept(r.st), domains)
    BY <1>3, <1>9, <2>1, WalkIsCautious
  <2> QED BY <1>1, <1>12, <2>2
<1>15. registers' \in Seq(Words) /\ Len(registers') = k /\ DOMAIN registers' = 1 .. k /\ registers'[k] = v
       /\ \A n \in 1 .. k - 1 : registers'[n] = registers[n]
  BY <1>1, <1>4, <1>10
<1>16. Progress(phase', k', domains', registers', outputs')
  <2>1. k + 1 \in Nat /\ k + 1 \in 1 .. Len(Flops) + 1 /\ (k + 1) - 1 = k
    BY <1>5, <1>6
  <2>2. outputs \in Seq(Words)
    BY <1>3 DEF Progress
  <2> QED BY <1>1, <1>4, <1>12, <1>15, <2>1, <2>2 DEF Progress
<1>17. ASSUME phase' # "overflow", Trusted(Kept(r.st)) PROVE Right(phase', k', Kept(r.st), registers', outputs')
  <2>1. phase' = "next" /\ Kept(r.st) = r.st /\ Trusted(r.st)
    BY <1>12, <1>17
  <2>2. Trusted(Now)
    BY <1>3, <1>9, <2>1, TrustedBefore
  <2>3. Right(phase, k, Now, registers, outputs)
    BY <1>3, <2>2
  <2>4. Known(r.st.cache) /\ AllStand(Controls(c), c.line, r.v)
    BY <1>9, <2>1, <2>3 DEF Right
  <2>5. c.kind \notin {"$adff", "$adffe"}
    <3>1. ~AsyncFlop
      BY <1>1, <1>3, <2>2 DEF Cautious, Trusted
    <3> QED BY <1>7, <3>1 DEF AsyncFlop, c
  <2>6. <<c, v>> \in Clocks
    BY <1>8, <1>10, <2>4, <2>5 DEF Clocks
  <2>7. c \in Controlled
    BY <1>8, <2>4 DEF Controlled, ControlsSettle, AllStand, Stands, Members
  <2>8. ASSUME NEW m \in DOMAIN registers' PROVE Cells[Flops[m]] \in Controlled /\ <<Cells[Flops[m]], registers'[m]>> \in Clocks
    <3>1. CASE m = k
      BY <1>15, <2>6, <2>7, <3>1 DEF c, i
    <3>2. CASE m # k
      <4>1. m \in 1 .. k - 1 /\ m \in DOMAIN registers
        BY <1>4, <1>15, <3>2
      <4> QED BY <1>15, <2>3, <4>1 DEF Right
    <3> QED BY <3>1, <3>2
  <2>9. DOMAIN outputs' = {}
    BY <1>1, <1>4
  <2> QED BY <2>1, <2>4, <2>8, <2>9 DEF Right
<1> QED BY <1>12, <1>13, <1>14, <1>16, <1>17 DEF HoldsNext, Holds

LEMMA RegistersDoneKeeps == ASSUME ModuleInv, RegistersDone PROVE HoldsNext
<1>1. /\ phase = "next" /\ k > Len(Flops) /\ phase' = "instances" /\ k' = 1 /\ UNCHANGED cache /\ UNCHANGED blocks
      /\ UNCHANGED domains /\ UNCHANGED registers /\ UNCHANGED outputs
  BY DEF RegistersDone
<1>2. Setting /\ Holds(phase, k, Now, domains, registers, outputs)
  BY DEF ModuleInv
<1>3. Now \in Translations /\ Now.overflow = FALSE
      /\ Progress(phase, k, domains, registers, outputs) /\ Cautious(phase, Now, domains)
      /\ (Trusted(Now) => Right(phase, k, Now, registers, outputs))
  BY <1>1, <1>2 DEF Holds
<1>4. [cache |-> cache', blocks |-> blocks', overflow |-> FALSE] = Now
  BY <1>1 DEF Now
<1>5. Progress(phase', k', domains', registers', outputs')
  <2>1. Len(Flops) \in Nat /\ Len(Children) \in Nat
    BY <1>2, FlopsAndChildren DEF FlopsAre, ChildrenAre
  <2>2. 1 \in 1 .. Len(Children) + 1 /\ k - 1 = Len(Flops)
    BY <1>1, <1>3, <2>1 DEF Progress
  <2> QED BY <1>1, <1>3, <2>2 DEF Progress
<1>6. Cautious(phase', Now, domains')
  BY <1>1, <1>3 DEF Cautious
<1>7. Trusted(Now) => Right(phase', k', Now, registers', outputs')
  BY <1>1, <1>3 DEF Right
<1>8. phase' \in Phases
  BY <1>1 DEF Phases
<1> QED BY <1>3, <1>4, <1>5, <1>6, <1>7, <1>8 DEF HoldsNext, Holds

\* One vector alone.
LEMMA AloneIs ==
  ASSUME Setting, NEW bits \in Seq(Int), Wired(bits), NEW line \in Int, NEW st \in Translations
  PROVE  LET r == Expr(bits, line, st)
         IN /\ r.v \in Words /\ r.st \in Translations /\ Goes(st, r.st)
            /\ Trusted(r.st) /\ Known(st.cache) => Stands(bits, line, r.v) /\ Known(r.st.cache)
<1> DEFINE s == <<bits>>
           w == Exprs(s, line, st, {})
           r == Expr(bits, line, st)
<1>1. r.v = w.v[1] /\ r.st = w.st
  BY DEF Expr, TheOnly, Result
<1>2. s \in Seq(Seq(Int)) /\ Len(s) = 1 /\ s[1] = bits /\ DOMAIN s = {1}
  OBVIOUS
<1>3. Members(s) = {bits}
  BY <1>2 DEF Members
<1> HIDE DEF s
<1>4. AllWired(s)
  BY <1>3 DEF AllWired
<1>5. /\ AreResults(s, w) /\ w.st \in Translations /\ Goes(st, w.st)
      /\ Trusted(w.st) /\ Known(st.cache) => AllStand(s, line, w.v) /\ Known(w.st.cache)
  BY <1>2, <1>4, WalkIs
<1> HIDE DEF w, r
<1>6. w.v \in Seq(Words) /\ Len(w.v) = 1
  BY <1>2, <1>5 DEF AreResults
<1>7. w.v[1] \in Words
  BY <1>6
<1>8. AllStand(s, line, w.v) => Stands(bits, line, w.v[1])
  BY <1>2 DEF AllStand
<1> QED BY <1>1, <1>5, <1>7, <1>8 DEF r

LEMMA InstanceKeeps == ASSUME ModuleInv, TranslateInstance PROVE HoldsNext
<1> DEFINE i == Children[k]
           c == Cells[i]
           parameter == IF c.parameters THEN Block(Now, "unelaborated_instance_parameter", i) ELSE Now
           connected == IF c.A = <<>> THEN Block(parameter, "unconnected_instance_input", i) ELSE parameter
           r == Expr(c.A, c.line, connected)
<1>1. /\ phase = "instances" /\ k <= Len(Children) /\ k' = k + 1 /\ UNCHANGED domains /\ UNCHANGED registers /\ UNCHANGED outputs
      /\ Yields(r.st, "instances")
  BY DEF TranslateInstance
<1>2. Setting /\ Holds(phase, k, Now, domains, registers, outputs)
  BY DEF ModuleInv
<1>3. Now \in Translations /\ Now.overflow = FALSE
      /\ Progress(phase, k, domains, registers, outputs) /\ Cautious(phase, Now, domains)
      /\ (Trusted(Now) => Right(phase, k, Now, registers, outputs))
  BY <1>1, <1>2 DEF Holds
<1>4. Children \in Seq(DOMAIN Cells) /\ Len(Children) \in Nat
  BY <1>2, FlopsAndChildren DEF ChildrenAre
<1>5. k \in 1 .. Len(Children)
  BY <1>1, <1>3, <1>4 DEF Progress
<1>6. i \in DOMAIN Cells /\ i \in Int
  <2>1. i \in DOMAIN Cells
    BY <1>4, <1>5
  <2> HIDE DEF i
  <2> QED BY <1>2, <2>1, CellsAre
<1> HIDE DEF i
<1>7. c.line \in Int /\ c.A \in Seq(Int) /\ c \in Members(Cells)
  BY <1>2, <1>6, CellsAre DEF CellFacts
<1>8. Wired(c.A)
  <2>1. c.A \in Read
    <3> HIDE DEF c
    <3> QED BY <1>7 DEF Read
  <2> QED BY <1>7, <2>1, ReadIsWired
<1> HIDE DEF c
<1>9. parameter \in Translations /\ parameter.cache = Now.cache /\ Goes(Now, parameter)
  <2>1. PICK kind : kind = "unelaborated_instance_parameter"
    OBVIOUS
  <2>2. kind \in BlockKinds /\ kind # "yosys_cell"
    BY <2>1 DEF BlockKinds
  <2>3. /\ Block(Now, kind, i) \in Translations /\ Block(Now, kind, i).cache = Now.cache /\ Goes(Now, Block(Now, kind, i))
    BY <1>3, <1>6, <2>2, BlockIs
  <2>4. Goes(Now, Now)
    BY GoesStill
  <2> QED BY <1>3, <2>1, <2>3, <2>4
<1> HIDE DEF parameter
<1>10. connected \in Translations /\ connected.cache = Now.cache /\ Goes(Now, connected)
  <2>1. PICK kind : kind = "unconnected_instance_input"
    OBVIOUS
  <2>2. kind \in BlockKinds /\ kind # "yosys_cell"
    BY <2>1 DEF BlockKinds
  <2>3. /\ Block(parameter, kind, i) \in Translations /\ Block(parameter, kind, i).cache = parameter.cache
        /\ Goes(parameter, Block(parameter, kind, i))
    BY <1>6, <1>9, <2>2, BlockIs
  <2>4. Goes(Now, Block(parameter, kind, i))
    BY <1>9, <2>3, GoesOn
  <2> QED BY <1>9, <2>1, <2>3, <2>4
<1> HIDE DEF connected
<1>11. /\ r.st \in Translations /\ Goes(connected, r.st)
       /\ Trusted(r.st) /\ Known(Now.cache) => Stands(c.A, c.line, r.v) /\ Known(r.st.cache)
  <2>1. /\ r.st \in Translations /\ Goes(connected, r.st)
        /\ Trusted(r.st) /\ Known(connected.cache) => Stands(c.A, c.line, r.v) /\ Known(r.st.cache)
    BY <1>2, <1>7, <1>8, <1>10, AloneIs
  <2> HIDE DEF r
  <2> QED BY <1>10, <2>1
<1> HIDE DEF r
<1>12. Goes(Now, r.st)
  BY <1>10, <1>11, GoesOn
<1>13. "instances" \in Phases
  BY DEF Phases
<1>14. /\ phase' = (IF r.st.overflow THEN "overflow" ELSE "instances") /\ phase' \in Phases
       /\ [cache |-> cache', blocks |-> blocks', overflow |-> FALSE] = Kept(r.st)
       /\ phase' # "overflow" => phase' = "instances" /\ Kept(r.st) = r.st
       /\ phase' \in {"instances", "overflow"}
  BY <1>1, <1>11, <1>13, YieldsIs
<1>15. Kept(r.st) \in Translations /\ Kept(r.st).overflow = FALSE
  BY <1>11, KeptIs
<1>16. Cautious(phase', Kept(r.st), domains')
  <2>1. Cautious("instances", Now, domains)
    BY <1>1, <1>3
  <2>2. Cautious(IF r.st.overflow THEN "overflow" ELSE "instances", Kept(r.st), domains)
    BY <1>3, <1>11, <1>12, <2>1, WalkIsCautious
  <2> QED BY <1>1, <1>14, <2>2
<1>17. Progress(phase', k', domains', registers', outputs')
  <2>1. k + 1 \in Nat /\ k + 1 \in 1 .. Len(Children) + 1
    BY <1>4, <1>5
  <2> QED BY <1>1, <1>3, <1>14, <2>1 DEF Progress
<1>18. ASSUME phase' # "overflow", Trusted(Kept(r.st)) PROVE Right(phase', k', Kept(r.st), registers', outputs')
  <2>1. phase' = "instances" /\ Kept(r.st) = r.st /\ Trusted(r.st)
    BY <1>14, <1>18
  <2>2. Trusted(Now)
    BY <1>3, <1>12, <2>1, TrustedBefore
  <2>3. Right(phase, k, Now, registers, outputs)
    BY <1>3, <2>2
  <2>4. Known(r.st.cache) /\ Stands(c.A, c.line, r.v)
    BY <1>11, <2>1, <2>3 DEF Right
  <2>5. ASSUME NEW m \in 1 .. k PROVE ChildSettles(m)
    <3>1. CASE m = k
      BY <2>4, <3>1 DEF ChildSettles, Stands, c, i
    <3>2. CASE m # k
      <4>1. m \in 1 .. k - 1
        BY <1>5, <3>2
      <4> QED BY <1>1, <2>3, <4>1 DEF Right
    <3> QED BY <3>1, <3>2
  <2>6. k' - 1 = k
    BY <1>1, <1>5
  <2> QED BY <1>1, <2>1, <2>3, <2>4, <2>5, <2>6 DEF Right
<1> QED BY <1>14, <1>15, <1>16, <1>17, <1>18 DEF HoldsNext, Holds

LEMMA SweepKeeps == ASSUME ModuleInv, Sweep PROVE HoldsNext
<1> DEFINE next == [cache |-> cache', blocks |-> blocks', overflow |-> FALSE]
           alien == {j \in DOMAIN Cells : Cells[j].kind \notin {"child"} \cup Sequential \cup SupportedComb}
           more == {<<"yosys_cell", i>> : i \in alien}
           ports == IF netlist.inout THEN {<<"port_direction", 0>>} ELSE {}
<1>1. /\ phase = "instances" /\ k > Len(Children) /\ phase' = "outputs" /\ k' = 1 /\ blocks' = blocks \cup more \cup ports
      /\ UNCHANGED cache /\ UNCHANGED domains /\ UNCHANGED registers /\ UNCHANGED outputs
  BY DEF Sweep
<1>2. Setting /\ Holds(phase, k, Now, domains, registers, outputs)
  BY DEF ModuleInv
<1>3. more \subseteq BlockKinds \X Int /\ (more # {} <=> Alien)
  <2>1. alien \subseteq Int /\ (alien # {} <=> Alien)
    <3>1. alien \subseteq DOMAIN Cells /\ DOMAIN Cells \subseteq Int
      BY <1>2, CellsAre
    <3>2. alien # {} <=> Alien
      BY DEF Alien
    <3> HIDE DEF alien
    <3> QED BY <3>1, <3>2
  <2> HIDE DEF alien
  <2>2. PICK kind : kind = "yosys_cell"
    OBVIOUS
  <2>3. kind \in BlockKinds
    BY <2>2 DEF BlockKinds
  <2>4. ASSUME NEW q \in more PROVE q \in BlockKinds \X Int
    <3>1. PICK b \in alien : q = <<kind, b>>
      BY <2>2
    <3> QED BY <2>1, <2>3, <3>1
  <2>5. more # {} <=> alien # {}
    OBVIOUS
  <2> QED BY <2>1, <2>4, <2>5
<1>4. ports \subseteq BlockKinds \X Int /\ \A q \in ports : q[1] # "yosys_cell"
  BY DEF BlockKinds
<1> HIDE DEF more, ports, alien
<1>5. Now \in Translations /\ Progress(phase, k, domains, registers, outputs) /\ Cautious(phase, Now, domains)
      /\ (Trusted(Now) => Right(phase, k, Now, registers, outputs))
  BY <1>1, <1>2 DEF Holds
<1>6. next.cache = cache /\ next.blocks = blocks \cup more \cup ports /\ next.overflow = FALSE
  BY <1>1
<1>7. next \in Translations
  <2>1. PICK no : no = FALSE
    OBVIOUS
  <2>2. next = [cache |-> cache, blocks |-> blocks \cup more \cup ports, overflow |-> no] /\ no \in BOOLEAN
    BY <1>1, <2>1
  <2>3. cache \in [DOMAIN Cells -> [width : Nat, value : Nat]] /\ blocks \in SUBSET (BlockKinds \X Int)
    BY <1>5, NowIs DEF Translations
  <2>4. blocks \cup more \cup ports \in SUBSET (BlockKinds \X Int)
    BY <1>3, <1>4, <2>3
  <2> HIDE DEF next
  <2> QED BY <2>2, <2>3, <2>4 DEF Translations
<1> HIDE DEF next
<1>8. Progress(phase', k', domains', registers', outputs')
  <2>1. outputs = <<>> /\ Len(outputs) = 0 /\ Len(netlist.outputs) \in Nat
    BY <1>1, <1>2, <1>5, NetlistsAssumption DEF Progress, Setting
  <2>2. 1 \in 1 .. Len(netlist.outputs) + 1
    BY <2>1
  <2> QED BY <1>1, <1>5, <2>1, <2>2 DEF Progress
<1>9. Cautious(phase', next, domains')
  <2>1. \A q \in next.blocks : q[1] = "yosys_cell" => Alien
    BY <1>3, <1>4, <1>5, <1>6, NowIs DEF Cautious
  <2>2. (Alien => next.blocks # {}) /\ (blocks # {} => next.blocks # {})
    BY <1>3, <1>6
  <2> QED BY <1>1, <1>5, <2>1, <2>2, NowIs DEF Cautious
<1>10. ASSUME Trusted(next) PROVE Right(phase', k', next, registers', outputs')
  <2>1. Trusted(Now)
    BY <1>6, <1>10, NowIs DEF Trusted
  <2>2. Right(phase, k, Now, registers, outputs)
    BY <1>5, <2>1
  <2>3. \A m \in DOMAIN Children : ChildSettles(m)
    <3>1. DOMAIN Children = 1 .. Len(Children) /\ Len(Children) \in Nat
      BY <1>2, FlopsAndChildren DEF ChildrenAre
    <3>2. k \in 1 .. Len(Children) + 1
      BY <1>1, <1>5 DEF Progress
    <3>3. DOMAIN Children = 1 .. k - 1
      BY <1>1, <3>1, <3>2
    <3> QED BY <1>1, <2>2, <3>3 DEF Right
  <2> QED BY <1>1, <1>6, <2>2, <2>3, NowIs DEF Right
<1>11. phase' \in Phases
  BY <1>1 DEF Phases
<1> QED BY <1>6, <1>7, <1>8, <1>9, <1>10, <1>11 DEF HoldsNext, Holds, next

LEMMA OutputPortsAre ==
  ASSUME Setting
  PROVE  /\ DOMAIN netlist.outputs = 1 .. Len(netlist.outputs) /\ Len(netlist.outputs) \in Nat
         /\ \A n \in DOMAIN netlist.outputs :
              LET p == netlist.outputs[n] IN p \in Members(netlist.outputs) /\ p.bits \in Seq(Int) /\ p.line \in Int /\ Wired(p.bits)
<1>1. netlist.outputs \in Seq(Members(netlist.outputs)) /\ \A p \in Members(netlist.outputs) : p.bits \in Seq(Int) /\ p.line \in Int
  BY NetlistsAssumption DEF Setting
<1>2. DOMAIN netlist.outputs = 1 .. Len(netlist.outputs) /\ Len(netlist.outputs) \in Nat
  BY <1>1
<1>3. \A n \in DOMAIN netlist.outputs : netlist.outputs[n] \in Members(netlist.outputs)
  BY DEF Members
<1>4. ASSUME NEW p \in Members(netlist.outputs) PROVE Wired(p.bits)
  <2>1. p.bits \in Read
    BY DEF Read
  <2> QED BY <1>1, <2>1, ReadIsWired
<1> QED BY <1>1, <1>2, <1>3, <1>4

LEMMA OutputKeeps == ASSUME ModuleInv, TranslateOutput PROVE HoldsNext
<1> DEFINE p == netlist.outputs[k]
           r == Expr(p.bits, p.line, Now)
<1>1. /\ phase = "outputs" /\ k <= Len(netlist.outputs) /\ k' = k + 1 /\ UNCHANGED domains /\ UNCHANGED registers
      /\ outputs' = Append(outputs, r.v) /\ Yields(r.st, "outputs")
  BY DEF TranslateOutput, AddOutput
<1>2. Setting /\ Holds(phase, k, Now, domains, registers, outputs)
  BY DEF ModuleInv
<1>3. Now \in Translations /\ Now.overflow = FALSE
      /\ Progress(phase, k, domains, registers, outputs) /\ Cautious(phase, Now, domains)
      /\ (Trusted(Now) => Right(phase, k, Now, registers, outputs))
  BY <1>1, <1>2 DEF Holds
<1>4. k \in 1 .. Len(netlist.outputs) + 1 /\ Len(outputs) = k - 1 /\ outputs \in Seq(Words) /\ registers \in Seq(Words)
  BY <1>1, <1>3 DEF Progress
<1>5. Len(netlist.outputs) \in Nat /\ DOMAIN netlist.outputs = 1 .. Len(netlist.outputs)
  BY <1>2, OutputPortsAre
<1>6. k \in 1 .. Len(netlist.outputs) /\ k \in DOMAIN netlist.outputs
  BY <1>1, <1>4, <1>5
<1>7. p.bits \in Seq(Int) /\ p.line \in Int /\ Wired(p.bits)
  BY <1>2, <1>6, OutputPortsAre
<1> HIDE DEF p
<1>8. /\ r.v \in Words /\ r.st \in Translations /\ Goes(Now, r.st)
      /\ Trusted(r.st) /\ Known(Now.cache) => Stands(p.bits, p.line, r.v) /\ Known(r.st.cache)
  BY <1>2, <1>3, <1>7, AloneIs
<1> HIDE DEF r
<1>9. "outputs" \in Phases
  BY DEF Phases
<1>10. /\ phase' = (IF r.st.overflow THEN "overflow" ELSE "outputs") /\ phase' \in Phases
       /\ [cache |-> cache', blocks |-> blocks', overflow |-> FALSE] = Kept(r.st)
       /\ phase' # "overflow" => phase' = "outputs" /\ Kept(r.st) = r.st
       /\ phase' \in {"outputs", "overflow"}
  BY <1>1, <1>8, <1>9, YieldsIs
<1>11. Kept(r.st) \in Translations /\ Kept(r.st).overflow = FALSE
  BY <1>8, KeptIs
<1>12. Cautious(phase', Kept(r.st), domains')
  <2>1. Cautious("outputs", Now, domains)
    BY <1>1, <1>3
  <2>2. Cautious(IF r.st.overflow THEN "overflow" ELSE "outputs", Kept(r.st), domains)
    BY <1>3, <1>8, <2>1, WalkIsCautious
  <2> QED BY <1>1, <1>10, <2>2
<1>13. outputs' \in Seq(Words) /\ Len(outputs') = k /\ DOMAIN outputs' = 1 .. k /\ outputs'[k] = r.v
       /\ \A n \in 1 .. k - 1 : outputs'[n] = outputs[n]
  BY <1>1, <1>4, <1>8
<1>14. Progress(phase', k', domains', registers', outputs')
  <2>1. k + 1 \in Nat /\ k + 1 \in 1 .. Len(netlist.outputs) + 1 /\ (k + 1) - 1 = k
    BY <1>5, <1>6
  <2>2. Len(registers) = Len(Flops)
    BY <1>1, <1>3 DEF Progress
  <2> QED BY <1>1, <1>4, <1>10, <1>13, <2>1, <2>2 DEF Progress
<1>15. ASSUME phase' # "overflow", Trusted(Kept(r.st)) PROVE Right(phase', k', Kept(r.st), registers', outputs')
  <2>1. phase' = "outputs" /\ Kept(r.st) = r.st /\ Trusted(r.st)
    BY <1>10, <1>15
  <2>2. Trusted(Now)
    BY <1>3, <1>8, <2>1, TrustedBefore
  <2>3. Right(phase, k, Now, registers, outputs)
    BY <1>3, <2>2
  <2>4. Known(r.st.cache) /\ Stands(p.bits, p.line, r.v)
    BY <1>8, <2>1, <2>3 DEF Right
  <2>5. ASSUME NEW m \in DOMAIN outputs' PROVE Stands(netlist.outputs[m].bits, netlist.outputs[m].line, outputs'[m])
    <3>1. CASE m = k
      BY <1>13, <2>4, <3>1 DEF p
    <3>2. CASE m # k
      <4>1. m \in 1 .. k - 1 /\ m \in DOMAIN outputs
        BY <1>4, <1>13, <3>2
      <4> QED BY <1>13, <2>3, <4>1 DEF Right
    <3> QED BY <3>1, <3>2
  <2> QED BY <1>1, <2>1, <2>3, <2>4, <2>5 DEF Right
<1> QED BY <1>10, <1>11, <1>12, <1>14, <1>15 DEF HoldsNext, Holds

LEMMA FinishKeeps == ASSUME ModuleInv, Finish PROVE HoldsNext
<1>1. /\ phase = "outputs" /\ k > Len(netlist.outputs) /\ phase' = (IF blocks = {} THEN "pass" ELSE "blocked")
      /\ UNCHANGED k /\ UNCHANGED cache /\ UNCHANGED blocks
      /\ UNCHANGED domains /\ UNCHANGED registers /\ UNCHANGED outputs
  BY DEF Finish
<1>2. Setting /\ Holds(phase, k, Now, domains, registers, outputs)
  BY DEF ModuleInv
<1>3. Now \in Translations /\ Now.overflow = FALSE
      /\ Progress(phase, k, domains, registers, outputs) /\ Cautious(phase, Now, domains)
      /\ (Trusted(Now) => Right(phase, k, Now, registers, outputs))
  BY <1>1, <1>2 DEF Holds
<1>4. [cache |-> cache', blocks |-> blocks', overflow |-> FALSE] = Now
  BY <1>1 DEF Now
<1>5. Progress(phase', k', domains', registers', outputs')
  <2>1. Len(netlist.outputs) \in Nat
    BY <1>2, OutputPortsAre
  <2>2. k - 1 = Len(netlist.outputs)
    BY <1>1, <1>3, <2>1 DEF Progress
  <2> QED BY <1>1, <1>3, <2>2 DEF Progress
<1>6. Cautious(phase', Now, domains')
  BY <1>1, <1>3, NowIs DEF Cautious
<1>7. Trusted(Now) => Right(phase', k', Now, registers', outputs')
  BY <1>1, <1>3 DEF Right
<1>8. phase' \in Phases
  BY <1>1 DEF Phases
<1> QED BY <1>3, <1>4, <1>5, <1>6, <1>7, <1>8 DEF HoldsNext, Holds

LEMMA ModuleStaysRight == ASSUME ModuleInv, Next PROVE ModuleInv'
<1>1. Setting
  BY DEF ModuleInv
<1>2. UNCHANGED <<netlist, policy, env>>
  BY DEF Next, Index, Collect, TranslateRegister, RegistersDone, TranslateInstance, Sweep, TranslateOutput, Finish, Untouched
<1>3. HoldsNext
  BY IndexKeeps, CollectKeeps, RegisterKeeps, RegistersDoneKeeps, InstanceKeeps, SweepKeeps, OutputKeeps, FinishKeeps DEF Next
<1> QED BY <1>1, <1>2, <1>3, ModuleStill

--------------------------------------------------------------------------------
LEMMA ModuleIsExact == ASSUME ModuleInv PROVE PassIsExact /\ PassIsAcyclic /\ OnlyUndrivenOverflows /\ EdgesStayApart
<1>1. Setting /\ Holds(phase, k, Now, domains, registers, outputs)
  BY DEF ModuleInv
<1>2. Progress(phase, k, domains, registers, outputs) /\ Cautious(phase, Now, domains)
  BY <1>1 DEF Holds
<1>3. ASSUME phase = "pass"
      PROVE  /\ Right(phase, k, Now, registers, outputs)
             /\ DOMAIN registers = DOMAIN Flops /\ DOMAIN outputs = DOMAIN netlist.outputs
  <2>1. Trusted(Now)
    BY <1>2, <1>3, NowIs DEF Cautious, Trusted
  <2>2. registers \in Seq(Words) /\ outputs \in Seq(Words) /\ Len(registers) = Len(Flops) /\ Len(outputs) = Len(netlist.outputs)
    BY <1>2, <1>3 DEF Progress
  <2>3. DOMAIN Flops = 1 .. Len(Flops) /\ DOMAIN netlist.outputs = 1 .. Len(netlist.outputs)
    BY <1>1, FlopsAndChildren, OutputPortsAre DEF FlopsAre
  <2> QED BY <1>1, <1>3, <2>1, <2>2, <2>3 DEF Holds
<1>4. PassIsExact
  <2> SUFFICES ASSUME phase = "pass", ResetsKnown, NEW sigma \in Solutions
               PROVE  /\ \A n \in DOMAIN outputs : outputs[n] = Means(sigma, netlist.outputs[n].bits, netlist.outputs[n].line)
                      /\ \A n \in DOMAIN registers : registers[n] = YosysNext(sigma, Cells[Flops[n]])
    BY DEF PassIsExact, Exact, Solutions
  <2>1. Right(phase, k, Now, registers, outputs)
    BY <1>3
  <2>2. \A n \in DOMAIN outputs : outputs[n] = Means(sigma, netlist.outputs[n].bits, netlist.outputs[n].line)
    BY <2>1 DEF Right, Stands
  <2>3. ASSUME NEW n \in DOMAIN registers PROVE registers[n] = YosysNext(sigma, Cells[Flops[n]])
    <3>1. <<Cells[Flops[n]], registers[n]>> \in Clocks
      BY <2>1 DEF Right
    <3>2. NextIsRight(Cells[Flops[n]], registers[n])
      BY <3>1 DEF Clocks
    <3> QED BY <3>2 DEF NextIsRight
  <2> QED BY <2>2, <2>3
<1>5. PassIsAcyclic
  <2> SUFFICES ASSUME phase = "pass" PROVE Needed \subseteq Settled
    BY DEF PassIsAcyclic
  <2>1. Right(phase, k, Now, registers, outputs)
    BY <1>3
  <2>2. ASSUME NEW i \in Members(Flops)
        PROVE  i \in Settled /\ \A v \in Members(Controls(Cells[i])) : Feeding(v) \subseteq Settled
    <3>1. PICK n \in DOMAIN Flops : i = Flops[n]
      BY DEF Members
    <3>2. Cells[i] \in Controlled
      BY <1>3, <2>1, <3>1 DEF Right
    <3>3. i \in DOMAIN Cells /\ Cells[i].kind \in Sequential
      BY <1>1, FlopsAndChildren DEF FlopsAre
    <3>4. i \notin Combinational
      BY <3>3 DEF Combinational, Sequential, SupportedComb, UnaryOps, ReduceOps, LogicOps, ArithOps, Compares
    <3>5. i \in Settled
      BY <1>1, <3>3, <3>4, SettledIs DEF ClosedUnder
    <3> QED BY <3>2, <3>5 DEF Controlled, ControlsSettle
  <2>3. ASSUME NEW p \in Members(netlist.outputs) PROVE Feeding(p.bits) \subseteq Settled
    <3>1. PICK n \in DOMAIN netlist.outputs : p = netlist.outputs[n]
      BY DEF Members
    <3> QED BY <1>3, <2>1, <3>1 DEF Right, Stands
  <2>4. ASSUME NEW i \in Members(Children) PROVE Feeding(Cells[i].A) \subseteq Settled
    <3>1. PICK n \in DOMAIN Children : i = Children[n]
      BY DEF Members
    <3>2. ChildSettles(n)
      BY <2>1, <3>1 DEF Right
    <3> QED BY <3>1, <3>2 DEF ChildSettles
  <2>5. Emitted \subseteq Settled
    BY <2>2, <2>3, <2>4 DEF Emitted
  <2> QED BY <1>1, <2>5, NeededIs
<1>6. OnlyUndrivenOverflows
  BY <1>2 DEF Cautious, Undriven, OnlyUndrivenOverflows
<1>7. EdgesStayApart
  <2> SUFFICES ASSUME NEW m \in DOMAIN domains, NEW n \in DOMAIN domains, domains[m] = domains[n]
               PROVE  Cells[Flops[m]].clk = Cells[Flops[n]].clk /\ Cells[Flops[m]].rising = Cells[Flops[n]].rising
    BY DEF EdgesStayApart
  <2>1. phase \notin {"index", "collect"}
    <3>1. DOMAIN <<>> = {}
      OBVIOUS
    <3> QED BY <1>2, <3>1 DEF Progress
  <2>2. domains = [x \in DOMAIN Flops |-> DomainOf(Flops[x])]
    BY <1>2, <2>1 DEF Cautious
  <2>3. DomainOf(Flops[m]) = DomainOf(Flops[n])
    BY <2>2
  <2> QED BY <2>3 DEF DomainOf
<1> QED BY <1>4, <1>5, <1>6, <1>7

LEMMA RecordIsRight == ASSUME ModuleInv PROVE NativeCellsTranslate /\ SameDomains
<1>1. Setting /\ Holds(phase, k, Now, domains, registers, outputs)
  BY DEF ModuleInv
<1>2. Cautious(phase, Now, domains) /\ Now.blocks = blocks
  BY <1>1, NowIs DEF Holds
<1>3. NativeCellsTranslate
  <2> SUFFICES ASSUME Record.unsupported = {}, NEW b \in blocks, b[1] = "yosys_cell" PROVE FALSE
    BY DEF NativeCellsTranslate
  <2>1. Alien
    BY <1>2 DEF Cautious
  <2>2. PICK j \in DOMAIN Cells : Cells[j].kind \notin {"child"} \cup Sequential \cup SupportedComb
    BY <2>1 DEF Alien
  <2>3. Cells[j].kind \notin NativeCells \cup {"child"}
    BY <2>2 DEF NativeCells, Sequential
  <2>4. Cells[j].kind \in Record.unsupported
    <3>1. Cells[j].kind \in Unsupported
      BY <2>3 DEF Unsupported, KindOf
    <3> QED BY <3>1 DEF Record
  <2> QED BY <2>4
<1>4. ASSUME Finished, {i \in DOMAIN Cells : KindOf(i) \in {"$aldff", "$aldffe"}} = {}
      PROVE  Record.clock_domains = {domains[n] : n \in DOMAIN domains}
  <2>1. Members(Flops) = {i \in DOMAIN Cells : Cells[i].kind \in Sequential}
    BY <1>1, FlopsAndChildren DEF FlopsAre
  <2>2. DOMAIN ResetOf = Sequential \cup {"$aldff", "$aldffe"}
    BY DEF ResetOf
  <2>3. Clocked = Members(Flops)
    <3>1. \A i \in DOMAIN Cells : Cells[i].kind \notin {"$aldff", "$aldffe"}
      BY <1>4 DEF KindOf
    <3> QED BY <2>1, <2>2, <3>1 DEF Clocked, KindOf
  <2>4. domains = [n \in DOMAIN Flops |-> DomainOf(Flops[n])]
    BY <1>2, <1>4 DEF Cautious, Finished
  <2>5. Record.clock_domains = {DomainOf(i) : i \in Members(Flops)}
    BY <2>3 DEF Record, DomainOf
  <2>6. {DomainOf(i) : i \in Members(Flops)} = {DomainOf(Flops[n]) : n \in DOMAIN Flops}
    BY DEF Members
  <2>7. {domains[n] : n \in DOMAIN domains} = {DomainOf(Flops[n]) : n \in DOMAIN Flops}
    <3>1. DOMAIN domains = DOMAIN Flops /\ \A n \in DOMAIN Flops : domains[n] = DomainOf(Flops[n])
      BY <2>4
    <3> QED BY <3>1
  <2> QED BY <2>5, <2>6, <2>7
<1>5. ASSUME Finished, \E r \in Record.resets : r[2] \in {"asynchronous", "asynchronous_load"}
      PROVE  phase = "blocked"
  <2>1. PICK i \in Clocked : ResetOf[KindOf(i)] \in {"asynchronous", "asynchronous_load"}
    <3>1. PICK r \in Record.resets : r[2] \in {"asynchronous", "asynchronous_load"}
      BY <1>5
    <3>2. r \in {<<i, ResetOf[KindOf(i)]>> : i \in {j \in Clocked : ResetOf[KindOf(j)] # "none"}}
      BY <3>1 DEF Record
    <3>3. PICK i \in Clocked : r = <<i, ResetOf[KindOf(i)]>>
      BY <3>2
    <3> QED BY <3>1, <3>3
  <2>2. i \in DOMAIN Cells /\ KindOf(i) \in Sequential \cup {"$aldff", "$aldffe"}
    BY DEF Clocked, ResetOf
  <2>3. KindOf(i) \in {"$adff", "$adffe", "$aldff", "$aldffe"}
    <3>1. ResetOf[KindOf(i)] = CASE KindOf(i) \in {"$dff", "$dffe"} -> "none"
                                 [] KindOf(i) \in Resets -> "synchronous"
                                 [] KindOf(i) \in {"$adff", "$adffe"} -> "asynchronous"
                                 [] OTHER -> "asynchronous_load"
      BY <2>2 DEF ResetOf
    <3>2. CASE KindOf(i) \in {"$dff", "$dffe"}
      BY <2>1, <3>1, <3>2 DEF Resets
    <3>3. CASE KindOf(i) \in Resets
      BY <2>1, <3>1, <3>3 DEF Resets
    <3> QED BY <2>2, <3>2, <3>3 DEF Sequential, Resets
  <2>4. CASE KindOf(i) \in {"$adff", "$adffe"}
    <3>1. Cells[i].kind \in {"$adff", "$adffe"}
      BY <2>4 DEF KindOf
    <3>2. i \in Members(Flops)
      BY <1>1, <2>2, <3>1, FlopsAndChildren DEF FlopsAre, Sequential
    <3>3. AsyncFlop
      BY <3>1, <3>2 DEF AsyncFlop
    <3>4. blocks # {}
      BY <1>2, <1>5, <3>3 DEF Cautious, Finished
    <3> QED BY <1>2, <1>5, <3>4 DEF Cautious, Finished
  <2>5. CASE KindOf(i) \in {"$aldff", "$aldffe"}
    <3>1. Cells[i].kind \notin {"child"} \cup Sequential \cup SupportedComb
      BY <2>5 DEF KindOf, Sequential, SupportedComb, UnaryOps, ReduceOps, LogicOps, ArithOps, Compares
    <3>2. Alien
      BY <2>2, <3>1 DEF Alien
    <3>3. blocks # {}
      BY <1>2, <1>5, <3>2 DEF Cautious, Finished
    <3> QED BY <1>2, <1>5, <3>3 DEF Cautious, Finished
  <2> QED BY <2>3, <2>4, <2>5
<1> QED BY <1>3, <1>4, <1>5 DEF SameDomains

\* The module among the parts of the importer.
InModule == part = "module" => ModuleInv
LEMMA InModuleStarts == ImportInit => InModule
BY ModuleStarts DEF ImportInit, InModule
LEMMA InModuleKeeps == InModule /\ [ImportNext]_allVars => InModule'
<1> SUFFICES ASSUME InModule, [ImportNext]_allVars, part' = "module" PROVE ModuleInv'
  BY DEF InModule
<1>1. CASE ModuleStep
  BY <1>1, ModuleStaysRight DEF ModuleStep, InModule
<1>2. CASE UNCHANGED allVars
  <2>1. part = "module" /\ ModuleInv
    BY <1>2 DEF allVars, InModule
  <2>2. UNCHANGED <<netlist, policy, env>> /\ Setting
    BY <1>2, <2>1 DEF allVars, ofModule, ModuleInv
  <2>3. HoldsNext
    <3>1. /\ UNCHANGED phase /\ UNCHANGED k /\ UNCHANGED cache /\ UNCHANGED blocks /\ UNCHANGED domains
          /\ UNCHANGED registers /\ UNCHANGED outputs
      BY <1>2 DEF allVars, ofModule, ofEither
    <3> QED BY <2>1, <3>1, NowIs DEF ModuleInv, HoldsNext
  <2> QED BY <2>2, <2>3, ModuleStill
<1> QED BY <1>1, <1>2 DEF ImportNext, CellStep, MemoryStep, PackageStep

\* A module that passes means what its netlist means, every output and the next
\* value of every register, whatever the values of its nets: netlists of any
\* size, any policy. Code: expr, cell_expr, constant, translate.
THEOREM ModulesMeanTheirNetlists == ImportSpec => []ModulesAreExact
<1>1. InModule => ModulesAreExact
  BY ModuleIsExact DEF InModule, ModulesAreExact
<1> QED BY <1>1, InModuleStarts, InModuleKeeps, PTL DEF ImportSpec

\* What the inventory takes for native meets no unknown cell in the importer,
\* both see the same clocks, and an asynchronous reset of the inventory blocks
\* the import. Code: module_record, translate.
THEOREM InventoriesAgree == ImportSpec => []InventoryAgrees
<1>1. InModule => InventoryAgrees
  BY RecordIsRight DEF InModule, InventoryAgrees
<1> QED BY <1>1, InModuleStarts, InModuleKeeps, PTL DEF ImportSpec
================================================================================
