--------------------------- MODULE KianvProofs ---------------------------
(***************************************************************************)
(* What the evidence calls proved is the same in both designs it binds, for  *)
(* designs, packages, contracts and selections of any size.  While a call     *)
(* runs, the results whose designs were not replaced since are about the      *)
(* files on the disk; the report binds those files, and the evidence is a    *)
(* report.  That it leaves no module out is a matter of counting: the        *)
(* selection is made of modules of the package the call loaded, and the       *)
(* report is accepted for as many.                                          *)
(*                                                                         *)
(* What is handed over and verified can be built, for hierarchies of any     *)
(* depth: the files of a manifest are of one accepted call, whose paths were  *)
(* translated once each, and along those paths every module has power.       *)
(***************************************************************************)
EXTENDS MCKianv, Induction, FiniteSetTheorems

\* The results that are not stale are about the two designs.
AreTrue(results, stale, e, m) ==
  \A i \in DOMAIN results \ stale : results[i].status = "PASS" => Same(e, m, results[i].module)

\* A call has the fields that Start gives it, and a sequence of results.
CallShape ==
  running # None =>
    \E d, l, c, s, r, S, t, p :
      /\ r \in Seq(S)
      /\ running = [design |-> d, loaded |-> l, contract |-> c, selected |-> s, results |-> r,
                    stale |-> t, repackaged |-> p]

\* The results of a call and of a report are true where they are not stale.
CallIsTrue == running # None => AreTrue(running.results, running.stale, elaborated, emitted)
ReportIsTrue ==
  report # None => AreTrue(report.results, report.stale, report.elaborated, report.emitted)
IInv == CallShape /\ CallIsTrue /\ ReportIsTrue /\ EvidenceIsTrue

\* One more result, true if it is a pass, keeps the results true.
LEMMA AppendIsTrue ==
  ASSUME NEW S, NEW r \in Seq(S), NEW x, NEW t, NEW e, NEW m,
         AreTrue(r, t, e, m), x.status = "PASS" => Same(e, m, x.module)
  PROVE  AreTrue(Append(r, x), t, e, m)
<1> DEFINE T == S \cup {x}
<1>1. r \in Seq(T) /\ x \in T
  OBVIOUS
<1> HIDE DEF T
<1>2. Append(r, x) \in Seq(T) /\ Len(Append(r, x)) = Len(r) + 1
  BY <1>1
<1>3. SUFFICES ASSUME NEW i \in DOMAIN Append(r, x) \ t, Append(r, x)[i].status = "PASS"
               PROVE  Same(e, m, Append(r, x)[i].module)
  BY DEF AreTrue
<1>4. i \in 1..Len(r) + 1
  BY <1>2
<1>5. CASE i \in 1..Len(r)
  <2>1. Append(r, x)[i] = r[i] /\ i \in DOMAIN r \ t
    BY <1>1, <1>3, <1>5
  <2> QED BY <2>1, <1>3 DEF AreTrue
<1>6. CASE i = Len(r) + 1
  <2>1. Append(r, x)[i] = x
    BY <1>1, <1>6
  <2> QED BY <2>1, <1>3
<1> QED BY <1>1, <1>4, <1>5, <1>6

\* Recording a status that is true if it is a pass keeps the call in shape.
LEMMA RecordIsTrue ==
  ASSUME CallShape, CallIsTrue, running # None, NEW status, NEW contract, Record(status, contract),
         status = "PASS" => Same(elaborated, emitted, Name), UNCHANGED files
  PROVE  CallShape' /\ CallIsTrue'
<1>1. PICK d, l, c, s, r, S, t, p :
        /\ r \in Seq(S)
        /\ running = [design |-> d, loaded |-> l, contract |-> c, selected |-> s, results |-> r,
                      stale |-> t, repackaged |-> p]
  BY DEF CallShape
<1> DEFINE x == [module |-> Name, status |-> status, contract |-> contract]
<1>2. running' = [design |-> d, loaded |-> l, contract |-> c, selected |-> s, results |-> Append(r, x),
                  stale |-> t, repackaged |-> p]
  BY <1>1 DEF Record
<1>3. Append(r, x) \in Seq(S \cup {x})
  <2> HIDE DEF x
  <2>1. r \in Seq(S \cup {x})
    BY <1>1
  <2> QED BY <2>1
<1>4. CallShape'
  <2> HIDE DEF x
  <2> QED BY <1>2, <1>3 DEF CallShape
<1>5. AreTrue(Append(r, x), t, elaborated, emitted)
  <2>1. AreTrue(r, t, elaborated, emitted)
    BY <1>1 DEF CallIsTrue
  <2>2. x.status = "PASS" => Same(elaborated, emitted, x.module)
    OBVIOUS
  <2> HIDE DEF x
  <2> QED BY <1>1, <2>1, <2>2, AppendIsTrue
<1>6. CallIsTrue'
  <2>1. running'.results = Append(r, x) /\ running'.stale = t
    BY <1>2
  <2>2. elaborated' = elaborated /\ emitted' = emitted
    BY DEF files
  <2>3. SUFFICES AreTrue(running'.results, running'.stale, elaborated', emitted')
    BY DEF CallIsTrue, AreTrue, Same
  <2> HIDE DEF x
  <2> QED BY <1>5, <2>1, <2>2
<1> QED BY <1>4, <1>6

\* No call, report or evidence exists at first.
LEMMA InitTrue == Init => IInv
BY DEF Init, IInv, CallShape, CallIsTrue, ReportIsTrue, EvidenceIsTrue

\* Every step keeps what a call, its report and the evidence say true.
LEMMA StepTrue == IInv /\ [Next]_vars => IInv'
<1> SUFFICES ASSUME IInv, [Next]_vars PROVE IInv'
  OBVIOUS
<1> USE DEF IInv
<1>1. CASE Convert
  <2>1. UNCHANGED <<report, evidence>>
    BY <1>1 DEF Convert
  <2>2. ReportIsTrue' /\ EvidenceIsTrue'
    BY <2>1 DEF ReportIsTrue, EvidenceIsTrue, AreTrue, Same
  <2>3. CASE running = None
    <3>1. running' = None
      BY <1>1, <2>3 DEF Convert
    <3> QED BY <2>2, <3>1 DEF CallShape, CallIsTrue
  <2>4. CASE running # None
    <3>1. PICK d, l, c, s, r, S, t, p :
            /\ r \in Seq(S)
            /\ running = [design |-> d, loaded |-> l, contract |-> c, selected |-> s, results |-> r,
                          stale |-> t, repackaged |-> p]
      BY <2>4 DEF CallShape
    <3>2. \/ running' = [running EXCEPT !.stale = DOMAIN running.results]
          \/ running' = [running EXCEPT !.repackaged = TRUE] /\ UNCHANGED <<elaborated, emitted>>
      BY <1>1, <2>4 DEF Convert
    <3>3. CASE running' = [running EXCEPT !.stale = DOMAIN running.results]
      <4>1. running' = [design |-> d, loaded |-> l, contract |-> c, selected |-> s, results |-> r,
                        stale |-> DOMAIN r, repackaged |-> p]
        BY <3>1, <3>3
      <4>2. CallShape'
        BY <3>1, <4>1 DEF CallShape
      <4>3. running'.results = r /\ running'.stale = DOMAIN r
        BY <4>1
      <4>4. CallIsTrue'
        BY <4>3 DEF CallIsTrue, AreTrue
      <4> QED BY <2>2, <4>2, <4>4
    <3>4. CASE running' = [running EXCEPT !.repackaged = TRUE] /\ UNCHANGED <<elaborated, emitted>>
      <4>1. running' = [design |-> d, loaded |-> l, contract |-> c, selected |-> s, results |-> r,
                        stale |-> t, repackaged |-> TRUE]
        BY <3>1, <3>4
      <4>2. CallShape'
        BY <3>1, <4>1 DEF CallShape
      <4>3. /\ running'.results = r /\ running'.stale = t
            /\ running.results = r /\ running.stale = t
        BY <3>1, <4>1
      <4>4. CallIsTrue'
        BY <2>4, <3>4, <4>3 DEF CallIsTrue, AreTrue, Same
      <4> QED BY <2>2, <4>2, <4>4
    <3> QED BY <3>2, <3>3, <3>4
  <2> QED BY <2>3, <2>4
<1>2. CASE Contract
  <2>1. CallShape' /\ CallIsTrue'
    BY <1>2, RecordIsTrue DEF Contract, Busy
  <2>2. ReportIsTrue' /\ EvidenceIsTrue'
    BY <1>2 DEF Contract, ReportIsTrue, EvidenceIsTrue, AreTrue, Same
  <2> QED BY <2>1, <2>2
<1>3. CASE Prove
  <2>1. UNCHANGED <<files, edits, report, evidence>> /\ running # None
    BY <1>3 DEF Prove, Busy
  <2>2. CASE Record(Verdict, None)
    <3>1. Verdict = "PASS" => Same(elaborated, emitted, Name)
      BY DEF Verdict
    <3> QED BY <2>1, <2>2, <3>1, RecordIsTrue DEF ReportIsTrue, EvidenceIsTrue, AreTrue, Same
  <2>3. CASE Record("TIMEOUT", None)
    <3>1. "TIMEOUT" = "PASS" => Same(elaborated, emitted, Name)
      OBVIOUS
    <3> QED BY <2>1, <2>3, <3>1, RecordIsTrue DEF ReportIsTrue, EvidenceIsTrue, AreTrue, Same
  <2> QED BY <1>3, <2>2, <2>3 DEF Prove
<1>4. CASE Stop
  BY <1>4 DEF Stop, CallShape, CallIsTrue, ReportIsTrue, EvidenceIsTrue, AreTrue, Same
<1>5. CASE Finish
  <2>1. /\ running # None /\ running' = None /\ UNCHANGED <<files, edits, evidence>>
        /\ report'.stale = running.stale /\ report'.results = running.results
        /\ report'.elaborated = elaborated /\ report'.emitted = emitted
    BY <1>5 DEF Finish, Bound
  <2>2. CallShape' /\ CallIsTrue'
    BY <2>1 DEF CallShape, CallIsTrue
  <2>3. ReportIsTrue'
    BY <2>1 DEF ReportIsTrue, CallIsTrue, AreTrue, Same
  <2>4. EvidenceIsTrue'
    BY <2>1 DEF EvidenceIsTrue, Same
  <2> QED BY <2>2, <2>3, <2>4
<1>6. CASE Publish
  <2>1. report # None /\ evidence' = report /\ UNCHANGED <<files, edits, running, report>>
    BY <1>6 DEF Publish
  <2>2. CallShape' /\ CallIsTrue' /\ ReportIsTrue'
    BY <2>1 DEF files, CallShape, CallIsTrue, ReportIsTrue, AreTrue, Same
  <2>3. EvidenceIsTrue'
    BY <2>1 DEF EvidenceIsTrue, ReportIsTrue, AreTrue, Same
  <2> QED BY <2>2, <2>3
<1>7. ASSUME NEW wanted \in Selections, NEW leavesOnly \in BOOLEAN, NEW contract \in Contracts \cup {None},
             Start(wanted, leavesOnly, contract)
      PROVE  IInv'
  <2>1. UNCHANGED <<files, edits, report, evidence>>
        /\ running' = [design |-> elaborated, loaded |-> package, contract |-> contract,
                       selected |-> Selected(wanted, leavesOnly), results |-> <<>>,
                       stale |-> {}, repackaged |-> FALSE]
    BY <1>7 DEF Start
  <2>2. <<>> \in Seq({})
    OBVIOUS
  <2>3. CallShape'
    BY <2>1, <2>2 DEF CallShape
  <2>4. running'.results = <<>> /\ running'.stale = {}
    BY <2>1
  <2>5. AreTrue(<<>>, {}, elaborated', emitted')
    BY DEF AreTrue
  <2>6. CallIsTrue'
    BY <2>4, <2>5 DEF CallIsTrue, AreTrue, Same
  <2>7. ReportIsTrue' /\ EvidenceIsTrue'
    BY <2>1 DEF ReportIsTrue, EvidenceIsTrue, AreTrue, Same
  <2> QED BY <2>3, <2>6, <2>7
<1>8. CASE UNCHANGED vars
  BY <1>8 DEF vars, files, CallShape, CallIsTrue, ReportIsTrue, EvidenceIsTrue, AreTrue, Same
<1> QED BY <1>1, <1>2, <1>3, <1>4, <1>5, <1>6, <1>7, <1>8 DEF Next

\* Whatever is selected, contracted, killed or published and whenever designs
\* are replaced, a module the evidence calls proved is the same in both designs
\* it binds, unless one was replaced between its comparison and the digests.
\* Code: main of the runner and of the evidence script.
THEOREM EvidenceTruth == Spec => []EvidenceIsTrue
<1>1. IInv => EvidenceIsTrue
  BY DEF IInv
<1> QED BY InitTrue, StepTrue, <1>1, PTL DEF Spec
--------------------------------------------------------------------------------
(* The selection.                                                            *)

\* A sequence made of members of the package.
LEMMA SelectedAreMembers ==
  ASSUME NEW ms, Len(ms) \in Nat, DOMAIN ms = 1 .. Len(ms), NEW w, NEW l
  PROVE  SelectedOf(ms, w, l)[Len(ms)] \in Seq({ms[i] : i \in DOMAIN ms})
<1> DEFINE N == Len(ms)
           M == {ms[i] : i \in DOMAIN ms}
           R == Seq(M)
           Step(n, s) == IF n < N /\ IsSelected(ms[n + 1], w, l) THEN Append(s, ms[n + 1]) ELSE s
           F == [p \in Nat \X R |-> Step(p[1], p[2])]
           Body(f) == [n \in 0 .. N |->
                         IF n = 0 THEN <<>>
                         ELSE IF IsSelected(ms[n], w, l) THEN Append(f[n - 1], ms[n]) ELSE f[n - 1]]
<1>1. <<>> \in R
  OBVIOUS
<1>2. ASSUME NEW n \in Nat, NEW s \in R PROVE Step(n, s) \in R
  <2>1. CASE n < N /\ IsSelected(ms[n + 1], w, l)
    <3>1. n + 1 \in DOMAIN ms
      BY <2>1
    <3>2. ms[n + 1] \in M
      BY <3>1
    <3> HIDE DEF M
    <3> QED BY <2>1, <3>2
  <2>2. CASE ~(n < N /\ IsSelected(ms[n + 1], w, l))
    BY <2>2
  <2> QED BY <2>1, <2>2
<1>3. F \in [Nat \X R -> R]
  <2> HIDE DEF R, Step
  <2> QED BY <1>2
<1>4. \A n \in Nat, s \in R : F[<<n, s>>] = Step(n, s)
  <2> HIDE DEF R, Step
  <2> QED OBVIOUS
<1>5. PICK f : Iterates(f, R, <<>>, F, N)
  <2> HIDE DEF R, F
  <2> QED BY <1>1, <1>3, Recursion
<1>6. /\ f \in [0 .. N -> R] /\ f[0] = <<>>
      /\ \A n \in 0 .. N - 1 : f[n + 1] = Step(n, f[n])
  <2> HIDE DEF R, F, Step
  <2>1. f \in [0 .. N -> R] /\ f[0] = <<>> /\ \A n \in 0 .. N - 1 : f[n + 1] = F[<<n, f[n]>>]
    BY <1>5 DEF Iterates
  <2>2. \A n \in 0 .. N - 1 : n \in Nat /\ n \in 0 .. N
    OBVIOUS
  <2> QED BY <1>4, <2>1, <2>2
<1>7. f = Body(f)
  <2>1. ASSUME NEW n \in 0 .. N
        PROVE  f[n] = IF n = 0 THEN <<>>
                      ELSE IF IsSelected(ms[n], w, l) THEN Append(f[n - 1], ms[n]) ELSE f[n - 1]
    <3>1. CASE n = 0
      BY <1>6, <3>1
    <3>2. CASE n # 0
      <4>1. n - 1 \in 0 .. N - 1 /\ n - 1 + 1 = n /\ n - 1 < N
        BY <3>2
      <4>2. f[n] = Step(n - 1, f[n - 1])
        <5> HIDE DEF R, Step
        <5> QED BY <1>6, <4>1
      <4> QED BY <3>2, <4>1, <4>2
    <3> QED BY <3>1, <3>2
  <2>2. f = [n \in 0 .. N |-> f[n]]
    BY <1>6
  <2> QED BY <2>1, <2>2
<1> DEFINE sel == SelectedOf(ms, w, l)
<1>8. sel = Body(sel)
  <2>1. sel = CHOOSE g : g = Body(g)
    BY DEF SelectedOf
  <2> HIDE DEF Body, sel
  <2> QED BY <1>7, <2>1
<1>9. \A n \in 0 .. N : sel[n] = IF n = 0 THEN <<>>
                               ELSE IF IsSelected(ms[n], w, l) THEN Append(sel[n - 1], ms[n]) ELSE sel[n - 1]
  <2> HIDE DEF sel
  <2> QED BY <1>8
<1> HIDE DEF sel
<1> DEFINE S == {n \in Nat : n <= N => sel[n] \in R}
<1>10. 0 \in S
  <2>1. sel[0] = <<>>
    BY <1>9
  <2> QED BY <1>1, <2>1
<1>11. ASSUME NEW n \in Nat, n \in S PROVE n + 1 \in S
  <2> SUFFICES ASSUME n + 1 <= N PROVE sel[n + 1] \in R
    OBVIOUS
  <2>1. sel[n] \in R /\ n < N /\ n + 1 \in 0 .. N /\ n + 1 # 0 /\ n + 1 - 1 = n
    BY <1>11
  <2>2. sel[n + 1] = Step(n, sel[n])
    BY <1>9, <2>1
  <2> HIDE DEF R, Step
  <2> QED BY <1>2, <2>1, <2>2
<1>12. N \in S
  <2> HIDE DEF S
  <2> QED BY <1>10, <1>11, SetInduction
<1> QED BY <1>12 DEF sel

\* Whatever is selected is in the package.
LEMMA SelectedInPackage ==
  ASSUME package \in Packages, NEW w, NEW l, NEW i \in DOMAIN Selected(w, l)
  PROVE  Selected(w, l)[i].name \in NamesOf(package)
<1> DEFINE M == {package[j] : j \in DOMAIN package}
<1>1. Selected(w, l) \in Seq(M)
  BY PackagesAssumption, SelectedAreMembers DEF Selected
<1>2. Selected(w, l)[i] \in M
  <2> HIDE DEF M
  <2> QED BY <1>1
<1> QED BY <1>2 DEF NamesOf

--------------------------------------------------------------------------------
(* The count.                                                                *)

\* What a call has selected, and what its report says of it, is in the package
\* it loaded, which is the file's until a conversion replaces it.
CallIsInside == running # None =>
  /\ running.loaded \in Packages
  /\ running.loaded = package \/ running.repackaged
  /\ \A i \in DOMAIN running.selected : running.selected[i].name \in NamesOf(running.loaded)
ReportIsInside(r) ==
  /\ r.loaded \in Packages
  /\ \E S : r.results \in Seq(S)
  /\ r.package = r.loaded \/ r.repackaged
  /\ \A i \in DOMAIN r.selected : r.selected[i] \in NamesOf(r.loaded)
CInv == /\ package \in Packages
        /\ CallIsInside
        /\ report # None => ReportIsInside(report)
        /\ evidence # None => ReportIsInside(evidence) /\ Accepted(evidence)

\* The numbers up to n are n.
LEMMA CountTo ==
  ASSUME NEW n \in Nat
  PROVE  IsFiniteSet(1 .. n) /\ Cardinality(1 .. n) = n
<1>1. 1 \in Int /\ n \in Int
  OBVIOUS
<1>2. IsFiniteSet(1 .. n) /\ Cardinality(1 .. n) = IF 1 > n THEN 0 ELSE n - 1 + 1
  BY <1>1, FS_Interval
<1>3. CASE n = 0
  BY <1>2, <1>3
<1>4. CASE n # 0
  BY <1>2, <1>4
<1> QED BY <1>3, <1>4

\* A package has no more names than modules.
LEMMA NamesAreFew ==
  ASSUME NEW p \in Packages
  PROVE  IsFiniteSet(NamesOf(p)) /\ Cardinality(NamesOf(p)) <= Len(p)
<1> DEFINE f == [i \in 1 .. Len(p) |-> p[i].name]
<1>1. Len(p) \in Nat /\ DOMAIN p = 1 .. Len(p)
  BY PackagesAssumption
<1>2. f \in Surjection(1 .. Len(p), NamesOf(p))
  BY <1>1 DEF Surjection, NamesOf
<1>3. IsFiniteSet(1 .. Len(p)) /\ Cardinality(1 .. Len(p)) = Len(p)
  BY <1>1, CountTo
<1> QED BY <1>2, <1>3, FS_Surjection

\* An accepted report of a call that loaded a package of the expected size
\* names every module of it, and has one contract, the memory's.
LEMMA AcceptedIsComplete ==
  ASSUME NEW r, ReportIsInside(r), Accepted(r), Len(r.loaded) = Expected
  PROVE  Covers(r, r.loaded)
<1> DEFINE D == DOMAIN r.results
           T == {r.results[i].module : i \in D}
           A == NamesOf(r.loaded)
           P == Positions(r, "PASS")
           C == Positions(r, "CONTRACT")
<1>1. r.loaded \in Packages /\ Expected \in Nat
  BY PackagesAssumption DEF ReportIsInside
<1>2. /\ Len(r.results) = Expected
      /\ [i \in D |-> r.results[i].module] = r.selected
      /\ Cardinality(T) = Expected
      /\ Cardinality(P) = Expected - 1 /\ Cardinality(C) = 1
      /\ \A i \in C : r.results[i].contract = "sram"
  BY DEF Accepted
<1>3. D = 1 .. Expected
  BY <1>2 DEF ReportIsInside
<1>4. T = A
  <2>1. T \subseteq A
    <3>1. \A i \in D : i \in DOMAIN r.selected /\ r.selected[i] = r.results[i].module
      BY <1>2
    <3> QED BY <3>1 DEF ReportIsInside
  <2>2. IsFiniteSet(A) /\ Cardinality(A) <= Expected
    BY <1>1, NamesAreFew
  <2> HIDE DEF T, A
  <2>3. /\ Cardinality(T) <= Cardinality(A)
        /\ Cardinality(A) = Cardinality(T) => A = T
    BY <2>1, <2>2, FS_Subset
  <2>4. Cardinality(A) \in Nat
    BY <2>2, FS_CardinalityType
  <2> QED BY <1>1, <1>2, <2>2, <2>3, <2>4
<1>5. /\ IsFiniteSet(D) /\ Cardinality(D) = Expected
      /\ P \subseteq D /\ C \subseteq D /\ P \cap C = {}
  BY <1>1, <1>3, CountTo DEF Positions
<1> HIDE DEF D, P, C
<1>6. IsFiniteSet(P) /\ IsFiniteSet(C)
  BY <1>5, FS_Subset
<1>7. P \cup C = D
  <2>1. Cardinality(P \cup C) = Cardinality(P) + Cardinality(C) - Cardinality(P \cap C)
    BY <1>6, FS_Union
  <2>2. Cardinality(P \cap C) = 0
    BY <1>5, FS_EmptySet
  <2>3. Cardinality(P \cup C) = Expected
    BY <1>1, <1>2, <2>1, <2>2
  <2>4. P \cup C \subseteq D
    BY <1>5
  <2> QED BY <1>5, <2>3, <2>4, FS_Subset
<1>8. PICK i : C = {i}
  BY <1>2, <1>6, FS_Singleton
<1>9. i \in D /\ r.results[i].status = "CONTRACT" /\ r.results[i].contract = "sram"
  BY <1>2, <1>5, <1>8 DEF C, D, Positions
<1>10. ASSUME NEW j \in D, j # i PROVE r.results[j].status = "PASS"
  <2>1. j \in P
    BY <1>7, <1>8, <1>10
  <2> QED BY <2>1 DEF P, Positions
<1> QED BY <1>4, <1>9, <1>10 DEF D, Covers

\* Every step keeps what is selected inside the package.
LEMMA StepInside == CallShape /\ CInv /\ [Next]_vars => CInv'
<1> SUFFICES ASSUME CallShape, CInv, [Next]_vars PROVE CInv'
  OBVIOUS
<1> USE DEF CInv
<1>1. CASE Convert
  <2>1. package' \in Packages /\ UNCHANGED <<report, evidence>>
    BY <1>1 DEF Convert
  <2>2. CallIsInside'
    <3>1. SUFFICES ASSUME running # None PROVE CallIsInside'
      BY <1>1 DEF Convert, CallIsInside
    <3>2. PICK d, l, c, s, r, t, p :
            running = [design |-> d, loaded |-> l, contract |-> c, selected |-> s, results |-> r,
                       stale |-> t, repackaged |-> p]
      BY <3>1 DEF CallShape
    <3>3. \/ running' = [running EXCEPT !.stale = DOMAIN running.results] /\ UNCHANGED package
          \/ running' = [running EXCEPT !.repackaged = TRUE]
      BY <1>1, <3>1 DEF Convert
    <3>4. /\ running'.loaded = running.loaded /\ running'.selected = running.selected
          /\ \/ running'.repackaged = running.repackaged /\ package' = package
             \/ running'.repackaged
      BY <3>2, <3>3
    <3> QED BY <3>1, <3>4 DEF CallIsInside, NamesOf
  <2>3. (report # None => ReportIsInside(report))'
    BY <2>1 DEF ReportIsInside, NamesOf
  <2>4. (evidence # None => ReportIsInside(evidence) /\ Accepted(evidence))'
    BY <2>1 DEF ReportIsInside, NamesOf, Accepted, Positions
  <2> QED BY <2>1, <2>2, <2>3, <2>4
<1>2. CASE Contract \/ Prove
  <2>1. /\ UNCHANGED <<files, edits, report, evidence>> /\ running # None
        /\ \E status, contract : Record(status, contract)
    BY <1>2 DEF Contract, Prove, Busy
  <2>2. /\ running'.selected = running.selected /\ running'.loaded = running.loaded
        /\ running'.repackaged = running.repackaged
    BY <2>1 DEF CallShape, Record
  <2>3. CallIsInside'
    BY <2>1, <2>2 DEF CallIsInside, files, NamesOf
  <2> QED BY <2>1, <2>3 DEF files, ReportIsInside, Accepted, Positions
<1>3. CASE Stop
  BY <1>3 DEF Stop, files, CallIsInside, ReportIsInside, Accepted, Positions
<1>4. CASE Finish
  <2>1. /\ running # None /\ running' = None /\ UNCHANGED <<files, edits, evidence>>
        /\ report'.loaded = running.loaded /\ report'.results = running.results
        /\ report'.package = package /\ report'.repackaged = running.repackaged
        /\ report'.selected = [i \in DOMAIN running.selected |-> running.selected[i].name]
    BY <1>4 DEF Finish
  <2>2. ReportIsInside(report')
    <3>1. \E S : report'.results \in Seq(S)
      BY <2>1 DEF CallShape
    <3>2. ASSUME NEW i \in DOMAIN report'.selected
          PROVE  report'.selected[i] \in NamesOf(report'.loaded)
      BY <2>1, <3>2 DEF CallIsInside
    <3>3. report'.loaded \in Packages /\ (report'.package = report'.loaded \/ report'.repackaged)
      BY <2>1 DEF CallIsInside
    <3> QED BY <3>1, <3>2, <3>3 DEF ReportIsInside
  <2>3. (report # None => ReportIsInside(report))'
    BY <2>2 DEF ReportIsInside, NamesOf
  <2>4. CallIsInside'
    BY <2>1 DEF CallIsInside
  <2>5. (evidence # None => ReportIsInside(evidence) /\ Accepted(evidence))'
    BY <2>1 DEF ReportIsInside, NamesOf, Accepted, Positions
  <2>6. (package \in Packages)'
    BY <2>1 DEF files
  <2> QED BY <2>3, <2>4, <2>5, <2>6
<1>5. CASE Publish
  <2>1. /\ report # None /\ Accepted(report) /\ evidence' = report
        /\ UNCHANGED <<files, edits, running, report>>
    BY <1>5 DEF Publish
  <2> QED BY <2>1 DEF files, CallIsInside, ReportIsInside, Accepted, Positions, NamesOf
<1>6. ASSUME NEW wanted \in Selections, NEW leavesOnly \in BOOLEAN, NEW contract \in Contracts \cup {None},
             Start(wanted, leavesOnly, contract)
      PROVE  CInv'
  <2>1. UNCHANGED <<files, edits, report, evidence>>
        /\ running'.selected = Selected(wanted, leavesOnly) /\ running'.loaded = package
    BY <1>6 DEF Start
  <2>2. \A i \in DOMAIN running'.selected : running'.selected[i].name \in NamesOf(package)
    BY <2>1, SelectedInPackage
  <2>3. CallIsInside'
    BY <2>1, <2>2 DEF CallIsInside, files, NamesOf
  <2> QED BY <2>1, <2>3 DEF files, ReportIsInside, Accepted, Positions
<1>7. CASE UNCHANGED vars
  BY <1>7 DEF vars, files, CallIsInside, ReportIsInside, Accepted, Positions, NamesOf
<1> QED BY <1>1, <1>2, <1>3, <1>4, <1>5, <1>6, <1>7 DEF Next

\* Whatever was selected and whichever call left the report, evidence leaves no
\* module out of the package its call loaded, if that has the expected size,
\* and rests on one contract, the memory's.  The package it binds is that one
\* unless the file was replaced under the call.  Code: main of
\* kianv_equivalence_evidence.py and main of the runner.
THEOREM EvidenceCompleteness == Spec => []EvidenceIsComplete
<1>1. Init => CInv
  BY DEF Init, CInv, CallIsInside
<1>2. IInv => CallShape
  BY DEF IInv
<1>3. CInv => EvidenceIsComplete
  <2> SUFFICES ASSUME CInv, evidence # None
               PROVE  /\ Len(evidence.loaded) = Expected => Covers(evidence, evidence.loaded)
                      /\ evidence.package = evidence.loaded \/ evidence.repackaged
    BY DEF EvidenceIsComplete
  <2>1. ReportIsInside(evidence) /\ Accepted(evidence)
    BY DEF CInv
  <2>2. evidence.package = evidence.loaded \/ evidence.repackaged
    BY <2>1 DEF ReportIsInside
  <2> QED BY <2>1, <2>2, AcceptedIsComplete
<1> QED BY InitTrue, StepTrue, StepInside, <1>1, <1>2, <1>3, PTL DEF Spec

--------------------------------------------------------------------------------
(* The hand-over. First the paths of a hierarchy: the recursive function that *)
(* lists them has a value, and the value is what its definition says.         *)

Names(modules) == {i.name : i \in InstancesOf(modules)}

\* The paths through the instances of module n, when f has those below them.
Through(modules, f, n) ==
  UNION {IF i.of = Ram THEN {<<i.name>>}
         ELSE IF i.of \in DOMAIN modules THEN {<<i.name>> \o p : p \in f[i.of]}
         ELSE {} : i \in Handoff!Members(modules[n])}

\* A path leads through an instance of the module to a memory.
Leads(m, f, n, p) ==
  \E i \in Handoff!Members(m[n]) :
    \/ i.of = Ram /\ p = <<i.name>>
    \/ i.of # Ram /\ i.of \in DOMAIN m /\ \E q \in f[i.of] : p = <<i.name>> \o q
LEMMA ThroughInstance ==
  ASSUME NEW m, NEW f, NEW n, NEW p
  PROVE  p \in Through(m, f, n) <=> Leads(m, f, n, p)
BY DEF Through, Leads

\* A name before a sequence of names.
LEMMA Prefixed ==
  ASSUME NEW N, NEW x \in N, NEW q \in Seq(N)
  PROVE  /\ <<x>> \in Seq(N) /\ <<x>> \o q \in Seq(N)
         /\ Handoff!Emitted(<<x>>) = <<Emit(x)>>
         /\ Handoff!Emitted(<<x>> \o q) = <<Emit(x)>> \o Handoff!Emitted(q)
<1>1. <<x>> \in Seq(N) /\ <<x>> \o q \in Seq(N)
  OBVIOUS
<1>2. Handoff!Emitted(<<x>>) = <<Emit(x)>>
  BY DEF Handoff!Emitted
<1> DEFINE E == [k \in 1 .. Len(q) |-> Emit(q[k])]
           P == <<x>> \o q
<1>3. Handoff!Emitted(q) = E /\ E \in Seq({Emit(y) : y \in N}) /\ Len(E) = Len(q)
  BY DEF Handoff!Emitted
<1>4. /\ P \in Seq(N) /\ Len(P) = Len(q) + 1
      /\ \A k \in 1 .. Len(q) + 1 : P[k] = IF k = 1 THEN x ELSE q[k - 1]
  OBVIOUS
<1>5. Handoff!Emitted(P) = [k \in 1 .. Len(q) + 1 |-> Emit(P[k])]
  <2> HIDE DEF P
  <2> QED BY <1>4 DEF Handoff!Emitted
<1>6. /\ Len(<<Emit(x)>> \o E) = Len(q) + 1 /\ <<Emit(x)>> \o E \in Seq({Emit(y) : y \in N})
      /\ \A k \in 1 .. Len(q) + 1 : (<<Emit(x)>> \o E)[k] = IF k = 1 THEN Emit(x) ELSE E[k - 1]
  <2> HIDE DEF E
  <2> QED BY <1>3
<1>7. <<Emit(x)>> \o E = [k \in 1 .. Len(q) + 1 |-> Emit(P[k])]
  <2>1. \A k \in 1 .. Len(q) + 1 : (IF k = 1 THEN Emit(x) ELSE E[k - 1]) = Emit(P[k])
    BY <1>4
  <2>2. DOMAIN (<<Emit(x)>> \o E) = 1 .. Len(q) + 1
    <3> HIDE DEF E
    <3> QED BY <1>6
  <2> HIDE DEF E, P
  <2> QED BY SMTT(30), <1>6, <2>1, <2>2
<1> QED BY <1>1, <1>2, <1>3, <1>5, <1>7

\* What a name and a sequence are is seen of the name before the sequence.
LEMMA SamePrefix ==
  ASSUME NEW N, NEW x \in N, NEW y \in N, NEW q \in Seq(N), NEW r \in Seq(N), <<x>> \o q = <<y>> \o r
  PROVE  x = y /\ q = r
<1>1. (<<x>> \o q)[1] = x /\ (<<y>> \o r)[1] = y
  OBVIOUS
<1>2. Len(<<x>> \o q) = Len(q) + 1 /\ Len(<<y>> \o r) = Len(r) + 1
  OBVIOUS
<1>3. Len(q) = Len(r)
  BY <1>2
<1>4. ASSUME NEW k \in 1 .. Len(q) PROVE q[k] = r[k]
  <2>1. (<<x>> \o q)[k + 1] = q[k] /\ (<<y>> \o r)[k + 1] = r[k]
    BY <1>3
  <2> QED BY <2>1
<1> QED BY <1>1, <1>3, <1>4

\* Paths that are emitted alike are the same.
LEMMA EmittedInjective ==
  ASSUME NEW N, \A x, y \in N : Emit(x) = Emit(y) => x = y,
         NEW p \in Seq(N), NEW q \in Seq(N), Handoff!Emitted(p) = Handoff!Emitted(q)
  PROVE  p = q
<1>1. /\ DOMAIN p = 1 .. Len(p) /\ DOMAIN q = 1 .. Len(q)
      /\ DOMAIN Handoff!Emitted(p) = DOMAIN p /\ DOMAIN Handoff!Emitted(q) = DOMAIN q
  BY DEF Handoff!Emitted
<1>2. ASSUME NEW k \in DOMAIN p PROVE p[k] = q[k]
  <2>1. k \in DOMAIN q /\ Handoff!Emitted(p)[k] = Emit(p[k]) /\ Handoff!Emitted(q)[k] = Emit(q[k])
    BY <1>1 DEF Handoff!Emitted
  <2>2. p[k] \in N /\ q[k] \in N
    BY <1>1, <2>1
  <2> QED BY <2>1, <2>2
<1> QED BY <1>1, <1>2

\* There is a function with the paths of every module: the least one.
LEMMA PathsExist ==
  ASSUME NEW m
  PROVE  \E f : f = [n \in DOMAIN m |-> Through(m, f, n)]
<1> DEFINE W == Seq(Names(m))
           G == {g \in [DOMAIN m -> SUBSET W] : \A n \in DOMAIN m : Through(m, g, n) \subseteq g[n]}
           f == [n \in DOMAIN m |-> {p \in W : \A g \in G : p \in g[n]}]
           h == [n \in DOMAIN m |-> Through(m, f, n)]
<1>1. ASSUME NEW g1 \in [DOMAIN m -> SUBSET W], NEW g2 \in [DOMAIN m -> SUBSET W],
             \A n \in DOMAIN m : g1[n] \subseteq g2[n], NEW n \in DOMAIN m
      PROVE  /\ Through(m, g1, n) \subseteq Through(m, g2, n)
             /\ Through(m, g1, n) \subseteq W
  <2> SUFFICES ASSUME NEW p \in Through(m, g1, n) PROVE p \in Through(m, g2, n) /\ p \in W
    OBVIOUS
  <2>1. PICK i \in Handoff!Members(m[n]) :
          \/ i.of = Ram /\ p = <<i.name>>
          \/ i.of # Ram /\ i.of \in DOMAIN m /\ \E q \in g1[i.of] : p = <<i.name>> \o q
    BY Zenon DEF Through
  <2>2. i.name \in Names(m)
    BY DEF Names, InstancesOf
  <2>3. CASE i.of = Ram
    <3>1. p \in Through(m, g2, n)
      BY <2>1, <2>3, ThroughInstance DEF Leads
    <3>2. <<i.name>> \in W
      BY <2>2
    <3> QED BY <2>1, <2>3, <3>1, <3>2
  <2>4. CASE i.of # Ram
    <3>1. PICK q \in g1[i.of] : p = <<i.name>> \o q
      BY <2>1, <2>4
    <3>2. i.of \in DOMAIN m /\ q \in g2[i.of] /\ q \in W
      BY <1>1, <2>1, <2>4, <3>1
    <3>3. p \in Through(m, g2, n)
      BY <2>4, <3>1, <3>2, ThroughInstance DEF Leads
    <3> QED BY <2>2, <3>1, <3>2, <3>3
  <2> QED BY <2>3, <2>4
<1>2. f \in [DOMAIN m -> SUBSET W] /\ \A g \in G, n \in DOMAIN m : f[n] \subseteq g[n]
  OBVIOUS
<1>3. ASSUME NEW n \in DOMAIN m PROVE Through(m, f, n) \subseteq f[n]
  <2>1. Through(m, f, n) \subseteq W
    <3> HIDE DEF f, W
    <3> QED BY <1>1, <1>2
  <2>2. ASSUME NEW g \in G PROVE Through(m, f, n) \subseteq g[n]
    <3>1. g \in [DOMAIN m -> SUBSET W] /\ Through(m, g, n) \subseteq g[n] /\ \A k \in DOMAIN m : f[k] \subseteq g[k]
      BY <1>2
    <3> HIDE DEF f, W, G
    <3>2. Through(m, f, n) \subseteq Through(m, g, n)
      BY <1>1, <1>2, <3>1
    <3> QED BY <3>1, <3>2
  <2>3. \A p : p \in W /\ (\A g \in G : p \in g[n]) => p \in f[n]
    OBVIOUS
  <2> HIDE DEF f, W, G
  <2> QED BY <2>1, <2>2, <2>3
<1>4. h \in G
  <2>1. h \in [DOMAIN m -> SUBSET W] /\ \A n \in DOMAIN m : h[n] = Through(m, f, n) /\ h[n] \subseteq f[n]
    <3> HIDE DEF f, W
    <3> QED BY <1>1, <1>2, <1>3
  <2>2. ASSUME NEW n \in DOMAIN m PROVE Through(m, h, n) \subseteq h[n]
    <3> HIDE DEF f, W, h
    <3> QED BY <1>1, <1>2, <2>1
  <2> HIDE DEF f, W, h
  <2> QED BY <2>1, <2>2
<1>5. \A n \in DOMAIN m : f[n] = h[n]
  <2>1. \A n \in DOMAIN m : f[n] \subseteq h[n]
    <3> HIDE DEF f, h, G
    <3> QED BY <1>2, <1>4
  <2>2. \A n \in DOMAIN m : h[n] = Through(m, f, n)
    <3> HIDE DEF f
    <3> QED OBVIOUS
  <2> HIDE DEF f, h
  <2> QED BY <1>3, <2>1, <2>2
<1>6. f = [n \in DOMAIN m |-> f[n]]
  OBVIOUS
<1>7. f = h
  <2>1. h = [n \in DOMAIN m |-> h[n]]
    <3> HIDE DEF f
    <3> QED OBVIOUS
  <2> HIDE DEF f, h
  <2> QED BY <1>5, <1>6, <2>1
<1> HIDE DEF f
<1> QED BY <1>7

\* The paths of a module lead through its instances.
LEMMA PathsUnfold ==
  ASSUME NEW m, NEW n \in DOMAIN m
  PROVE  Handoff!Paths(m, n) = Through(m, [k \in DOMAIN m |-> Handoff!Paths(m, k)], n)
<1> DEFINE paths == CHOOSE f : f = [k \in DOMAIN m |-> Through(m, f, k)]
<1>1. \A k : Handoff!Paths(m, k) = paths[k]
  BY DEF Handoff!Paths, Through
<1>2. paths = [k \in DOMAIN m |-> Through(m, paths, k)]
  BY PathsExist
<1> HIDE DEF paths
<1>3. paths = [k \in DOMAIN m |-> Handoff!Paths(m, k)]
  BY <1>1, <1>2
<1> QED BY <1>1, <1>2, <1>3

\* A module reaches a memory through one of its instances.
LEMMA ReachesUnfold ==
  ASSUME NEW m, NEW n \in DOMAIN m
  PROVE  Handoff!Reaches(m, n) <=>
           \E i \in Handoff!Members(m[n]) : i.of = Ram \/ (i.of \in DOMAIN m /\ Handoff!Reaches(m, i.of))
<1> DEFINE Body(f) == [k \in DOMAIN m |-> \E i \in Handoff!Members(m[k]) :
                                            i.of = Ram \/ (i.of \in DOMAIN m /\ f[i.of])]
           f0 == [k \in DOMAIN m |-> Handoff!Paths(m, k) # {}]
           reaches == CHOOSE f : f = Body(f)
<1>1. ASSUME NEW k \in DOMAIN m
      PROVE  (Handoff!Paths(m, k) # {}) <=>
               \E i \in Handoff!Members(m[k]) : i.of = Ram \/ (i.of \in DOMAIN m /\ Handoff!Paths(m, i.of) # {})
  <2> DEFINE P == [j \in DOMAIN m |-> Handoff!Paths(m, j)]
  <2>1. \A j \in DOMAIN m : P[j] = Handoff!Paths(m, j)
    OBVIOUS
  <2>2. Handoff!Paths(m, k) = Through(m, P, k)
    BY PathsUnfold
  <2> HIDE DEF P
  <2>3. \A p : p \in Handoff!Paths(m, k) <=>
           \E i \in Handoff!Members(m[k]) :
             \/ i.of = Ram /\ p = <<i.name>>
             \/ i.of # Ram /\ i.of \in DOMAIN m /\ \E q \in P[i.of] : p = <<i.name>> \o q
    <3>1. \A p : p \in Handoff!Paths(m, k) <=> Leads(m, P, k, p)
      BY <2>2, ThroughInstance, Zenon
    <3> QED BY <3>1, Zenon DEF Leads
  <2>4. ASSUME NEW p \in Handoff!Paths(m, k)
        PROVE  \E i \in Handoff!Members(m[k]) : i.of = Ram \/ (i.of \in DOMAIN m /\ Handoff!Paths(m, i.of) # {})
    BY <2>1, <2>3, Zenon
  <2>5. ASSUME NEW i \in Handoff!Members(m[k]), i.of = Ram \/ (i.of \in DOMAIN m /\ Handoff!Paths(m, i.of) # {})
        PROVE  Handoff!Paths(m, k) # {}
    <3>1. CASE i.of = Ram
      <4>1. <<i.name>> \in Handoff!Paths(m, k)
        BY <2>3, <3>1, Zenon
      <4> QED BY <4>1
    <3>2. CASE i.of # Ram
      <4>1. PICK q : q \in Handoff!Paths(m, i.of)
        BY <2>5, <3>2
      <4>2. <<i.name>> \o q \in Handoff!Paths(m, k)
        BY <2>1, <2>3, <2>5, <3>2, <4>1, Zenon
      <4> QED BY <4>2
    <3> QED BY <3>1, <3>2
  <2> QED BY <2>4, <2>5
<1>2. f0 = Body(f0)
  <2>1. \A k \in DOMAIN m : f0[k] = (Handoff!Paths(m, k) # {})
    OBVIOUS
  <2>2. ASSUME NEW k \in DOMAIN m
        PROVE  f0[k] = (\E i \in Handoff!Members(m[k]) : i.of = Ram \/ (i.of \in DOMAIN m /\ f0[i.of]))
    <3> HIDE DEF f0
    <3>1. (\E i \in Handoff!Members(m[k]) : i.of = Ram \/ (i.of \in DOMAIN m /\ f0[i.of]))
          <=> (\E i \in Handoff!Members(m[k]) : i.of = Ram \/ (i.of \in DOMAIN m /\ Handoff!Paths(m, i.of) # {}))
      BY <2>1, Zenon
    <3> QED BY <1>1, <2>1, <3>1, Zenon
  <2>3. f0 = [k \in DOMAIN m |-> f0[k]]
    OBVIOUS
  <2> HIDE DEF f0
  <2> QED BY <2>2, <2>3, Zenon
<1>3. \A k : Handoff!Reaches(m, k) = reaches[k]
  BY DEF Handoff!Reaches
<1>4. reaches = Body(reaches)
  <2> HIDE DEF Body, f0
  <2> QED BY <1>2
<1>5. reaches[n] = \E i \in Handoff!Members(m[n]) : i.of = Ram \/ (i.of \in DOMAIN m /\ reaches[i.of])
  <2> HIDE DEF reaches
  <2> QED BY <1>4
<1> HIDE DEF reaches
<1> QED BY <1>3, <1>5, Zenon

\* A property that descends to an instance's module holds nowhere, since the
\* modules do not instantiate each other in a cycle.
LEMMA Descends ==
  ASSUME NEW m, ~Handoff!Recursive(m), NEW S \in SUBSET DOMAIN m,
         \A n \in S : \E i \in Handoff!Members(m[n]) : i.of # Ram /\ i.of \in S
  PROVE  S = {}
BY DEF Handoff!Recursive

\* A module reaches a memory exactly if there is a path to one.
LEMMA ReachesIsPaths ==
  ASSUME NEW m, ~Handoff!Recursive(m), NEW n \in DOMAIN m
  PROVE  Handoff!Reaches(m, n) <=> Handoff!Paths(m, n) # {}
<1> DEFINE S == {k \in DOMAIN m : ~(Handoff!Reaches(m, k) <=> Handoff!Paths(m, k) # {})}
<1>1. ASSUME NEW k \in S PROVE \E i \in Handoff!Members(m[k]) : i.of # Ram /\ i.of \in S
  <2> DEFINE P == [j \in DOMAIN m |-> Handoff!Paths(m, j)]
  <2>1. k \in DOMAIN m /\ ~(Handoff!Reaches(m, k) <=> Handoff!Paths(m, k) # {})
    OBVIOUS
  <2>2. \A j \in DOMAIN m : j \in S <=> ~(Handoff!Reaches(m, j) <=> Handoff!Paths(m, j) # {})
    OBVIOUS
  <2>3. \A j \in DOMAIN m : P[j] = Handoff!Paths(m, j)
    OBVIOUS
  <2>4. Handoff!Paths(m, k) = Through(m, P, k)
    BY <2>1, PathsUnfold
  <2> HIDE DEF P, S
  <2>5. Handoff!Reaches(m, k) <=>
          \E i \in Handoff!Members(m[k]) : i.of = Ram \/ (i.of \in DOMAIN m /\ Handoff!Reaches(m, i.of))
    BY <2>1, ReachesUnfold
  <2>6. \A p : p \in Handoff!Paths(m, k) <=>
           \E i \in Handoff!Members(m[k]) :
             \/ i.of = Ram /\ p = <<i.name>>
             \/ i.of # Ram /\ i.of \in DOMAIN m /\ \E q \in P[i.of] : p = <<i.name>> \o q
    <3>1. \A p : p \in Handoff!Paths(m, k) <=> Leads(m, P, k, p)
      BY <2>4, ThroughInstance, Zenon
    <3> QED BY <3>1, Zenon DEF Leads
  <2>7. CASE Handoff!Reaches(m, k)
    <3>1. PICK i \in Handoff!Members(m[k]) : i.of = Ram \/ (i.of \in DOMAIN m /\ Handoff!Reaches(m, i.of))
      BY <2>5, <2>7
    <3>2. Handoff!Paths(m, k) = {}
      BY <2>1, <2>7
    <3>3. i.of # Ram
      BY <2>6, <3>2, Zenon
    <3>4. \A q : q \notin P[i.of]
      BY <2>6, <3>1, <3>2, <3>3, Zenon
    <3> QED BY <2>2, <2>3, <3>1, <3>3, <3>4
  <2>8. CASE ~Handoff!Reaches(m, k)
    <3>1. PICK p : p \in Handoff!Paths(m, k)
      BY <2>1, <2>8
    <3>2. PICK i \in Handoff!Members(m[k]) :
             \/ i.of = Ram /\ p = <<i.name>>
             \/ i.of # Ram /\ i.of \in DOMAIN m /\ \E q \in P[i.of] : p = <<i.name>> \o q
      BY <2>6, <3>1, Zenon
    <3>3. i.of # Ram /\ i.of \in DOMAIN m /\ ~Handoff!Reaches(m, i.of)
      BY <2>5, <2>8, <3>2
    <3>4. PICK q : q \in P[i.of]
      BY <3>2, <3>3
    <3> QED BY <2>2, <2>3, <3>3, <3>4
  <2> QED BY <2>7, <2>8
<1>2. S \in SUBSET DOMAIN m
  OBVIOUS
<1>3. S = {}
  <2> HIDE DEF S
  <2> QED BY <1>1, <1>2, Descends
<1> QED BY <1>3

\* A path is a sequence of instance names.
LEMMA PathsAreNames ==
  ASSUME NEW m, ~Handoff!Recursive(m), NEW n \in DOMAIN m
  PROVE  Handoff!Paths(m, n) \subseteq Seq(Names(m))
<1> DEFINE W == Seq(Names(m))
           S == {k \in DOMAIN m : \E p \in Handoff!Paths(m, k) : p \notin W}
           P == [j \in DOMAIN m |-> Handoff!Paths(m, j)]
<1>1. ASSUME NEW k \in S PROVE \E i \in Handoff!Members(m[k]) : i.of # Ram /\ i.of \in S
  <2>1. k \in DOMAIN m /\ \E p \in Handoff!Paths(m, k) : p \notin W
    OBVIOUS
  <2>2. \A j \in DOMAIN m : (\E p \in Handoff!Paths(m, j) : p \notin W) => j \in S
    OBVIOUS
  <2>3. \A j \in DOMAIN m : P[j] = Handoff!Paths(m, j)
    OBVIOUS
  <2>4. Handoff!Paths(m, k) = Through(m, P, k)
    BY <2>1, PathsUnfold
  <2> HIDE DEF P, S
  <2>5. PICK p \in Handoff!Paths(m, k) : p \notin W
    BY <2>1
  <2>6. PICK i \in Handoff!Members(m[k]) :
             \/ i.of = Ram /\ p = <<i.name>>
             \/ i.of # Ram /\ i.of \in DOMAIN m /\ \E q \in P[i.of] : p = <<i.name>> \o q
    BY <2>4, <2>5, Zenon DEF Through
  <2>7. i.name \in Names(m)
    BY <2>1 DEF Names, InstancesOf
  <2>8. i.of # Ram
    <3>1. <<i.name>> \in W
      BY <2>7
    <3> HIDE DEF W
    <3> QED BY <2>5, <2>6, <3>1
  <2>9. PICK q \in P[i.of] : p = <<i.name>> \o q
    BY <2>6, <2>8
  <2>10. q \notin W
    BY <2>5, <2>7, <2>9
  <2> HIDE DEF W
  <2> QED BY <2>2, <2>3, <2>6, <2>8, <2>9, <2>10
<1>2. S \in SUBSET DOMAIN m
  OBVIOUS
<1>3. S = {}
  <2> HIDE DEF S
  <2> QED BY <1>1, <1>2, Descends
<1> QED BY <1>3

--------------------------------------------------------------------------------
(* Power. Along a path of the flattened RTL every module has ports, since the *)
(* emitted paths are those of the package, and an instance that begins one   *)
(* is, by its name, the child that was found once.                          *)

\* A path of a module is an instance's name, and what follows it.
Begins(m, i, p) ==
  /\ i.name \in Names(m) /\ p[1] = i.name /\ Handoff!Emitted(p)[1] = Emit(i.name)
  /\ \/ i.of = Ram /\ p = <<i.name>>
     \/ i.of # Ram /\ i.of \in DOMAIN m
        /\ \E q \in Handoff!Paths(m, i.of) : q \in Seq(Names(m)) /\ p = <<i.name>> \o q
LEMMA FirstStep ==
  ASSUME NEW m, ~Handoff!Recursive(m), NEW n \in DOMAIN m, NEW p \in Handoff!Paths(m, n)
  PROVE  \E i \in Handoff!Members(m[n]) : Begins(m, i, p)
<1> DEFINE P == [k \in DOMAIN m |-> Handoff!Paths(m, k)]
<1>1. \A k \in DOMAIN m : P[k] = Handoff!Paths(m, k)
  OBVIOUS
<1>2. Leads(m, P, n, p)
  <2>1. Handoff!Paths(m, n) = Through(m, P, n)
    BY PathsUnfold
  <2> HIDE DEF P
  <2> QED BY <2>1, ThroughInstance
<1> HIDE DEF P
<1>3. PICK i \in Handoff!Members(m[n]) :
        \/ i.of = Ram /\ p = <<i.name>>
        \/ i.of # Ram /\ i.of \in DOMAIN m /\ \E q \in P[i.of] : p = <<i.name>> \o q
  BY <1>2 DEF Leads
<1>4. i.name \in Names(m)
  BY DEF Names, InstancesOf
<1>5. CASE i.of = Ram
  <2>1. p = <<i.name>>
    BY <1>3, <1>5
  <2>2. <<i.name>>[1] = i.name /\ Handoff!Emitted(<<i.name>>)[1] = Emit(i.name)
    BY DEF Handoff!Emitted
  <2> QED BY <1>4, <1>5, <2>1, <2>2 DEF Begins
<1>6. CASE i.of # Ram
  <2>1. PICK q \in Handoff!Paths(m, i.of) : p = <<i.name>> \o q
    BY <1>1, <1>3, <1>6
  <2>2. i.of \in DOMAIN m
    BY <1>3, <1>6
  <2>3. q \in Seq(Names(m))
    BY <2>2, PathsAreNames
  <2>4. p[1] = i.name /\ Len(p) = Len(q) + 1 /\ p \in Seq(Names(m))
    BY <1>4, <2>1, <2>3
  <2>5. 1 \in DOMAIN p
    BY <2>3, <2>4
  <2>6. Handoff!Emitted(p)[1] = Emit(p[1])
    BY <2>5 DEF Handoff!Emitted
  <2> QED BY <1>4, <1>6, <2>1, <2>2, <2>3, <2>4, <2>6 DEF Begins
<1> QED BY <1>5, <1>6

\* A path below an instance is one below its module.
LEMMA StepBack ==
  ASSUME NEW m, NEW n \in DOMAIN m, NEW i \in Handoff!Members(m[n])
  PROVE  /\ i.of = Ram => <<i.name>> \in Handoff!Paths(m, n)
         /\ (i.of # Ram /\ i.of \in DOMAIN m) =>
              \A q \in Handoff!Paths(m, i.of) : <<i.name>> \o q \in Handoff!Paths(m, n)
<1> DEFINE P == [k \in DOMAIN m |-> Handoff!Paths(m, k)]
<1>1. \A k \in DOMAIN m : P[k] = Handoff!Paths(m, k)
  OBVIOUS
<1>2. \A p : Leads(m, P, n, p) => p \in Handoff!Paths(m, n)
  <2>1. Handoff!Paths(m, n) = Through(m, P, n)
    BY PathsUnfold
  <2> HIDE DEF P
  <2> QED BY <2>1, ThroughInstance
<1> HIDE DEF P
<1>3. ASSUME i.of = Ram PROVE <<i.name>> \in Handoff!Paths(m, n)
  <2>1. Leads(m, P, n, <<i.name>>)
    BY <1>3 DEF Leads
  <2> QED BY <1>2, <2>1
<1>4. ASSUME i.of # Ram, i.of \in DOMAIN m, NEW q \in Handoff!Paths(m, i.of)
      PROVE  <<i.name>> \o q \in Handoff!Paths(m, n)
  <2>1. q \in P[i.of]
    BY <1>1, <1>4
  <2>2. Leads(m, P, n, <<i.name>> \o q)
    BY <1>4, <2>1, Zenon DEF Leads
  <2> QED BY <1>2, <2>2
<1> QED BY <1>3, <1>4

\* Emitted names of a sequence of names.
LEMMA EmittedNames ==
  ASSUME NEW N, NEW q \in Seq(N)
  PROVE  Handoff!Emitted(q) \in Seq({Emit(y) : y \in N})
BY DEF Handoff!Emitted

\* What the hand-over and the verifier have of a design that is verified.
IsWired(e, h) ==
  /\ ~Handoff!Recursive(h) /\ Handoff!CanPower(e, h)
  /\ ~Handoff!Recursive(e.modules)
  /\ \A n \in DOMAIN e.modules :
       \A i, j \in Handoff!Members(e.modules[n]) : i.name = j.name => i = j

LEMMA OneCardinality ==
  ASSUME NEW S
  PROVE  Handoff!Cardinality(S) = Cardinality(S)
BY DEF Handoff!Cardinality, Cardinality

\* A child that is to be powered is an instance of the emitted module.
LEMMA ChildIsFound ==
  ASSUME NEW e, NEW h, IsWired(e, h), NEW n \in Handoff!Powered(h), NEW j \in Handoff!Members(h[n]),
         j.of = Ram \/ j.of \in Handoff!Powered(h)
  PROVE  /\ [name |-> Emit(j.name), of |-> j.of] \in Handoff!Members(e.modules[n])
         /\ [name |-> Emit(j.name), of |-> j.of] \in Handoff!ChildrenToPower(h, n)
<1> DEFINE c == [name |-> Emit(j.name), of |-> j.of]
           D == {i \in DOMAIN e.modules[n] : e.modules[n][i] = c}
<1>1. c \in Handoff!ChildrenToPower(h, n)
  BY DEF Handoff!ChildrenToPower
<1>2. Cardinality(D) = 1
  <2>1. Handoff!Count(e.modules[n], c) = 1
    <3> HIDE DEF c
    <3> QED BY <1>1 DEF IsWired, Handoff!CanPower
  <2>2. Handoff!Count(e.modules[n], c) = Cardinality(D)
    BY OneCardinality, Zenon DEF Handoff!Count
  <2> QED BY <2>1, <2>2
<1>3. D # {}
  <2> HIDE DEF D
  <2> QED BY <1>2, FS_EmptySet
<1>4. c \in Handoff!Members(e.modules[n])
  <2> HIDE DEF c
  <2> QED BY <1>3 DEF Handoff!Members
<1> QED BY <1>1, <1>4

\* The instance that begins an emitted path is a powered child of the package.
IsChild(h, n, p, i, j) ==
  /\ i = [name |-> Emit(j.name), of |-> j.of]
  /\ i \in Handoff!ChildrenToPower(h, n) /\ j.name \in Names(h)
  /\ i.of = Ram \/ i.of \in Handoff!Powered(h)
  /\ i.of # Ram => \E q \in Handoff!Paths(h, i.of) : q \in Seq(Names(h)) /\ p = <<j.name>> \o q
LEMMA BeginsPath ==
  ASSUME NEW e, NEW h, IsWired(e, h), NEW n \in Handoff!Powered(h), NEW p \in Handoff!Paths(h, n),
         NEW i \in Handoff!Members(e.modules[n]), Handoff!Emitted(p)[1] = i.name
  PROVE  \E j \in Handoff!Members(h[n]) : IsChild(h, n, p, i, j)
<1>1. n \in DOMAIN h /\ ~Handoff!Recursive(h) /\ n \in DOMAIN e.modules
  BY DEF IsWired, Handoff!Powered, Handoff!CanPower
<1>2. PICK j \in Handoff!Members(h[n]) : Begins(h, j, p)
  BY <1>1, FirstStep
<1>3. j.of = Ram \/ j.of \in Handoff!Powered(h)
  <2>1. CASE j.of # Ram
    <3>1. j.of \in DOMAIN h /\ Handoff!Paths(h, j.of) # {}
      BY <1>2, <2>1 DEF Begins
    <3>2. Handoff!Reaches(h, j.of)
      BY <1>1, <3>1, ReachesIsPaths
    <3> QED BY <3>1, <3>2 DEF Handoff!Powered
  <2> QED BY <2>1
<1> DEFINE c == [name |-> Emit(j.name), of |-> j.of]
<1>4. c \in Handoff!Members(e.modules[n]) /\ c \in Handoff!ChildrenToPower(h, n)
  BY <1>3, ChildIsFound
<1>5. c.name = i.name /\ c.of = j.of
  BY <1>2 DEF Begins
<1>6. c = i
  <2> HIDE DEF c
  <2> QED BY <1>1, <1>4, <1>5 DEF IsWired
<1>7. i.of = j.of
  BY <1>5, <1>6
<1>8. i.of # Ram => \E q \in Handoff!Paths(h, i.of) : q \in Seq(Names(h)) /\ p = <<j.name>> \o q
  BY <1>2, <1>7 DEF Begins
<1> QED BY <1>2, <1>3, <1>4, <1>6, <1>7, <1>8 DEF Begins, IsChild

\* Below a powered module whose emitted paths are the package's, every instance
\* on a path is wired, and its module is again one of those.
LEMMA PowerGoesDown ==
  ASSUME NEW e, NEW h, IsWired(e, h), NEW n \in Handoff!Powered(h),
         Handoff!Paths(e.modules, n) = {Handoff!Emitted(p) : p \in Handoff!Paths(h, n)},
         NEW i \in Handoff!Members(e.modules[n]),
         i.of = Ram \/ (i.of \in DOMAIN e.modules /\ Handoff!Paths(e.modules, i.of) # {})
  PROVE  /\ i \in Handoff!ChildrenToPower(h, n)
         /\ i.of # Ram =>
              /\ i.of \in Handoff!Powered(h)
              /\ Handoff!Paths(e.modules, i.of) = {Handoff!Emitted(p) : p \in Handoff!Paths(h, i.of)}
<1> DEFINE E == e.modules
           Images(k) == {Handoff!Emitted(p) : p \in Handoff!Paths(h, k)}
           N == Names(E) \cup {Emit(y) : y \in Names(h)}
<1>1. /\ n \in DOMAIN E /\ n \in DOMAIN h /\ ~Handoff!Recursive(E) /\ ~Handoff!Recursive(h)
      /\ \A x, y \in Handoff!Members(E[n]) : x.name = y.name => x = y
  BY DEF IsWired, Handoff!Powered, Handoff!CanPower
<1>2. i.name \in Names(E)
  BY <1>1 DEF Names, InstancesOf
<1>3. \E t \in Handoff!Paths(E, n) : t[1] = i.name
  <2>1. CASE i.of = Ram
    <3>1. <<i.name>> \in Handoff!Paths(E, n)
      BY <1>1, <2>1, StepBack
    <3>2. <<i.name>>[1] = i.name
      OBVIOUS
    <3> QED BY <3>1, <3>2
  <2>2. CASE i.of # Ram
    <3>1. PICK q \in Handoff!Paths(E, i.of) : TRUE
      BY <2>2
    <3>2. q \in Seq(Names(E))
      BY <1>1, <2>2, PathsAreNames
    <3>3. <<i.name>> \o q \in Handoff!Paths(E, n)
      BY <1>1, <2>2, <3>1, StepBack
    <3>4. (<<i.name>> \o q)[1] = i.name
      BY <1>2, <3>2
    <3> QED BY <3>3, <3>4
  <2> QED BY <2>1, <2>2
<1>4. PICK p \in Handoff!Paths(h, n) : Handoff!Emitted(p)[1] = i.name
  BY <1>3
<1>5. PICK j \in Handoff!Members(h[n]) :
           /\ i = [name |-> Emit(j.name), of |-> j.of]
           /\ i \in Handoff!ChildrenToPower(h, n) /\ j.name \in Names(h)
           /\ i.of = Ram \/ i.of \in Handoff!Powered(h)
  <2>1. \E j \in Handoff!Members(h[n]) : IsChild(h, n, p, i, j)
    BY <1>4, BeginsPath
  <2> QED BY <2>1 DEF IsChild
<1>6. ASSUME i.of # Ram, NEW q \in Handoff!Paths(E, i.of) PROVE q \in Images(i.of)
  <2>1. i.of \in DOMAIN E
    BY <1>6
  <2>2. q \in Seq(Names(E))
    BY <1>1, <2>1, PathsAreNames
  <2>3. <<i.name>> \o q \in Handoff!Paths(E, n)
    BY <1>1, <1>6, <2>1, StepBack
  <2>4. PICK r \in Handoff!Paths(h, n) : <<i.name>> \o q = Handoff!Emitted(r)
    BY <2>3
  <2>5. Handoff!Emitted(r)[1] = i.name
    <3>1. (<<i.name>> \o q)[1] = i.name
      BY <1>2, <2>2
    <3> QED BY <2>4, <3>1
  <2>6. PICK k \in Handoff!Members(h[n]) :
           /\ i = [name |-> Emit(k.name), of |-> k.of] /\ k.name \in Names(h)
           /\ \E s \in Handoff!Paths(h, i.of) : s \in Seq(Names(h)) /\ r = <<k.name>> \o s
    <3>1. \E k \in Handoff!Members(h[n]) : IsChild(h, n, r, i, k)
      BY <2>5, BeginsPath
    <3> QED BY <1>6, <3>1 DEF IsChild
  <2>7. PICK s \in Handoff!Paths(h, i.of) : s \in Seq(Names(h)) /\ r = <<k.name>> \o s
    BY <2>6
  <2>8. Handoff!Emitted(r) = <<Emit(k.name)>> \o Handoff!Emitted(s)
    BY <2>6, <2>7, Prefixed
  <2>9. i.name = Emit(k.name)
    BY <2>6
  <2>10. <<i.name>> \o q = <<i.name>> \o Handoff!Emitted(s)
    BY <2>4, <2>8, <2>9
  <2>11. i.name \in N /\ q \in Seq(N) /\ Handoff!Emitted(s) \in Seq(N)
    <3>1. Handoff!Emitted(s) \in Seq({Emit(y) : y \in Names(h)})
      BY <2>7, EmittedNames
    <3> QED BY <1>2, <2>2, <3>1
  <2>12. q = Handoff!Emitted(s)
    <3> HIDE DEF N
    <3> QED BY SMTT(30), <2>10, <2>11, SamePrefix
  <2> QED BY <2>7, <2>12
<1>7. ASSUME i.of # Ram, NEW s \in Handoff!Paths(h, i.of) PROVE Handoff!Emitted(s) \in Handoff!Paths(E, i.of)
  <2>1. j.of = i.of /\ i.name = Emit(j.name)
    BY <1>5
  <2>2. i.of \in DOMAIN h
    BY <1>5, <1>7 DEF Handoff!Powered
  <2>3. s \in Seq(Names(h))
    BY <1>1, <2>2, PathsAreNames
  <2>4. <<j.name>> \o s \in Handoff!Paths(h, n)
    BY <1>1, <1>7, <2>1, <2>2, StepBack
  <2>5. Handoff!Emitted(<<j.name>> \o s) = <<i.name>> \o Handoff!Emitted(s)
    <3>1. Handoff!Emitted(<<j.name>> \o s) = <<Emit(j.name)>> \o Handoff!Emitted(s)
      BY <1>5, <2>3, Prefixed
    <3> QED BY <2>1, <3>1
  <2> DEFINE t == <<i.name>> \o Handoff!Emitted(s)
  <2>6. t \in Handoff!Paths(E, n)
    BY <2>4, <2>5
  <2>7. Handoff!Emitted(s) \in Seq({Emit(y) : y \in Names(h)})
    BY <2>3, EmittedNames
  <2>8. i.name \in N /\ Handoff!Emitted(s) \in Seq(N)
    BY <1>2, <2>7
  <2>9. t[1] = i.name
    <3> HIDE DEF N
    <3> QED BY <2>8
  <2>10. PICK k \in Handoff!Members(E[n]) : Begins(E, k, t)
    <3> HIDE DEF t, E
    <3> QED BY <1>1, <2>6, FirstStep
  <2>11. k = i
    <3> HIDE DEF t
    <3> QED BY <1>1, <2>9, <2>10 DEF Begins
  <2>12. PICK q \in Handoff!Paths(E, i.of) : q \in Seq(Names(E)) /\ t = <<i.name>> \o q
    <3> HIDE DEF t, E
    <3> QED BY <1>7, <2>10, <2>11 DEF Begins
  <2>13. q \in Seq(N)
    BY <2>12
  <2>14. q = Handoff!Emitted(s)
    <3> HIDE DEF N
    <3> QED BY <2>8, <2>12, <2>13, SamePrefix
  <2> QED BY <2>12, <2>14
<1> QED BY <1>5, <1>6, <1>7

\* Power flows in a design that is verified.
LEMMA PowerIsWired ==
  ASSUME NEW e, NEW h, IsWired(e, h), Top \in DOMAIN h, Handoff!Paths(h, Top) # {},
         Handoff!Paths(e.modules, Top) = {Handoff!Emitted(p) : p \in Handoff!Paths(h, Top)}
  PROVE  Handoff!PowerFlows(Handoff!PhysicalRtl(e, h))
<1> DEFINE d == Handoff!PhysicalRtl(e, h)
           Alike(n) == Handoff!Paths(e.modules, n) = {Handoff!Emitted(p) : p \in Handoff!Paths(h, n)}
           S == {n \in Handoff!Powered(h) : Alike(n)}
<1>1. d.ports = Handoff!Powered(h) /\ d.modules = e.modules
      /\ \A n \in Handoff!Powered(h) : d.wired[n] = Handoff!ChildrenToPower(h, n)
  BY DEF Handoff!PhysicalRtl
<1>2. Top \in S
  <2>1. Handoff!Reaches(h, Top)
    BY ReachesIsPaths DEF IsWired
  <2> QED BY <2>1 DEF Handoff!Powered
<1>3. ASSUME NEW n \in S, NEW i \in Handoff!Members(e.modules[n]),
             i.of = Ram \/ (i.of \in DOMAIN e.modules /\ Handoff!Paths(e.modules, i.of) # {})
      PROVE  i \in Handoff!ChildrenToPower(h, n) /\ (i.of # Ram => i.of \in S)
  BY <1>3, PowerGoesDown
<1>4. S \subseteq Handoff!Powered(h)
  OBVIOUS
<1> HIDE DEF d, S
<1>5. Handoff!PowerFlows(d)
  <2>1. S \in SUBSET d.ports
    BY <1>1, <1>4
  <2>2. \A n \in S : \A i \in Handoff!Members(d.modules[n]) :
         (i.of = Ram \/ (i.of \in DOMAIN d.modules /\ Handoff!Paths(d.modules, i.of) # {})) =>
            i \in d.wired[n] /\ (i.of # Ram => i.of \in S)
    BY <1>1, <1>3, <1>4
  <2> QED BY <1>2, <2>1, <2>2 DEF Handoff!PowerFlows
<1> QED BY <1>5 DEF d

--------------------------------------------------------------------------------
(* Translation. The floorplan's source has every path exactly once when its  *)
(* turn comes, so no translated path is one that is still to be replaced: it  *)
(* would be there twice. That is a fact about the paths alone, and the power  *)
(* plan, which is not held to it, is translated in the same order.           *)

\* The text and the refusal after every turn.
Turns(c, s) ==
  LET done[n \in 0..Len(s)] ==
        IF n = 0 THEN [text |-> c, refused |-> FALSE] ELSE Handoff!ReplaceOnce(done[n - 1], s[n])
  IN done

\* The turns are taken one after the other.
LEMMA TurnsUnfold ==
  ASSUME NEW c, IsSequence(c), NEW s, IsSequence(s)
  PROVE  /\ Turns(c, s)[0] = [text |-> c, refused |-> FALSE]
         /\ \A n \in 1 .. Len(s) : Turns(c, s)[n] = Handoff!ReplaceOnce(Turns(c, s)[n - 1], s[n])
<1> DEFINE L == Len(s)
           V == {c[i] : i \in 1 .. Len(c)} \cup {Handoff!Emitted(s[i]) : i \in 1 .. L}
           T == [1 .. Len(c) -> V]
           R == [text : T, refused : BOOLEAN]
           base == [text |-> c, refused |-> FALSE]
           Step(n, a) == IF n < L THEN Handoff!ReplaceOnce(a, s[n + 1]) ELSE a
           F == [p \in Nat \X R |-> Step(p[1], p[2])]
           Body(f) == [n \in 0 .. L |-> IF n = 0 THEN base ELSE Handoff!ReplaceOnce(f[n - 1], s[n])]
<1>1. L \in Nat /\ c \in T
  <2>1. \A i \in 1 .. Len(c) : c[i] \in V
    OBVIOUS
  <2>2. L \in Nat /\ c = [i \in 1 .. Len(c) |-> c[i]]
    BY DEF IsSequence
  <2> HIDE DEF V
  <2> QED BY <2>1, <2>2
<1>2. base \in R
  <2> HIDE DEF T
  <2> QED BY <1>1
<1>3. ASSUME NEW n \in Nat, NEW a \in R PROVE Step(n, a) \in R
  <2>1. CASE n < L
    <3>1. n + 1 \in 1 .. L
      BY <1>1, <2>1
    <3>2. Handoff!Emitted(s[n + 1]) \in V
      BY <3>1
    <3>3. a.text \in T /\ a.refused \in BOOLEAN
      <4> HIDE DEF T
      <4> QED OBVIOUS
    <3>4. Handoff!Replace(a.text, s[n + 1]) \in T
      <4> HIDE DEF V
      <4> QED BY <3>2, <3>3 DEF Handoff!Replace
    <3> HIDE DEF T
    <3> QED BY <2>1, <3>3, <3>4 DEF Handoff!ReplaceOnce
  <2>2. CASE ~(n < L)
    BY <2>2
  <2> QED BY <2>1, <2>2
<1>4. F \in [Nat \X R -> R]
  <2> HIDE DEF R, Step
  <2> QED BY <1>3
<1>5. \A n \in Nat, a \in R : F[<<n, a>>] = Step(n, a)
  <2> HIDE DEF R, Step
  <2> QED OBVIOUS
<1>6. PICK f : Iterates(f, R, base, F, L)
  <2> HIDE DEF R, F, base, L
  <2> QED BY <1>1, <1>2, <1>4, Recursion
<1>7. /\ f \in [0 .. L -> R] /\ f[0] = base
      /\ \A n \in 0 .. L - 1 : f[n + 1] = Step(n, f[n])
  <2> HIDE DEF R, F, Step, base, L
  <2>1. f \in [0 .. L -> R] /\ f[0] = base /\ \A n \in 0 .. L - 1 : f[n + 1] = F[<<n, f[n]>>]
    BY <1>6 DEF Iterates
  <2>2. \A n \in 0 .. L - 1 : n \in Nat /\ n \in 0 .. L
    BY <1>1
  <2> QED BY <1>5, <2>1, <2>2
<1>8. f = Body(f)
  <2>1. ASSUME NEW n \in 0 .. L
        PROVE  f[n] = IF n = 0 THEN base ELSE Handoff!ReplaceOnce(f[n - 1], s[n])
    <3>1. CASE n = 0
      <4> HIDE DEF base
      <4> QED BY <1>7, <3>1
    <3>2. CASE n # 0
      <4>1. n - 1 \in 0 .. L - 1 /\ n - 1 + 1 = n /\ n - 1 < L
        BY <1>1, <3>2
      <4>2. f[n] = Step(n - 1, f[n - 1])
        <5> HIDE DEF R, Step, base, L
        <5> QED BY <1>7, <4>1
      <4> HIDE DEF base
      <4> QED BY <3>2, <4>1, <4>2
    <3> QED BY <3>1, <3>2
  <2>2. f = [n \in 0 .. L |-> f[n]]
    <3> HIDE DEF R, base, L, Step
    <3> QED BY <1>7
  <2> HIDE DEF base
  <2> QED BY <2>1, <2>2
<1> DEFINE done == Turns(c, s)
<1>9. done = Body(done)
  <2>1. done = CHOOSE g : g = Body(g)
    BY DEF Turns
  <2> HIDE DEF Body, done
  <2> QED BY <1>8, <2>1
<1>10. \A n \in 0 .. L : done[n] = IF n = 0 THEN base ELSE Handoff!ReplaceOnce(done[n - 1], s[n])
  <2> HIDE DEF done, base
  <2> QED BY <1>9
<1>11. done[0] = base
  <2> HIDE DEF done, base
  <2> QED BY <1>1, <1>10
<1>12. \A n \in 1 .. L : done[n] = Handoff!ReplaceOnce(done[n - 1], s[n])
  <2> HIDE DEF done, base
  <2> QED BY <1>1, <1>10
<1> QED BY <1>11, <1>12

\* A path that is there exactly once is at one place.
LEMMA ThereOnce ==
  ASSUME NEW t, NEW l \in Nat, DOMAIN t = 1 .. l, NEW x, Handoff!Count(t, x) = 1,
         NEW n \in DOMAIN t, NEW m \in DOMAIN t, t[n] = x, t[m] = x
  PROVE  n = m
<1> DEFINE D == {i \in DOMAIN t : t[i] = x}
<1>1. Cardinality(D) = 1
  <2>1. Handoff!Count(t, x) = Cardinality(D)
    BY OneCardinality, Zenon DEF Handoff!Count
  <2> QED BY <2>1
<1>2. IsFiniteSet(D)
  <2>1. D \in SUBSET (1 .. l)
    OBVIOUS
  <2> HIDE DEF D
  <2> QED BY <2>1, CountTo, FS_Subset
<1>3. PICK y : D = {y}
  <2> HIDE DEF D
  <2> QED BY <1>1, <1>2, FS_Singleton
<1>4. n \in D /\ m \in D
  OBVIOUS
<1> HIDE DEF D
<1> QED BY <1>3, <1>4

\* A text that is not refused had every path exactly once at its turn.
LEMMA NotRefused ==
  ASSUME NEW c, IsSequence(c), NEW s, IsSequence(s), ~Turns(c, s)[Len(s)].refused
  PROVE  \A k \in 1 .. Len(s) : Handoff!Count(Turns(c, s)[k - 1].text, s[k]) = 1
<1> DEFINE Once(k) == \A j \in 1 .. k : Handoff!Count(Turns(c, s)[j - 1].text, s[j]) = 1
           S == {k \in Nat : (k <= Len(s) /\ ~Turns(c, s)[k].refused) => Once(k)}
<1>1. Len(s) \in Nat
  BY DEF IsSequence
<1>2. 0 \in S
  OBVIOUS
<1>3. ASSUME NEW k \in Nat, k \in S PROVE k + 1 \in S
  <2> SUFFICES ASSUME k + 1 <= Len(s), ~Turns(c, s)[k + 1].refused PROVE Once(k + 1)
    OBVIOUS
  <2>1. k + 1 \in 1 .. Len(s) /\ k + 1 - 1 = k /\ k <= Len(s)
    BY <1>1
  <2>2. Turns(c, s)[k + 1] = Handoff!ReplaceOnce(Turns(c, s)[k], s[k + 1])
    <3>1. \A n \in 1 .. Len(s) : Turns(c, s)[n] = Handoff!ReplaceOnce(Turns(c, s)[n - 1], s[n])
      BY TurnsUnfold
    <3> QED BY <2>1, <3>1
  <2>3. ~Turns(c, s)[k].refused /\ Handoff!Count(Turns(c, s)[k].text, s[k + 1]) = 1
    <3>1. Handoff!ReplaceOnce(Turns(c, s)[k], s[k + 1]).refused
            = (Turns(c, s)[k].refused \/ Handoff!Count(Turns(c, s)[k].text, s[k + 1]) # 1)
      BY DEF Handoff!ReplaceOnce
    <3> QED BY <2>2, <3>1, Zenon
  <2>4. Once(k)
    BY <1>3, <2>1, <2>3
  <2>5. \A j \in 1 .. k + 1 : j \in 1 .. k \/ j = k + 1
    OBVIOUS
  <2> QED BY <2>1, <2>3, <2>4, <2>5
<1>4. Len(s) \in S
  <2> HIDE DEF S
  <2> QED BY <1>1, <1>2, <1>3, SetInduction
<1> QED BY <1>1, <1>4

\* The text when the first k paths have been replaced.
Upto(c, s, k) ==
  [n \in DOMAIN c |-> IF \E i \in 1 .. k : s[i] = c[n] THEN Handoff!Emitted(c[n]) ELSE c[n]]
\* No path up to the k-th is the translation of an earlier one.
Chainless(s, k) == \A j \in 1 .. k : \A i \in 1 .. j - 1 : Handoff!Emitted(s[i]) # s[j]
Distinct(s) == \A i, j \in DOMAIN s : s[i] = s[j] => i = j

\* Without such chains, a turn replaces its path and nothing else.
LEMMA TurnsAreUpto ==
  ASSUME NEW c, IsSequence(c), NEW s, IsSequence(s), Distinct(s),
         NEW l \in 0 .. Len(s), Chainless(s, l)
  PROVE  Turns(c, s)[l].text = Upto(c, s, l)
<1> DEFINE S == {k \in Nat : k <= l => Turns(c, s)[k].text = Upto(c, s, k)}
<1>1. Len(s) \in Nat /\ l \in Nat /\ DOMAIN s = 1 .. Len(s)
  BY DEF IsSequence
<1>2. 0 \in S
  <2>1. Turns(c, s)[0].text = c
    <3>1. Turns(c, s)[0] = [text |-> c, refused |-> FALSE]
      BY TurnsUnfold
    <3> QED BY <3>1
  <2>2. c = [n \in 1 .. Len(c) |-> c[n]]
    BY DEF IsSequence
  <2>3. c = Upto(c, s, 0)
    BY <2>2 DEF Upto
  <2> QED BY <2>1, <2>3
<1>3. ASSUME NEW k \in Nat, k \in S PROVE k + 1 \in S
  <2> SUFFICES ASSUME k + 1 <= l PROVE Turns(c, s)[k + 1].text = Upto(c, s, k + 1)
    OBVIOUS
  <2>1. k + 1 \in 1 .. Len(s) /\ k + 1 \in 1 .. l /\ k + 1 - 1 = k /\ k <= l
    BY <1>1
  <2> DEFINE t == Upto(c, s, k)
  <2>2. Turns(c, s)[k].text = t
    BY <1>3, <2>1
  <2>3. Turns(c, s)[k + 1] = Handoff!ReplaceOnce(Turns(c, s)[k], s[k + 1])
    <3>1. \A n \in 1 .. Len(s) : Turns(c, s)[n] = Handoff!ReplaceOnce(Turns(c, s)[n - 1], s[n])
      BY TurnsUnfold
    <3> QED BY <2>1, <3>1
  <2>4. Turns(c, s)[k + 1].text = Handoff!Replace(t, s[k + 1])
    <3> HIDE DEF t
    <3> QED BY <2>2, <2>3 DEF Handoff!ReplaceOnce
  <2>5. \A i \in 1 .. k : Handoff!Emitted(s[i]) # s[k + 1]
    BY <2>1 DEF Chainless
  <2>6. DOMAIN t = DOMAIN c
    BY DEF Upto
  <2>7. ASSUME NEW n \in DOMAIN c
        PROVE  (IF t[n] = s[k + 1] THEN Handoff!Emitted(s[k + 1]) ELSE t[n])
                 = IF \E i \in 1 .. k + 1 : s[i] = c[n] THEN Handoff!Emitted(c[n]) ELSE c[n]
    <3>1. CASE \E i \in 1 .. k : s[i] = c[n]
      <4>1. PICK i \in 1 .. k : s[i] = c[n]
        BY <3>1
      <4>2. t[n] = Handoff!Emitted(c[n])
        BY <3>1 DEF Upto
      <4>3. t[n] # s[k + 1]
        BY <2>5, <4>1, <4>2
      <4>4. i \in 1 .. k + 1
        OBVIOUS
      <4> HIDE DEF t
      <4> QED BY <4>1, <4>2, <4>3, <4>4
    <3>2. CASE ~\E i \in 1 .. k : s[i] = c[n]
      <4>1. t[n] = c[n]
        BY <3>2 DEF Upto
      <4>2. (\E i \in 1 .. k + 1 : s[i] = c[n]) <=> s[k + 1] = c[n]
        <5>1. \A i \in 1 .. k + 1 : i \in 1 .. k \/ i = k + 1
          OBVIOUS
        <5>2. k + 1 \in 1 .. k + 1
          OBVIOUS
        <5> QED BY <3>2, <5>1, <5>2, Zenon
      <4> HIDE DEF t
      <4> QED BY <4>1, <4>2
    <3> QED BY <3>1, <3>2
  <2>8. Handoff!Replace(t, s[k + 1]) = Upto(c, s, k + 1)
    <3> HIDE DEF t
    <3> QED BY <2>6, <2>7 DEF Handoff!Replace, Upto
  <2> QED BY <2>4, <2>8
<1>4. l \in S
  <2> HIDE DEF S
  <2> QED BY <1>1, <1>2, <1>3, SetInduction
<1> QED BY <1>1, <1>4

\* The source of an accepted floorplan: no path is the translation of an
\* earlier one, and no path is there twice.
LEMMA ConfigIsExact ==
  ASSUME NEW c, IsSequence(c), NEW s, IsSequence(s), Distinct(s),
         Handoff!Members(c) = Handoff!Members(s), ~Turns(c, s)[Len(s)].refused
  PROVE  Chainless(s, Len(s)) /\ Distinct(c)
<1>1. /\ Len(s) \in Nat /\ DOMAIN s = 1 .. Len(s)
      /\ Len(c) \in Nat /\ DOMAIN c = 1 .. Len(c)
  BY DEF IsSequence
<1>2. \A k \in 1 .. Len(s) : Handoff!Count(Turns(c, s)[k - 1].text, s[k]) = 1
  BY NotRefused
<1>3. \A i \in DOMAIN s : \E n \in DOMAIN c : c[n] = s[i]
  BY DEF Handoff!Members
<1>4. ASSUME NEW j \in 1 .. Len(s), Chainless(s, j - 1),
             NEW n \in DOMAIN c, NEW m \in DOMAIN c,
             Upto(c, s, j - 1)[n] = s[j], Upto(c, s, j - 1)[m] = s[j]
      PROVE  n = m
  <2> DEFINE t == Upto(c, s, j - 1)
  <2>1. j - 1 \in 0 .. Len(s)
    BY <1>1
  <2>2. Turns(c, s)[j - 1].text = t
    BY <1>4, <2>1, TurnsAreUpto
  <2>3. Handoff!Count(t, s[j]) = 1
    BY <1>2, <2>2
  <2>4. DOMAIN t = 1 .. Len(c)
    BY <1>1 DEF Upto
  <2>5. t[n] = s[j] /\ t[m] = s[j] /\ n \in DOMAIN t /\ m \in DOMAIN t
    BY <1>1, <1>4, <2>4
  <2> HIDE DEF t
  <2> QED BY <1>1, <2>3, <2>4, <2>5, ThereOnce
<1>5. ASSUME NEW j \in 1 .. Len(s), NEW n \in DOMAIN c, c[n] = s[j]
      PROVE  Upto(c, s, j - 1)[n] = s[j]
  <2>1. ~\E i \in 1 .. j - 1 : s[i] = c[n]
    BY <1>1, <1>5 DEF Distinct
  <2> QED BY <1>5, <2>1 DEF Upto
<1>6. Chainless(s, Len(s))
  <2> DEFINE T == {j \in 1 .. Len(s) : \E i \in 1 .. j - 1 : Handoff!Emitted(s[i]) = s[j]}
  <2>1. SUFFICES ASSUME T # {} PROVE FALSE
    BY DEF Chainless
  <2>2. T \subseteq Nat
    OBVIOUS
  <2>3. PICK j \in T : \A y \in T : j <= y
    <3> HIDE DEF T
    <3> QED BY <2>1, <2>2, LeastNatural
  <2>4. j \in 1 .. Len(s)
    OBVIOUS
  <2>5. PICK i \in 1 .. j - 1 : Handoff!Emitted(s[i]) = s[j]
    BY <2>3
  <2>6. Chainless(s, j - 1)
    <3>1. ASSUME NEW a \in 1 .. j - 1, NEW b \in 1 .. a - 1 PROVE Handoff!Emitted(s[b]) # s[a]
      <4>1. a \in 1 .. Len(s) /\ ~(j <= a)
        BY <1>1, <2>4
      <4>2. a \notin T
        <5> HIDE DEF T
        <5> QED BY <2>3, <4>1
      <4> QED BY <4>1, <4>2
    <3> QED BY <3>1 DEF Chainless
  <2>7. i \in DOMAIN s /\ j \in DOMAIN s /\ i # j
    BY <1>1, <2>4
  <2>8. PICK n \in DOMAIN c : c[n] = s[i]
    BY <1>3, <2>7
  <2>9. PICK m \in DOMAIN c : c[m] = s[j]
    BY <1>3, <2>7
  <2>10. n # m
    BY <2>7, <2>8, <2>9 DEF Distinct
  <2>11. Upto(c, s, j - 1)[n] = s[j]
    BY <2>5, <2>8 DEF Upto
  <2>12. Upto(c, s, j - 1)[m] = s[j]
    BY <1>5, <2>4, <2>9
  <2> HIDE DEF T
  <2> QED BY <1>4, <2>4, <2>6, <2>10, <2>11, <2>12
<1>7. Distinct(c)
  <2> SUFFICES ASSUME NEW n \in DOMAIN c, NEW m \in DOMAIN c, c[n] = c[m] PROVE n = m
    BY DEF Distinct
  <2>1. PICK j \in DOMAIN s : s[j] = c[n]
    BY DEF Handoff!Members
  <2>2. j \in 1 .. Len(s) /\ Chainless(s, j - 1)
    BY <1>1, <1>6, <2>1 DEF Chainless
  <2>3. Upto(c, s, j - 1)[n] = s[j] /\ Upto(c, s, j - 1)[m] = s[j]
    BY <1>5, <2>1, <2>2
  <2> QED BY <1>4, <2>2, <2>3
<1> QED BY <1>6, <1>7

\* What is written for a floorplan and a power plan that are not refused.
LEMMA PlansAreExact ==
  ASSUME NEW h \in Hierarchies, Top \in DOMAIN h, ~Handoff!Recursive(h), NEW c \in Plans, NEW d \in Plans,
         ~Handoff!ConfigRefuses(c, Handoff!Paths(h, Top))
  PROVE  /\ Handoff!Members(c) = Handoff!Paths(h, Top)
         /\ Distinct(c)
         /\ Handoff!Translated(c, Handoff!Paths(h, Top)).text = [n \in DOMAIN c |-> Handoff!Emitted(c[n])]
         /\ \A n \in DOMAIN d : d[n] \in Handoff!Paths(h, Top) =>
              Handoff!Translated(d, Handoff!Paths(h, Top)).text[n] = Handoff!Emitted(d[n])
<1> DEFINE P == Handoff!Paths(h, Top)
           s == Order(P)
<1>1. IsSequence(s) /\ Handoff!Members(s) = P /\ Distinct(s)
  BY OrderAssumption DEF Distinct
<1>2. IsSequence(c) /\ IsSequence(d)
  BY PlansAssumption
<1>3. \A t : Handoff!Translated(t, P) = Turns(t, s)[Len(s)]
  BY DEF Handoff!Translated, Turns
<1>4. Handoff!Members(c) = P /\ ~Turns(c, s)[Len(s)].refused
  <2>1. Handoff!Members(c) = P /\ ~Handoff!Translated(c, P).refused
    BY DEF Handoff!ConfigRefuses
  <2> HIDE DEF s
  <2> QED BY <1>3, <2>1
<1> HIDE DEF s, P
<1>5. Chainless(s, Len(s)) /\ Distinct(c)
  BY <1>1, <1>2, <1>4, ConfigIsExact
<1>6. Len(s) \in 0 .. Len(s) /\ DOMAIN s = 1 .. Len(s)
  BY <1>1 DEF IsSequence
<1>7. ASSUME NEW t, IsSequence(t)
      PROVE  Handoff!Translated(t, P).text = Upto(t, s, Len(s))
  BY <1>1, <1>3, <1>5, <1>6, <1>7, TurnsAreUpto
<1>8. \A x : x \in P <=> \E i \in 1 .. Len(s) : s[i] = x
  BY <1>1, <1>6 DEF Handoff!Members
<1>9. \A n \in DOMAIN c : \E i \in 1 .. Len(s) : s[i] = c[n]
  BY <1>4, <1>8 DEF Handoff!Members
<1>10. Upto(c, s, Len(s)) = [n \in DOMAIN c |-> Handoff!Emitted(c[n])]
  BY <1>9 DEF Upto
<1>11. \A n \in DOMAIN d : d[n] \in P => Upto(d, s, Len(s))[n] = Handoff!Emitted(d[n])
  BY <1>8 DEF Upto
<1>12. /\ Handoff!Members(c) = P /\ Distinct(c)
       /\ Handoff!Translated(c, P).text = [n \in DOMAIN c |-> Handoff!Emitted(c[n])]
       /\ \A n \in DOMAIN d : d[n] \in P => Handoff!Translated(d, P).text[n] = Handoff!Emitted(d[n])
  BY <1>2, <1>4, <1>5, <1>7, <1>10, <1>11
<1> QED BY <1>12 DEF P

--------------------------------------------------------------------------------
(* The hand-over as a state machine. What a call writes belongs together:     *)
(* one package, one emission, one source of the floorplan. A manifest, though *)
(* it takes its digests of what is on the disk, is of one call, because the   *)
(* calls before its own are over.                                          *)

\* The outputs of one accepted call.
OneCall(o, h, e, c) ==
  /\ Top \in DOMAIN h
  /\ ~Handoff!Recursive(h) /\ Handoff!Paths(h, Top) # {} /\ Handoff!CanPower(e, h)
  /\ Handoff!Members(c) = Handoff!Paths(h, Top) /\ Distinct(c)
  /\ o.rtl = Handoff!PhysicalRtl(e, h)
  /\ o.floorplan = [n \in DOMAIN c |-> Handoff!Emitted(c[n])]
  /\ o.paths = {Handoff!Emitted(p) : p \in Handoff!Paths(h, Top)}
  /\ o.instances = Cardinality(Handoff!Paths(h, Top))
Handed(o) == \E h \in Hierarchies, e \in EmittedDesigns, c \in Plans : OneCall(o, h, e, c)

\* What is left to write, and what has been.
CallInProgress ==
  /\ Handed(writing)
  /\ \E a, b, c, d, i, l : writing = [rtl |-> a, floorplan |-> b, powerplan |-> c, paths |-> d,
                                      instances |-> i, left |-> l]
  /\ writing.left \in {"floorplan", "powerplan", "manifest"} => rtl = writing.rtl
  /\ writing.left \in {"powerplan", "manifest"} => floorplan = writing.floorplan

Inputs ==
  hierarchy \in Hierarchies /\ emission \in EmittedDesigns /\ config \in Plans /\ pdn \in Plans
HandoffIInv ==
  /\ part = "handoff" => Inputs
  /\ part # "handoff" => writing = None
  /\ writing # None => CallInProgress
  /\ manifest \notin {None, Torn} => Handed(manifest)
  /\ VerifiedIsBuildable

\* The numbers of paths, of emitted paths and of places are the same.
LEMMA SameNumber ==
  ASSUME NEW h \in Hierarchies, Top \in DOMAIN h, ~Handoff!Recursive(h), NEW c \in Plans,
         Handoff!Members(c) = Handoff!Paths(h, Top), Distinct(c)
  PROVE  /\ Len([n \in DOMAIN c |-> Handoff!Emitted(c[n])]) = Cardinality(Handoff!Paths(h, Top))
         /\ Cardinality({Handoff!Emitted(p) : p \in Handoff!Paths(h, Top)}) = Cardinality(Handoff!Paths(h, Top))
         /\ Handoff!Members([n \in DOMAIN c |-> Handoff!Emitted(c[n])])
              = {Handoff!Emitted(p) : p \in Handoff!Paths(h, Top)}
<1> DEFINE P == Handoff!Paths(h, Top)
           Q == {Handoff!Emitted(p) : p \in P}
           N == Names(h)
           t == [n \in DOMAIN c |-> Handoff!Emitted(c[n])]
           f == [n \in 1 .. Len(c) |-> c[n]]
           g == [p \in P |-> Handoff!Emitted(p)]
<1>1. Len(c) \in Nat /\ DOMAIN c = 1 .. Len(c)
  BY PlansAssumption DEF IsSequence
<1>2. f \in Surjection(1 .. Len(c), P) /\ f \in Injection(1 .. Len(c), P)
  <2>1. \A p : p \in P <=> \E n \in 1 .. Len(c) : c[n] = p
    BY <1>1 DEF Handoff!Members
  <2> HIDE DEF P
  <2>2. f \in [1 .. Len(c) -> P]
    BY <2>1
  <2>3. \A i, j \in 1 .. Len(c) : f[i] = f[j] => i = j
    BY <1>1 DEF Distinct
  <2> QED BY <2>1, <2>2, <2>3 DEF Surjection, Injection, IsInjective
<1>3. IsFiniteSet(P) /\ Cardinality(P) = Len(c)
  <2>1. IsFiniteSet(1 .. Len(c)) /\ Cardinality(1 .. Len(c)) = Len(c)
    BY <1>1, CountTo
  <2> HIDE DEF P, f
  <2> QED BY <1>2, <2>1, FS_Surjection
<1>4. g \in Surjection(P, Q) /\ g \in Injection(P, Q)
  <2>1. Top \in DOMAIN h /\ \A x, y \in N : Emit(x) = Emit(y) => x = y
    BY NamesAssumption DEF Names
  <2>2. P \subseteq Seq(N)
    BY <2>1, PathsAreNames
  <2> HIDE DEF P, N
  <2>3. \A p, q \in P : Handoff!Emitted(p) = Handoff!Emitted(q) => p = q
    BY <2>1, <2>2, EmittedInjective
  <2> QED BY <2>3 DEF Surjection, Injection, IsInjective
<1>5. Cardinality(Q) = Cardinality(P)
  <2> HIDE DEF P, Q, g
  <2> QED BY <1>3, <1>4, FS_Surjection
<1>6. Len(t) = Len(c)
  BY <1>1
<1>7. Handoff!Members(t) = Q
  <2>1. P = {c[n] : n \in DOMAIN c}
    BY DEF Handoff!Members
  <2> HIDE DEF P
  <2> QED BY <2>1 DEF Handoff!Members
<1> QED BY <1>3, <1>5, <1>6, <1>7

\* The files of a manifest of one call, when the verifier passes.
LEMMA PassIsBuildable ==
  ASSUME Handed(manifest), Handoff!Passes
  PROVE  /\ LET macros == Handoff!Paths(rtl.modules, Top) IN
            /\ floorplan \notin {None, Torn}
            /\ Handoff!Members(floorplan) = macros /\ Len(floorplan) = Handoff!Cardinality(macros)
            /\ macros \subseteq Handoff!Members(powerplan)
            /\ Handoff!Cardinality(macros) = Macros
         /\ Handoff!PowerFlows(rtl)
<1>1. PICK h \in Hierarchies, e \in EmittedDesigns, c \in Plans : OneCall(manifest, h, e, c)
  BY DEF Handed
<1> DEFINE P == Handoff!Paths(h, Top)
           Q == {Handoff!Emitted(p) : p \in P}
<1>2. /\ ~Handoff!Recursive(h) /\ P # {} /\ Handoff!CanPower(e, h)
      /\ Handoff!Members(c) = P /\ Distinct(c)
      /\ manifest.rtl = Handoff!PhysicalRtl(e, h)
      /\ manifest.floorplan = [n \in DOMAIN c |-> Handoff!Emitted(c[n])]
      /\ manifest.paths = Q /\ manifest.instances = Cardinality(P)
  BY <1>1 DEF OneCall
<1>3. /\ manifest.rtl = rtl /\ manifest.floorplan = floorplan
      /\ manifest.instances = Macros /\ manifest.paths \subseteq Handoff!Members(powerplan)
      /\ ~Handoff!Recursive(rtl.modules) /\ Handoff!Paths(rtl.modules, Top) = manifest.paths
  BY DEF Handoff!Passes
<1>4. rtl.modules = e.modules
  BY <1>2, <1>3 DEF Handoff!PhysicalRtl
<1>5. floorplan \notin {None, Torn}
  BY <1>2, <1>3, PlansAssumption
<1>6. Top \in DOMAIN h
  BY <1>1 DEF OneCall
<1>7. /\ Len(floorplan) = Cardinality(P) /\ Cardinality(Q) = Cardinality(P)
      /\ Handoff!Members(floorplan) = Q
  BY <1>2, <1>3, <1>6, SameNumber
<1>8. IsWired(e, h)
  BY <1>2, <1>3, <1>4, NamesAssumption DEF IsWired
<1>9. Handoff!Paths(e.modules, Top) = Q
  BY <1>2, <1>3, <1>4
<1>10. Handoff!PowerFlows(rtl)
  <2>1. Handoff!PowerFlows(Handoff!PhysicalRtl(e, h))
    BY <1>2, <1>6, <1>8, <1>9, PowerIsWired
  <2> QED BY <1>2, <1>3, <2>1
<1> HIDE DEF P, Q
<1> QED BY <1>2, <1>3, <1>5, <1>7, <1>10, OneCardinality

\* A call that hands over writes what belongs together, exactly translated.
LEMMA OutputsAreOneCall ==
  ASSUME Inputs, Handoff!CanHandOver
  PROVE  /\ OneCall(Handoff!Outputs, hierarchy, emission, config)
         /\ \A n \in DOMAIN pdn : pdn[n] \in Handoff!Paths(hierarchy, Top) =>
              Handoff!Outputs.powerplan[n] = Handoff!Emitted(pdn[n])
         /\ \E a, b, c, d, i : Handoff!Outputs = [rtl |-> a, floorplan |-> b, powerplan |-> c, paths |-> d,
                                                  instances |-> i, left |-> "rtl"]
<1> DEFINE P == Handoff!Paths(hierarchy, Top)
           a == Handoff!PhysicalRtl(emission, hierarchy)
           b == Handoff!Translated(config, P).text
           p == Handoff!Translated(pdn, P).text
           q == {Handoff!Emitted(x) : x \in P}
<1>1. /\ Top \in DOMAIN hierarchy
      /\ ~Handoff!Recursive(hierarchy) /\ P # {} /\ Handoff!CanPower(emission, hierarchy)
      /\ ~Handoff!ConfigRefuses(config, P)
  BY DEF Handoff!CanHandOver
<1>2. hierarchy \in Hierarchies /\ config \in Plans /\ pdn \in Plans
  BY DEF Inputs
<1>3. /\ Handoff!Members(config) = P /\ Distinct(config)
      /\ b = [n \in DOMAIN config |-> Handoff!Emitted(config[n])]
      /\ \A n \in DOMAIN pdn : pdn[n] \in P => p[n] = Handoff!Emitted(pdn[n])
  BY <1>1, <1>2, PlansAreExact
<1>4. Handoff!Outputs = [rtl |-> a, floorplan |-> b, powerplan |-> p, paths |-> q,
                         instances |-> Cardinality(P), left |-> "rtl"]
  BY OneCardinality, Zenon DEF Handoff!Outputs
<1>5. /\ Handoff!Outputs.rtl = a /\ Handoff!Outputs.floorplan = b /\ Handoff!Outputs.powerplan = p
      /\ Handoff!Outputs.paths = q /\ Handoff!Outputs.instances = Cardinality(P)
  <2> HIDE DEF P, a, b, p, q
  <2> QED BY <1>4
<1>6. OneCall(Handoff!Outputs, hierarchy, emission, config)
  BY <1>1, <1>3, <1>5 DEF OneCall
<1>7. \E v, w, x, y, i : Handoff!Outputs = [rtl |-> v, floorplan |-> w, powerplan |-> x, paths |-> y,
                                            instances |-> i, left |-> "rtl"]
  <2> HIDE DEF P, a, b, p, q
  <2> QED BY <1>4
<1> QED BY <1>3, <1>5, <1>6, <1>7

\* What belongs together is the fields' doing.
LEMMA HandedAlike ==
  ASSUME NEW o, NEW u, Handed(o), u.rtl = o.rtl, u.floorplan = o.floorplan,
         u.paths = o.paths, u.instances = o.instances
  PROVE  Handed(u)
BY DEF Handed, OneCall

\* No step but the verifier's looks at what was verified.
LEMMA StillBuildable ==
  ASSUME VerifiedIsBuildable, UNCHANGED verified
  PROVE  VerifiedIsBuildable'
BY DEF VerifiedIsBuildable, Handoff!VerifiedIsPlaced, Handoff!PowerReachesMacros, Handoff!PowerFlows

\* Nothing to do with the hand-over has happened.
LEMMA HandoffUnchanged ==
  ASSUME HandoffIInv, UNCHANGED <<part, ofHandoff>>
  PROVE  HandoffIInv'
<1>1. /\ UNCHANGED <<hierarchy, emission, config, pdn, rtl, floorplan, powerplan, manifest, writing, verified>>
      /\ part' = part
  BY DEF ofHandoff
<1>2. VerifiedIsBuildable'
  BY <1>1, StillBuildable DEF HandoffIInv
<1>3. Handed(writing)' = Handed(writing) /\ Handed(manifest)' = Handed(manifest)
  BY <1>1
<1>4. Inputs' = Inputs
  BY <1>1 DEF Inputs
<1>5. writing # None => CallInProgress'
  BY <1>1, <1>3 DEF CallInProgress, HandoffIInv
<1> QED BY <1>1, <1>2, <1>3, <1>4, <1>5 DEF HandoffIInv

LEMMA HandoffInit == KianvInit => HandoffIInv
<1>1. SUFFICES ASSUME KianvInit PROVE HandoffIInv
  OBVIOUS
<1>2. writing = None /\ verified = None /\ manifest = None
  BY <1>1 DEF KianvInit, NoHandoff, Handoff!Init
<1>3. part = "handoff" => Inputs
  BY <1>1 DEF KianvInit, Inputs, Handoff!Init
<1> QED BY <1>2, <1>3 DEF HandoffIInv, VerifiedIsBuildable, Handoff!VerifiedIsPlaced, Handoff!PowerReachesMacros

LEMMA HandoffStepKeeps ==
  ASSUME HandoffIInv, HandoffStep
  PROVE  HandoffIInv'
<1>1. /\ part = "handoff" /\ part' = part /\ Inputs
      /\ writing # None => CallInProgress
      /\ manifest \notin {None, Torn} => Handed(manifest)
      /\ VerifiedIsBuildable
  BY DEF HandoffIInv, HandoffStep
<1>2. CASE Handoff!Convert
  <2>1. Inputs' /\ UNCHANGED <<rtl, floorplan, powerplan, manifest, writing, verified>>
    BY <1>1, <1>2 DEF Handoff!Convert, Handoff!outputs, Inputs
  <2>2. VerifiedIsBuildable'
    BY <1>1, <2>1, StillBuildable
  <2> QED BY <1>1, <2>1, <2>2 DEF HandoffIInv, CallInProgress, Handed, OneCall
<1>3. CASE Handoff!HandOver
  <2>1. /\ Handoff!CanHandOver /\ writing' = Handoff!Outputs
        /\ UNCHANGED <<hierarchy, emission, config, pdn, manifest, verified>>
    BY <1>3 DEF Handoff!HandOver, Handoff!inputs, Handoff!outputs
  <2>2. /\ OneCall(Handoff!Outputs, hierarchy, emission, config)
        /\ \E a, b, c, d, i : Handoff!Outputs = [rtl |-> a, floorplan |-> b, powerplan |-> c, paths |-> d,
                                                 instances |-> i, left |-> "rtl"]
    BY <1>1, <2>1, OutputsAreOneCall
  <2>3. Handed(Handoff!Outputs) /\ Handoff!Outputs.left = "rtl"
    BY <1>1, <2>2 DEF Handed, Inputs
  <2>4. Handed(writing')
    BY <2>1, <2>3
  <2>5. CallInProgress'
    <3>1. writing'.left = "rtl"
      BY <2>1, <2>3
    <3>2. \E a, b, c, d, i, l : writing' = [rtl |-> a, floorplan |-> b, powerplan |-> c, paths |-> d,
                                            instances |-> i, left |-> l]
      BY <2>1, <2>2
    <3> QED BY <2>4, <3>1, <3>2 DEF CallInProgress, Handed, OneCall
  <2>6. VerifiedIsBuildable'
    BY <1>1, <2>1, StillBuildable
  <2>7. Inputs'
    BY <1>1, <2>1 DEF Inputs
  <2> QED BY <1>1, <2>1, <2>5, <2>6, <2>7 DEF HandoffIInv, Handed, OneCall
<1>4. ASSUME writing # None, NEW l \in {"floorplan", "powerplan", "manifest"},
             writing' = [writing EXCEPT !.left = l], UNCHANGED <<hierarchy, emission, config, pdn, manifest, verified>>,
             rtl' = writing.rtl, l \in {"powerplan", "manifest"} => floorplan' = writing.floorplan
      PROVE  HandoffIInv'
  <2>1. Handed(writing)
    BY <1>1, <1>4 DEF CallInProgress
  <2>2. PICK a, b, c, d, i, k : writing = [rtl |-> a, floorplan |-> b, powerplan |-> c, paths |-> d,
                                           instances |-> i, left |-> k]
    BY <1>1, <1>4 DEF CallInProgress
  <2>3. writing' = [rtl |-> a, floorplan |-> b, powerplan |-> c, paths |-> d, instances |-> i, left |-> l]
    BY <1>4, <2>2
  <2>4. /\ writing'.rtl = writing.rtl /\ writing'.floorplan = writing.floorplan
        /\ writing'.paths = writing.paths /\ writing'.instances = writing.instances /\ writing'.left = l
    BY <2>2, <2>3
  <2>5. Handed(writing')
    BY <2>1, <2>4, HandedAlike
  <2>6. \E v, w, x, y, z, u : writing' = [rtl |-> v, floorplan |-> w, powerplan |-> x, paths |-> y,
                                          instances |-> z, left |-> u]
    BY <2>3
  <2>7. CallInProgress'
    BY <1>4, <2>4, <2>5, <2>6 DEF CallInProgress, Handed, OneCall
  <2>8. VerifiedIsBuildable'
    BY <1>1, <1>4, StillBuildable
  <2>9. Inputs'
    BY <1>1, <1>4 DEF Inputs
  <2> QED BY <1>1, <1>4, <2>7, <2>8, <2>9 DEF HandoffIInv, Handed, OneCall
<1>5. CASE Handoff!WriteRtl
  BY <1>4, <1>5 DEF Handoff!WriteRtl, Handoff!inputs
<1>6. CASE Handoff!WriteFloorplan
  <2>1. rtl = writing.rtl
    BY <1>1, <1>6 DEF Handoff!WriteFloorplan, CallInProgress
  <2> QED BY <1>4, <1>6, <2>1 DEF Handoff!WriteFloorplan, Handoff!inputs
<1>7. CASE Handoff!WritePowerplan
  <2>1. rtl = writing.rtl /\ floorplan = writing.floorplan
    BY <1>1, <1>7 DEF Handoff!WritePowerplan, CallInProgress
  <2> QED BY <1>4, <1>7, <2>1 DEF Handoff!WritePowerplan, Handoff!inputs
<1>8. CASE Handoff!WriteManifest
  <2>1. /\ writing # None /\ writing.left = "manifest" /\ writing' = None
        /\ manifest' = [rtl |-> rtl, floorplan |-> floorplan, powerplan |-> powerplan,
                        paths |-> writing.paths, instances |-> writing.instances]
        /\ UNCHANGED <<hierarchy, emission, config, pdn, verified>>
    BY <1>8 DEF Handoff!WriteManifest, Handoff!inputs
  <2>2. Handed(writing) /\ rtl = writing.rtl /\ floorplan = writing.floorplan
    BY <1>1, <2>1 DEF CallInProgress
  <2>3. /\ manifest'.rtl = writing.rtl /\ manifest'.floorplan = writing.floorplan
        /\ manifest'.paths = writing.paths /\ manifest'.instances = writing.instances
    BY <2>1, <2>2
  <2>4. Handed(manifest')
    BY <2>2, <2>3, HandedAlike
  <2>5. VerifiedIsBuildable'
    BY <1>1, <2>1, StillBuildable
  <2>6. Inputs'
    BY <1>1, <2>1 DEF Inputs
  <2> QED BY <1>1, <2>1, <2>4, <2>5, <2>6 DEF HandoffIInv, Handed, OneCall
<1>9. CASE Handoff!Interrupt
  <2>1. /\ writing' = None /\ manifest' \in {manifest, Torn}
        /\ UNCHANGED <<hierarchy, emission, config, pdn, verified>>
    BY <1>9 DEF Handoff!Interrupt, Handoff!inputs, Handoff!outputs
  <2>2. VerifiedIsBuildable'
    BY <1>1, <2>1, StillBuildable
  <2>3. Inputs'
    BY <1>1, <2>1 DEF Inputs
  <2> QED BY <1>1, <2>1, <2>2, <2>3 DEF HandoffIInv, Handed, OneCall
<1>10. CASE Handoff!Verify
  <2>1. /\ Handoff!Passes /\ verified' = [rtl |-> rtl, floorplan |-> floorplan, powerplan |-> powerplan]
        /\ UNCHANGED <<hierarchy, emission, config, pdn, rtl, floorplan, manifest, writing>>
    BY <1>10 DEF Handoff!Verify, Handoff!inputs, Handoff!outputs
  <2>2. Handed(manifest)
    BY <1>1, <2>1 DEF Handoff!Passes
  <2>3. verified'.rtl = rtl /\ verified'.floorplan = floorplan /\ verified'.powerplan = powerplan
    BY <2>1
  <2>4. VerifiedIsBuildable'
    BY <2>1, <2>2, <2>3, PassIsBuildable
       DEF VerifiedIsBuildable, Handoff!VerifiedIsPlaced, Handoff!PowerReachesMacros, Handoff!PowerFlows
  <2>5. Inputs'
    BY <1>1, <2>1 DEF Inputs
  <2>6. writing' # None => CallInProgress'
    BY <1>1, <2>1 DEF CallInProgress, Handed, OneCall
  <2> QED BY <1>1, <2>1, <2>2, <2>4, <2>5, <2>6 DEF HandoffIInv, Handed, OneCall
<1> QED BY <1>2, <1>3, <1>5, <1>6, <1>7, <1>8, <1>9, <1>10 DEF HandoffStep, Handoff!Next

LEMMA HandoffNextKeeps == HandoffIInv /\ [KianvNext]_allVars => HandoffIInv'
<1>1. SUFFICES ASSUME HandoffIInv, [KianvNext]_allVars PROVE HandoffIInv'
  OBVIOUS
<1>2. CASE HandoffStep
  BY <1>1, <1>2, HandoffStepKeeps
<1>3. CASE RunnerStep \/ MiterStep \/ UNCHANGED allVars
  <2>1. UNCHANGED <<part, ofHandoff>>
    BY <1>3 DEF RunnerStep, MiterStep, allVars
  <2> QED BY <1>1, <2>1, HandoffUnchanged
<1> QED BY <1>1, <1>2, <1>3 DEF KianvNext

\* Whatever conversions, refusals and interruptions the files come from, a
\* verified hand-over has its memories where both plans have them, as many as
\* the floorplan knows, and power reaches every one. Code: main of the verifier
\* and add_power_hierarchy.
THEOREM VerifiedCanBeBuilt == KianvSpec => []VerifiedIsBuildable
<1>1. HandoffIInv => VerifiedIsBuildable
  BY DEF HandoffIInv
<1> QED BY HandoffInit, HandoffNextKeeps, <1>1, PTL DEF KianvSpec

\* No translated path is translated again, in the floorplan nor, since its
\* source vouches for the order of the paths, in the power plan.
\* Code: physical_config.
THEOREM TranslationsAreExact == KianvSpec => TranslationIsExact
<1> DEFINE Exact ==
      (writing = None /\ writing' # None) =>
        /\ writing'.floorplan = [n \in DOMAIN config |-> Handoff!Emitted(config[n])]
        /\ \A n \in DOMAIN pdn : pdn[n] \in Handoff!Paths(hierarchy, Top) =>
             writing'.powerplan[n] = Handoff!Emitted(pdn[n])
<1>1. HandoffIInv /\ [KianvNext]_allVars => Exact
  <2>1. SUFFICES ASSUME HandoffIInv, [KianvNext]_allVars, writing = None, writing' # None PROVE Exact
    OBVIOUS
  <2>2. HandoffStep
    <3>1. ~(UNCHANGED <<part, ofHandoff>>)
      BY <2>1 DEF ofHandoff
    <3> QED BY <2>1, <3>1 DEF KianvNext, RunnerStep, MiterStep, allVars
  <2>3. Inputs
    BY <2>1, <2>2 DEF HandoffIInv, HandoffStep
  <2>4. Handoff!CanHandOver /\ writing' = Handoff!Outputs
    BY <2>1, <2>2 DEF HandoffStep, Handoff!Next, Handoff!Convert, Handoff!HandOver, Handoff!WriteRtl,
       Handoff!WriteFloorplan, Handoff!WritePowerplan, Handoff!WriteManifest, Handoff!Interrupt, Handoff!Verify
  <2>5. /\ OneCall(Handoff!Outputs, hierarchy, emission, config)
        /\ \A n \in DOMAIN pdn : pdn[n] \in Handoff!Paths(hierarchy, Top) =>
              Handoff!Outputs.powerplan[n] = Handoff!Emitted(pdn[n])
    BY <2>3, <2>4, OutputsAreOneCall
  <2> QED BY <2>4, <2>5 DEF OneCall
<1>2. HandoffIInv /\ [KianvNext]_allVars => [Exact]_(Handoff!vars)
  BY <1>1
<1> QED BY HandoffInit, HandoffNextKeeps, <1>2, PTL DEF KianvSpec, TranslationIsExact, Handoff!TranslationIsExact
================================================================================
