------------------------------ MODULE ImportPackage ------------------------------
(***************************************************************************)
(* The importer's main: check the identity of the elaborated design and the *)
(* four-state policy, close the package over the instances of its top,      *)
(* translate every module and intern its expressions, write the tree and    *)
(* the manifest, and say PASS or BLOCKED.                                  *)
(***************************************************************************)
EXTENDS Integers, Sequences, FiniteSets

CONSTANTS Designs,     \* elaborated designs: module name -> kinds of its cells, expressions, roots, blockers
          Policies,    \* policy documents: a sequence of rules, or <<>> for no policy
          Classifications

VARIABLES design, policy,
          identified,    \* the inventory names this very design
          selection,     \* <<"module", name>> or <<"package", name>>
          phase,
          reachable, pending,
          translated,    \* the modules done, in order
          ids, table,    \* the expression table of the module at hand
          files          \* what is written: the design, its modules and its blockers
input == <<design, policy, identified, selection>>
vars == <<input, phase, reachable, pending, translated, ids, table, files>>

Names == DOMAIN design

Init ==
  /\ design \in Designs
  /\ policy \in Policies
  /\ identified \in BOOLEAN
  /\ selection \in {"module", "package"} \X {1, 2, 3, 9}
  /\ phase = "start"
  /\ reachable = {}
  /\ pending = <<>>
  /\ translated = <<>>
  /\ ids = <<>>
  /\ table = <<>>
  /\ files = {}

Stop(how) == phase' = how /\ UNCHANGED <<input, reachable, pending, translated, ids, table, files>>

(* A policy has rules, each complete, with its own name, a known            *)
(* classification and fill and a range of lines.                           *)
ValidPolicy ==
  \/ policy = <<>>
  \/ /\ \A i \in DOMAIN policy : /\ policy[i].classification \in Classifications
                                 /\ policy[i].fill \in {"zero", "one"}
                                 /\ policy[i].lo >= 0 /\ policy[i].hi >= policy[i].lo
     /\ \A i, j \in DOMAIN policy : i # j => policy[i].name # policy[j].name

Refuse ==
  /\ phase = "start"
  /\ ~identified \/ ~ValidPolicy \/ selection[2] \notin Names
  /\ Stop("refused")

Select ==
  /\ phase = "start"
  /\ identified /\ ValidPolicy /\ selection[2] \in Names
  /\ phase' = IF selection[1] = "package" THEN "closing" ELSE "translating"
  /\ reachable' = {selection[2]}
  /\ pending' = <<selection[2]>>
  /\ UNCHANGED <<input, translated, ids, table, files>>

(* A child is remembered when it is met, and looked at when it is popped.   *)
Collected(kinds, unseen) ==
  LET f[i \in 0..Len(kinds)] ==
        IF i = 0 THEN <<>>
        ELSE IF kinds[i] \in unseen /\ \A j \in DOMAIN f[i - 1] : f[i - 1][j] # kinds[i]
             THEN Append(f[i - 1], kinds[i]) ELSE f[i - 1]
  IN f[Len(kinds)]
(* A mutant: only the children of the top.                                 *)
FreshOfTop(kinds) == Collected(kinds, IF Cardinality(reachable) = 1 THEN Names \ reachable ELSE {})
Fresh(kinds) == Collected(kinds, Names \ reachable)
Close ==
  /\ phase = "closing"
  /\ pending # <<>>
  /\ LET parent == pending[Len(pending)]
         children == Fresh(design[parent].cells)
     IN /\ reachable' = reachable \cup {children[i] : i \in DOMAIN children}
        /\ pending' = SubSeq(pending, 1, Len(pending) - 1) \o children
  /\ UNCHANGED <<input, phase, translated, ids, table, files>>
Closed ==
  /\ phase = "closing"
  /\ pending = <<>>
  /\ phase' = "translating"
  /\ UNCHANGED <<input, reachable, pending, translated, ids, table, files>>

(* The next module in order of name. Its expressions are objects that share *)
(* their parts; each object gets a row after the rows of its parts.         *)
Done == {translated[i] : i \in DOMAIN translated}
Rest == reachable \ Done
Current == CHOOSE n \in Rest : \A m \in Rest : n <= m
Heap == design[Current].heap
Roots == design[Current].roots

Interned(object, order) == \E i \in DOMAIN order : order[i] = object
(* The order of the rows after some objects, one by one.                    *)
After(intern, objects, order) ==
  LET after[i \in 0..Len(objects)] == IF i = 0 THEN order ELSE intern[objects[i]][after[i - 1]]
  IN after[Len(objects)]
Intern(heap) ==
  LET intern[object \in DOMAIN heap] ==
        [order \in Seq(DOMAIN heap) |->
           IF Interned(object, order) THEN order ELSE Append(After(intern, heap[object].parts, order), object)]
  IN intern
(* A mutant: the row before.                                               *)
RowBefore(order, object) == (CHOOSE i \in DOMAIN order : order[i] = object) - 1
Row(order, object) == CHOOSE i \in DOMAIN order : order[i] = object
RowsOf(order, objects) == [i \in DOMAIN objects |-> Row(order, objects[i])]

Translate ==
  /\ phase = "translating"
  /\ Rest # {}
  /\ IF selection[1] = "package"
     THEN LET order == After(Intern(Heap), Roots, <<>>)
          IN /\ ids' = RowsOf(order, Roots)
             /\ table' = [i \in DOMAIN order |-> [Heap[order[i]] EXCEPT !.parts = RowsOf(order, @)]]
     ELSE UNCHANGED <<ids, table>>
  /\ translated' = Append(translated, Current)
  /\ UNCHANGED <<input, phase, reachable, pending, files>>

Written == [modules  |-> translated,
            blockers |-> {n \in Done : design[n].blockers}]
WriteOutput ==
  /\ phase = "translating"
  /\ Rest = {}
  /\ files' = {<<"output", Written>>}
  /\ phase' = "manifest"
  /\ UNCHANGED <<input, reachable, pending, translated, ids, table>>
WriteManifest ==
  /\ phase = "manifest"
  /\ files' = files \cup {<<"manifest", f[2]>> : f \in files}
  /\ phase' = IF \A f \in files : f[2].blockers = {} THEN "pass" ELSE "blocked"
  /\ UNCHANGED <<input, reachable, pending, translated, ids, table>>

Next == Refuse \/ Select \/ Close \/ Closed \/ Translate \/ WriteOutput \/ WriteManifest
Spec == Init /\ [][Next]_vars

(* The modules below the selected one.                                     *)
Below(n) == {design[n].cells[i] : i \in DOMAIN design[n].cells} \cap Names
Reference ==
  LET closed(S) == selection[2] \in S /\ (selection[1] = "package" => \A n \in S : Below(n) \subseteq S)
  IN {n \in Names : \A S \in SUBSET Names : closed(S) => n \in S}

(* The expressions that objects or rows stand for, with sharing undone.      *)
Trees(nodes) ==
  LET tree[n \in DOMAIN nodes] ==
        [op |-> nodes[n].op, parts |-> [i \in DOMAIN nodes[n].parts |-> tree[nodes[n].parts[i]]]]
  IN tree
LastModule == translated[Len(translated)]

(* A package that passes holds every module below its top once, none with a *)
(* blocker, of the design the inventory was made of. Code: main.            *)
PassIsComplete ==
  phase = "pass" =>
    /\ Done = Reference /\ Len(translated) = Cardinality(Reference)
    /\ \A n \in Reference : ~design[n].blockers
    /\ identified /\ \A f \in files : f[2].modules = translated
    /\ Cardinality(files) = 2

(* The table is the trees: a row comes after its parts, a root's row stands *)
(* for its tree. Code: encode_module_expression_dag.                        *)
TableIsTheTrees ==
  translated # <<>> /\ selection[1] = "package" =>
    /\ \A r \in DOMAIN table : \A p \in DOMAIN table[r].parts : table[r].parts[p] < r
    /\ \A i \in DOMAIN ids : Trees(table)[ids[i]] = Trees(design[LastModule].heap)[design[LastModule].roots[i]]

(* Sharing is kept: the table has no more rows than there are objects, when *)
(* the trees may be exponential. Code: encode_module_expression_dag.        *)
SharingKept == translated # <<>> => Len(table) <= Len(design[LastModule].heap)

==================================================================================
