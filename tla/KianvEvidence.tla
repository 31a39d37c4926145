----------------------------- MODULE KianvEvidence -----------------------------
(***************************************************************************)
(* The equivalence report of the KianV conversion and the evidence made of  *)
(* it. The runner reads the package and the elaborated design once, lets     *)
(* Yosys read the elaborated and the emitted file anew for every module, and *)
(* takes the digests when it is done; a second script turns a report into    *)
(* evidence. A conversion may replace the files at any time, and the runner  *)
(* may be killed or raise before it has written a report, which leaves the   *)
(* report of an earlier call. Nothing in the code tells that a file was      *)
(* replaced between its use and its digest: two history fields do, that no   *)
(* guard reads. "stale" holds the results whose designs were replaced after  *)
(* the comparison, "repackaged" whether the package was after it was read.   *)
(* A file stands for its digest. A design gives every module a body, which   *)
(* is what Yosys compares: without the children, or flattened with them. The *)
(* contract is read once; that its own digest is taken again, at its result  *)
(* and at the end, is left out.                                              *)
(***************************************************************************)
EXTENDS Integers, Sequences, FiniteSets

CONSTANTS Elaborations, Emissions, \* designs: functions from module names to bodies
          Packages,  \* sequences of [name, leaf]
          Contracts, \* external contracts: [module, contract]
          Selections, \* sets of --module names; {} when there is none
          Expected,  \* modules the evidence must cover (EXPECTED_MODULES)
          MaxEdits,  \* files a conversion replaces in a behaviour
          None

ASSUME PackagesAssumption ==
  \A p \in Packages : Len(p) \in Nat /\ DOMAIN p = 1 .. Len(p)

VARIABLES elaborated, package, emitted, \* the files
          edits,
          running,   \* the runner's call: what it loaded, selected and found, or None
          report, evidence \* the files, or None

files == <<elaborated, package, emitted>>
vars == <<files, edits, running, report, evidence>>

Init ==
  /\ elaborated \in Elaborations
  /\ package \in Packages
  /\ emitted \in Emissions
  /\ edits = 0
  /\ running = None
  /\ report = None
  /\ evidence = None

(* A conversion replaces one file; its three files are not written at once.  *)
Convert ==
  /\ edits < MaxEdits
  /\ \/ /\ \/ elaborated' \in Elaborations /\ UNCHANGED emitted
           \/ emitted' \in Emissions /\ UNCHANGED elaborated
        /\ running' = IF running = None THEN None
                      ELSE [running EXCEPT !.stale = DOMAIN running.results]
        /\ UNCHANGED package
     \/ /\ package' \in Packages
        /\ running' = IF running = None THEN None ELSE [running EXCEPT !.repackaged = TRUE]
        /\ UNCHANGED <<elaborated, emitted>>
  /\ edits' = edits + 1
  /\ UNCHANGED <<report, evidence>>

NamesOf(modules) == {modules[i].name : i \in DOMAIN modules}
IsSelected(m, wanted, leavesOnly) ==
  (wanted = {} \/ m.name \in wanted) /\ (leavesOnly => m.leaf)
(* The selected ones of the first n modules, in the order of the package.    *)
SelectedOf(modules, wanted, leavesOnly) ==
  LET selected[n \in 0 .. Len(modules)] ==
        IF n = 0 THEN <<>>
        ELSE IF IsSelected(modules[n], wanted, leavesOnly)
             THEN Append(selected[n - 1], modules[n]) ELSE selected[n - 1]
  IN selected
Selected(wanted, leavesOnly) == SelectedOf(package, wanted, leavesOnly)[Len(package)]

(* main up to its loop: a requested module must be in the package.           *)
Start(wanted, leavesOnly, contract) ==
  /\ running = None
  /\ wanted \subseteq NamesOf(package)
  /\ running' = [design |-> elaborated, loaded |-> package, contract |-> contract,
                 selected |-> Selected(wanted, leavesOnly), results |-> <<>>,
                 stale |-> {}, repackaged |-> FALSE]
  /\ UNCHANGED <<files, edits, report, evidence>>

Busy == running # None /\ Len(running.results) < Len(running.selected)
Name == running.selected[Len(running.results) + 1].name
Contracted == running.contract # None /\ running.contract.module = Name
Record(status, contract) ==
  running' = [running EXCEPT !.results = Append(@, [module |-> Name, status |-> status, contract |-> contract])]

Contract ==
  /\ Busy /\ Contracted
  /\ Record("CONTRACT", running.contract.contract)
  /\ UNCHANGED <<files, edits, report, evidence>>

(* The elaborated design read at the start lacks the module.                 *)
Raises == Busy /\ ~Contracted /\ Name \notin DOMAIN running.design

Same(e, m, name) == name \in DOMAIN e /\ name \in DOMAIN m /\ e[name] = m[name]
Verdict == IF Same(elaborated, emitted, Name) THEN "PASS" ELSE "FAIL"

(* Yosys reads both files from the disk; it may also run into the timeout.   *)
Prove ==
  /\ Busy /\ ~Contracted /\ Name \in DOMAIN running.design
  /\ Record(Verdict, None) \/ Record("TIMEOUT", None)
  /\ UNCHANGED <<files, edits, report, evidence>>

(* The call ends without a report: killed, or by an exception.               *)
Stop ==
  /\ running # None
  /\ running' = None
  /\ UNCHANGED <<files, edits, report, evidence>>

(* A mutant: the digest of the elaborated design is taken when it is loaded.  *)
BoundAtStart == running.design
Bound == elaborated
Statuses(results) == {results[i].status : i \in DOMAIN results}
Finish ==
  /\ running # None /\ ~Busy
  /\ report' = [pass |-> running.results # <<>> /\ Statuses(running.results) \subseteq {"PASS", "CONTRACT"},
                elaborated |-> Bound, package |-> package, emitted |-> emitted,
                selected |-> [i \in DOMAIN running.selected |-> running.selected[i].name],
                results |-> running.results,
                loaded |-> running.loaded, stale |-> running.stale, repackaged |-> running.repackaged]
  /\ running' = None
  /\ UNCHANGED <<files, edits, evidence>>

Positions(r, status) == {i \in DOMAIN r.results : r.results[i].status = status}
(* A mutant: only the verdict of the report is looked at.                    *)
AcceptedByStatus(r) == r.pass
Accepted(r) ==
  /\ r.pass
  /\ Len(r.results) = Expected /\ Len(r.selected) = Expected
  /\ [i \in DOMAIN r.results |-> r.results[i].module] = r.selected
  /\ Cardinality({r.results[i].module : i \in DOMAIN r.results}) = Expected
  /\ Cardinality(Positions(r, "PASS")) = Expected - 1
  /\ Cardinality(Positions(r, "CONTRACT")) = 1
  /\ \A i \in Positions(r, "CONTRACT") : r.results[i].contract = "sram"

(* kianv_equivalence_evidence.py, at any time after some report exists.      *)
Publish ==
  /\ report # None /\ Accepted(report)
  /\ evidence' = report
  /\ UNCHANGED <<files, edits, running, report>>

Next ==
  \/ Convert \/ Contract \/ Prove \/ Stop \/ Finish \/ Publish
  \/ \E wanted \in Selections, leavesOnly \in BOOLEAN, contract \in Contracts \cup {None} :
       Start(wanted, leavesOnly, contract)

Spec == Init /\ [][Next]_vars
--------------------------------------------------------------------------------
(* Every module the evidence calls proved is the same in the two designs     *)
(* whose digests it binds, unless one of them was replaced after the module  *)
(* was compared and before the call took its digests: that the runner cannot *)
(* tell, and such a module is left out here. A design replaced earlier, or   *)
(* between two calls, is not.  Code: main of both scripts.                   *)
EvidenceIsTrue ==
  evidence # None =>
     \A i \in DOMAIN evidence.results \ evidence.stale :
        evidence.results[i].status = "PASS" =>
           Same(evidence.elaborated, evidence.emitted, evidence.results[i].module)

(* Evidence of a call that loaded a package of the expected size leaves no   *)
(* module of that package out, and only the memory rests on a contract,      *)
(* whatever was selected and whichever call left the report. The package it  *)
(* binds is the loaded one, unless the file was replaced under the call: its *)
(* digest is taken at the end, and the evidence may then bind a package with *)
(* modules it does not cover.  Code: main of both scripts.                   *)
Covers(e, modules) ==
  /\ NamesOf(modules) = {e.results[i].module : i \in DOMAIN e.results}
  /\ \E i \in DOMAIN e.results :
        /\ e.results[i].status = "CONTRACT" /\ e.results[i].contract = "sram"
        /\ \A j \in DOMAIN e.results : j # i => e.results[j].status = "PASS"
EvidenceIsComplete ==
  evidence # None =>
     /\ Len(evidence.loaded) = Expected => Covers(evidence, evidence.loaded)
     /\ evidence.package = evidence.loaded \/ evidence.repackaged
================================================================================
