------------------------------ MODULE KianvHandoff ------------------------------
(***************************************************************************)
(* The hand-over of the converted KianV core to the physical flow and the    *)
(* check of what was handed over. The generator reads the emitted RTL, the   *)
(* package and the two source configurations, computes everything, and then  *)
(* writes the RTL, the floorplan, the power plan and last a manifest with     *)
(* digests of what is on the disk; the verifier reads the manifest and the    *)
(* files. Either may meet inputs of two conversions, or the files of a call   *)
(* that was interrupted between two writes. A file stands for its digest.     *)
(***************************************************************************)
EXTENDS Integers, Sequences, SequencesExt, FiniteSets

CONSTANTS Packages,  \* functions from module names to sequences of instances [name, of]
          Emissions, \* the emitted RTL: modules as above, and whether it holds the memory's body
          Configs,   \* floorplans and power plans: sequences of memory paths
          Emit(_),   \* the emitted name of an instance
          Order(_),  \* sorted: a set of paths as a sequence
          Top, Ram,  \* the top module and the contracted memory's wrapper
          Macros,    \* memories of the known floorplan
          MaxEdits,  \* inputs a conversion replaces in a behaviour
          None, Torn

VARIABLES package, emission, config, pdn,  \* the inputs
          rtl, floorplan, powerplan, manifest, \* the outputs, None before the first call
          edits, writing, \* what a call has still to write, or None
          verified   \* what the last successful verification read, or None

inputs == <<package, emission, config, pdn>>
outputs == <<rtl, floorplan, powerplan, manifest>>
vars == <<inputs, outputs, edits, writing, verified>>
Members(s) == {s[i] : i \in DOMAIN s}
Count(s, x) == Cardinality({i \in DOMAIN s : s[i] = x})

Init ==
  /\ package \in Packages /\ emission \in Emissions /\ config \in Configs /\ pdn \in Configs
  /\ rtl = None /\ floorplan = None /\ powerplan = None /\ manifest = None
  /\ edits = 0 /\ writing = None /\ verified = None
--------------------------------------------------------------------------------
(* Modules that instantiate each other in a cycle, on which both walks raise: *)
(* each of the set has an instance of one of the set. Memories are not entered. *)
Recursive(modules) ==
  \E S \in SUBSET DOMAIN modules \ {{}} :
    \A n \in S : \E i \in Members(modules[n]) : i.of # Ram /\ i.of \in S

(* enumerate_sram_paths, macro_paths: where the memories are below a module.  *)
(* Instances of a module have different names, as cells of a netlist do.     *)
Paths(modules, name) ==
  LET paths[n \in DOMAIN modules] ==
        UNION {IF i.of = Ram THEN {<<i.name>>}
               ELSE IF i.of \in DOMAIN modules THEN {<<i.name>> \o p : p \in paths[i.of]}
               ELSE {} : i \in Members(modules[n])}
  IN paths[name]
Emitted(path) == [n \in DOMAIN path |-> Emit(path[n])]

Reaches(modules, name) ==
  LET reaches[n \in DOMAIN modules] ==
        \E i \in Members(modules[n]) : i.of = Ram \/ (i.of \in DOMAIN modules /\ reaches[i.of])
  IN reaches[name]
Powered(modules) == {n \in DOMAIN modules : Reaches(modules, n)}

(* add_power_hierarchy: ports for every powered module, and connections for   *)
(* its powered children, each of which must be found once.                  *)
ChildrenToPower(modules, name) ==
  {[name |-> Emit(i.name), of |-> i.of] :
     i \in {j \in Members(modules[name]) : j.of = Ram \/ j.of \in Powered(modules)}}
CanPower(emitted, modules) ==
  \A n \in Powered(modules) :
    n \in DOMAIN emitted.modules /\ \A c \in ChildrenToPower(modules, n) : Count(emitted.modules[n], c) = 1
(* physical_rtl: the foundry's wrapper for the model of the memory.          *)
PhysicalRtl(emitted, modules) ==
  [modules |-> emitted.modules, body |-> FALSE, ports |-> Powered(modules),
   wired |-> [n \in Powered(modules) |-> ChildrenToPower(modules, n)]]

(* The text replaced path by path, in the order of the paths; a path that is  *)
(* not there exactly once when its turn comes is refused.                   *)
(* An entry of a text is a path and nothing else, so that the substrings the  *)
(* code counts and replaces are entries.                                    *)
Replace(text, old) == [n \in DOMAIN text |-> IF text[n] = old THEN Emitted(old) ELSE text[n]]
(* A mutant: every path of the text is replaced, however often it is there.   *)
ReplaceOnceAny(acc, old) == [acc EXCEPT !.text = Replace(acc.text, old)]
ReplaceOnce(acc, old) ==
  [text |-> Replace(acc.text, old), refused |-> acc.refused \/ Count(acc.text, old) # 1]
Translated(text, paths) ==
  LET order == Order(paths)
      done[n \in 0..Len(order)] ==
        IF n = 0 THEN [text |-> text, refused |-> FALSE] ELSE ReplaceOnce(done[n - 1], order[n])
  IN done[Len(order)]
Refuses(text, paths) ==
  LET done == Translated(text, paths) IN done.refused \/ Members(done.text) \cap paths # {}
ConfigRefuses(text, paths) == Members(text) # paths \/ Translated(text, paths).refused

CanHandOver ==
  /\ Top \in DOMAIN package
  /\ ~Recursive(package) /\ Paths(package, Top) # {}
  /\ emission.body
  /\ CanPower(emission, package)
  /\ ~ConfigRefuses(config, Paths(package, Top))
  /\ ~Refuses(pdn, Paths(package, Top))
--------------------------------------------------------------------------------
(* A conversion, or an edit of the sources, replaces an input.               *)
Convert ==
  /\ edits < MaxEdits /\ edits' = edits + 1
  /\ \/ package' \in Packages /\ UNCHANGED <<emission, config, pdn>>
     \/ emission' \in Emissions /\ UNCHANGED <<package, config, pdn>>
     \/ config' \in Configs /\ UNCHANGED <<package, emission, pdn>>
     \/ pdn' \in Configs /\ UNCHANGED <<package, emission, config>>
  /\ UNCHANGED <<outputs, writing, verified>>

Outputs ==
  LET paths == Paths(package, Top) IN
  [rtl |-> PhysicalRtl(emission, package),
   floorplan |-> Translated(config, paths).text, powerplan |-> Translated(pdn, paths).text,
   paths |-> {Emitted(p) : p \in paths}, instances |-> Cardinality(paths), left |-> "rtl"]
(* main up to its first write; a refusal leaves every output alone.          *)
HandOver ==
  /\ writing = None /\ CanHandOver
  /\ writing' = Outputs
  /\ UNCHANGED <<inputs, outputs, edits, verified>>

WriteRtl ==
  /\ writing # None /\ writing.left = "rtl"
  /\ rtl' = writing.rtl
  /\ writing' = [writing EXCEPT !.left = "floorplan"]
  /\ UNCHANGED <<inputs, floorplan, powerplan, manifest, edits, verified>>
WriteFloorplan ==
  /\ writing # None /\ writing.left = "floorplan"
  /\ floorplan' = writing.floorplan
  /\ writing' = [writing EXCEPT !.left = "powerplan"]
  /\ UNCHANGED <<inputs, rtl, powerplan, manifest, edits, verified>>
WritePowerplan ==
  /\ writing # None /\ writing.left = "powerplan"
  /\ powerplan' = writing.powerplan
  /\ writing' = [writing EXCEPT !.left = "manifest"]
  /\ UNCHANGED <<inputs, rtl, floorplan, manifest, edits, verified>>
WriteManifest ==
  /\ writing # None /\ writing.left = "manifest"
  /\ manifest' = [rtl |-> rtl, floorplan |-> floorplan, powerplan |-> powerplan,
                  paths |-> writing.paths, instances |-> writing.instances]
  /\ writing' = None
  /\ UNCHANGED <<inputs, rtl, floorplan, powerplan, edits, verified>>

(* A call that is interrupted may leave the file it is at truncated.         *)
Interrupt ==
  /\ writing # None
  /\ writing' = None
  /\ \/ UNCHANGED outputs
     \/ writing.left = "rtl" /\ rtl' = Torn /\ UNCHANGED <<floorplan, powerplan, manifest>>
     \/ writing.left = "floorplan" /\ floorplan' = Torn /\ UNCHANGED <<rtl, powerplan, manifest>>
     \/ writing.left = "powerplan" /\ powerplan' = Torn /\ UNCHANGED <<rtl, floorplan, manifest>>
     \/ writing.left = "manifest" /\ manifest' = Torn /\ UNCHANGED <<rtl, floorplan, powerplan>>
  /\ UNCHANGED <<inputs, edits, verified>>

(* verify_kianv_physical_handoff.py. Yosys flattens the RTL for the paths.    *)
(* A mutant: the digest of the floorplan is not compared.                   *)
PassesWithoutFloorplan ==
  /\ manifest \notin {None, Torn} /\ manifest.rtl = rtl /\ manifest.powerplan = powerplan
  /\ manifest.instances = Macros
  /\ ~rtl.body
  /\ manifest.paths \subseteq Members(powerplan)
  /\ ~Recursive(rtl.modules) /\ Paths(rtl.modules, Top) = manifest.paths
Passes ==
  /\ manifest \notin {None, Torn}
  /\ manifest.rtl = rtl /\ manifest.floorplan = floorplan /\ manifest.powerplan = powerplan
  /\ manifest.instances = Macros
  /\ ~rtl.body
  /\ manifest.paths \subseteq Members(powerplan)
  /\ ~Recursive(rtl.modules) /\ Paths(rtl.modules, Top) = manifest.paths
Verify ==
  /\ Passes
  /\ verified' = [rtl |-> rtl, floorplan |-> floorplan, powerplan |-> powerplan]
  /\ UNCHANGED <<inputs, outputs, edits, writing>>

Next ==
  \/ Convert \/ HandOver \/ WriteRtl \/ WriteFloorplan \/ WritePowerplan \/ WriteManifest
  \/ Interrupt \/ Verify
--------------------------------------------------------------------------------
(* The verifier passes only when the memories of the RTL, of the floorplan    *)
(* and of the power plan are the same known number, whichever conversions,    *)
(* refusals and interruptions the files come from.  Code: both main.         *)
VerifiedIsPlaced ==
  verified # None =>
    LET macros == Paths(verified.rtl.modules, Top) IN
    /\ verified.floorplan \notin {None, Torn}
    /\ Members(verified.floorplan) = macros /\ Len(verified.floorplan) = Cardinality(macros)
    /\ macros \subseteq Members(verified.powerplan)
    /\ Cardinality(macros) = Macros

(* Every module between the top and a memory of a verified RTL has power      *)
(* ports, and its parent connects them.  Code: powered_modules and           *)
(* add_power_hierarchy.                                                    *)
PowerFlows(design) ==
  \E S \in SUBSET design.ports :
    /\ Top \in S
    /\ \A n \in S : \A i \in Members(design.modules[n]) :
         (i.of = Ram \/ (i.of \in DOMAIN design.modules /\ Paths(design.modules, i.of) # {})) =>
            i \in design.wired[n] /\ (i.of # Ram => i.of \in S)
PowerReachesMacros == verified # None => PowerFlows(verified.rtl)

(* A floorplan on its way to the disk has, at every place, the translation of *)
(* the path its source has there: no translated name is translated again.    *)
(* Code: physical_config.                                                  *)
TranslationIsExact ==
  [][(writing = None /\ writing' # None) =>
       /\ writing'.floorplan = [n \in DOMAIN config |-> Emitted(config[n])]
       /\ \A n \in DOMAIN pdn : pdn[n] \in Paths(package, Top) => writing'.powerplan[n] = Emitted(pdn[n])]_vars

================================================================================
