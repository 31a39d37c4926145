------------------------------ MODULE CapForest ------------------------------
(***************************************************************************)
(* What the capability kernel of LNP64-mu promises (Machines/Lnp64u/       *)
(* Kernel.lean lines 16-27, and the prose of cap_dup, cap_drop,            *)
(* cap_revoke, mem_grant and the gate transfers in Isa/System.lean), with  *)
(* no tables, cells or sweeps: a forest of capabilities named by           *)
(* references that are used once.                                          *)
(***************************************************************************)
CONSTANTS
  Refs,          \* all references that can ever name a capability
  Root,          \* the parent of a manifest or orphaned capability
  Within(_, _)   \* Within(a, b): authority a is no more than authority b

VARIABLES
  live,     \* references that name a capability now
  parent,   \* parent[c] \in live \union {Root}
  auth,     \* auth[c]: what c authorizes
  retired   \* references that named one and never will again

vars == <<live, parent, auth, retired>>

\* Descendants by the reference definition: the capabilities c is an ancestor
\* of, an ancestor set being closed under parent.
Descendants(c) ==
  {x \in live \ {c} :
     \A up \in SUBSET live :
       (x \in up /\ \A y \in up : parent[y] # Root => parent[y] \in up) => c \in up}

Derive(p, c, a) ==
  /\ p \in live
  /\ c \notin live \union retired
  /\ Within(a, auth[p])
  /\ live' = live \union {c}
  /\ parent' = [x \in live' |-> IF x = c THEN p ELSE parent[x]]
  /\ auth' = [x \in live' |-> IF x = c THEN a ELSE auth[x]]
  /\ UNCHANGED retired

\* Children of a dropped capability go to its parent, or become roots.
Drop(c) ==
  /\ c \in live
  /\ live' = live \ {c}
  /\ parent' = [x \in live' |-> IF parent[x] = c THEN parent[c] ELSE parent[x]]
  /\ auth' = [x \in live' |-> auth[x]]
  /\ retired' = retired \union {c}

\* Revoke destroys the strict descendants and keeps the capability itself.
Revoke(c) ==
  /\ c \in live
  /\ live' = live \ Descendants(c)
  /\ parent' = [x \in live' |-> parent[x]]
  /\ auth' = [x \in live' |-> auth[x]]
  /\ retired' = retired \union Descendants(c)

\* A transferred capability keeps its authority, its parent and its children
\* under a new name.
Transfer(c, n) ==
  /\ c \in live
  /\ n \notin live \union retired
  /\ live' = (live \ {c}) \union {n}
  /\ parent' = [x \in live' |-> IF x = n THEN parent[c]
                                ELSE IF parent[x] = c THEN n ELSE parent[x]]
  /\ auth' = [x \in live' |-> IF x = n THEN auth[c] ELSE auth[x]]
  /\ retired' = retired \union {c}

Init ==
  /\ live \subseteq Refs
  /\ parent = [c \in live |-> Root]
  /\ auth = [c \in live |-> auth[c]]
  /\ retired = {}

\* A step shows a new name, derived or transferred, or loses one, dropped or
\* below a revoked one.
Next ==
  \/ \E n \in live' \ live :
       \/ \E p \in live : Derive(p, n, auth'[n])
       \/ \E c \in live \ live' : Transfer(c, n)
  \/ \E c \in live \ live' :
       \/ Drop(c)
       \/ \E a \in live \intersect live' : Revoke(a)

Spec == Init /\ [][Next]_vars
=============================================================================
