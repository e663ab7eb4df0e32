----------------------------- MODULE Structured -----------------------------
(***************************************************************************)
(* Asset.get_data_structure (cmstypes.py): the lookup of a field in the    *)
(* structured data of an asset.                                            *)
(*                                                                         *)
(* Structured data is a sequence of nodes in document order: a "group"     *)
(* holds the nodes that name it as parent, "bare" is a group without a     *)
(* structuredDataNodes entry, and "leaf" is a field.  0 is the asset.  The *)
(* functions of the lookup recurse as the code does, over the number of a  *)
(* node; what they find is defined once more below, without walking the    *)
(* document.  What is shown above the definition it would replace is a     *)
(* mutated form, as in Chains.                                             *)
(***************************************************************************)
EXTENDS Naturals, Sequences, FiniteSets

CONSTANTS
  Ident,     \* the identifiers of groups and fields
  Missing,   \* stands for a node without an identifier
  MaxTree    \* bound: nodes of a document

ASSUME StructuredAssumption == Missing \notin Ident /\ MaxTree \in Nat

TreeNode == [parent : 0..(MaxTree - 1), kind : {"group", "bare", "leaf"},
             ident : Ident \cup {Missing}]

IsGroup(t, n) == t[n].kind \in {"group", "bare"}

\* The nodes a node is in, itself included: those that nothing up to the node
\* leaves again.
Enclosing(t, n) == { g \in 1..n : \A m \in (g + 1)..n : g <= t[m].parent }

\* Every node comes after its parent, and while its parent is not yet left.
InDocumentOrder(t) ==
  \A n \in DOMAIN t :
    t[n].parent # 0 => /\ t[n].parent \in Enclosing(t, n - 1)
                       /\ t[t[n].parent].kind = "group"

Document(size) == { t \in [1..size -> TreeNode] : InDocumentOrder(t) }

\* Two numbers no node has: an exception among the matches, and no node at all.
KeyError   == 0
Nothing(t) == Len(t) + 1

Earliest(t, S) == IF S = {} THEN Nothing(t) ELSE CHOOSE n \in S : \A m \in S : n <= m

FirstChild(t, n)  == Earliest(t, { m \in DOMAIN t : t[m].parent = n })
NextSibling(t, n) == Earliest(t, { m \in DOMAIN t : n < m /\ t[m].parent = t[n].parent })

-----------------------------------------------------------------------------
(***************************************************************************)
(* find_group(): what its `here' is at each node, and the groups at which  *)
(* it ends with parts.                                                     *)
(***************************************************************************)
Trail(t) ==
  LET here[n \in 0..Len(t)] ==
        IF n = 0 THEN <<>>
        ELSE IF IsGroup(t, n) THEN Append(here[t[n].parent], t[n].ident)
        ELSE here[t[n].parent]
  IN  here

AnySuffix(parts, here) == here # <<>> /\ parts[Len(parts)] = here[Len(here)]

EndsWith(parts, here) ==
  /\ Len(parts) <= Len(here)
  /\ parts = [k \in 1..Len(parts) |-> here[Len(here) - Len(parts) + k]]

(***************************************************************************)
(* find_in_nodes(), from each node on through its later siblings: the      *)
(* first field of that identifier, depth first; or a KeyError, where a     *)
(* node that is looked at has no identifier.                               *)
(***************************************************************************)
EntersAlways(t, n, direct) == t[n].kind = "group"
Enters(t, n, direct)       == t[n].kind = "group" /\ ~direct

FindInNodes(t, ident, direct) ==
  LET find[n \in 1..(Len(t) + 1)] ==
        IF n = Nothing(t) THEN Nothing(t)
        ELSE LET nested == IF Enters(t, n, direct) THEN find[FirstChild(t, n)] ELSE Nothing(t)
             IN  IF t[n].ident = Missing THEN KeyError
                 ELSE IF t[n].ident = ident /\ t[n].kind # "group" THEN n
                 ELSE IF nested # Nothing(t) THEN nested
                 ELSE find[NextSibling(t, n)]
  IN  find

(***************************************************************************)
(* The lookup: find_group() walks all nodes, a group before what is in it, *)
(* and the loop takes the match of each group it yields.                   *)
(***************************************************************************)
InGroup(t, n, ident, direct) ==
  IF t[n].kind = "bare" THEN KeyError ELSE FindInNodes(t, ident, direct)[FirstChild(t, n)]

MatchAt(t, n, parts, ident, direct) ==
  IF /\ IsGroup(t, n) /\ EndsWith(parts, Trail(t)[n])
     /\ InGroup(t, n, ident, direct) # Nothing(t)
  THEN <<InGroup(t, n, ident, direct)>>
  ELSE <<>>

FindGroup(t, parts, ident, direct) ==
  LET matches[n \in 1..(Len(t) + 1)] ==
        IF n = Nothing(t) THEN <<>>
        ELSE MatchAt(t, n, parts, ident, direct)
               \o matches[FirstChild(t, n)] \o matches[NextSibling(t, n)]
  IN  matches

FoundSoFar(hits) == [error |-> \E k \in DOMAIN hits : hits[k] = KeyError, found |-> hits]
Returned(hits)   == IF \E k \in DOMAIN hits : hits[k] = KeyError
                    THEN [error |-> TRUE, found |-> <<>>]
                    ELSE [error |-> FALSE, found |-> hits]

GetDataStructure(t, parts, ident, direct) ==
  Returned(FindGroup(t, parts, ident, direct)[FirstChild(t, 0)])

-----------------------------------------------------------------------------
(***************************************************************************)
(* What the lookup promises: the groups whose enclosing groups end with    *)
(* the path, and for each the first field in document order among its own  *)
(* fields, or among all below it.                                          *)
(***************************************************************************)
Matching(t, parts) ==
  { n \in DOMAIN t :
      /\ IsGroup(t, n)
      /\ \E path \in [DOMAIN parts -> DOMAIN t] :
           /\ path[Len(parts)] = n
           /\ \A k \in DOMAIN parts : t[path[k]].ident = parts[k]
           /\ \A k \in DOMAIN parts : k > 1 => path[k - 1] = t[path[k]].parent }

Below(t, g, direct) ==
  { n \in DOMAIN t : IF direct THEN t[n].parent = g ELSE n # g /\ g \in Enclosing(t, n) }

\* Up to the first match, every node that is looked at has an identifier.
FirstOf(t, S, ident) ==
  LET fields == { n \in S : t[n].ident = ident /\ t[n].kind # "group" }
      seen   == { n \in S : \A f \in fields : n < f }
  IN  IF \E n \in seen : t[n].ident = Missing THEN KeyError ELSE Earliest(t, fields)

FirstField(t, g, ident, direct) ==
  IF t[g].kind = "bare" THEN KeyError ELSE FirstOf(t, Below(t, g, direct), ident)
=============================================================================
