------------------------------ MODULE Building ------------------------------
(***************************************************************************)
(* How a script builds chains (operations.py): Operations starts them, one *)
(* per identifier of a list; OperationChain and ChainGroup extend them;    *)
(* submit_requests() takes the registered ones.  With them goes the        *)
(* process-wide ledger that checkOut and checkIn keep while they are being *)
(* queued.                                                                 *)
(*                                                                         *)
(* A call on a list takes a step per identifier: a ValueError in the middle*)
(* of it leaves what the earlier steps did.  A call on a group passes the  *)
(* same identifier to every chain of it, so it raises at the first chain,  *)
(* having done nothing, or not at all.  What is shown above the definition *)
(* it would replace is a mutated form, as in Chains.                       *)
(***************************************************************************)
EXTENDS Naturals, Sequences, FiniteSets

CONSTANTS
  Asset,      \* the assets the script addresses
  MaxChains,  \* bound: chains created
  MaxNodes,   \* bound: nodes of one chain
  MaxList     \* bound: identifiers of one list

ASSUME BuildingAssumption == MaxChains \in Nat /\ MaxNodes \in Nat /\ MaxList \in Nat

\* "read" stands for every identifier-addressed operation without a ledger,
\* "edit" for every one that is addressed by its payload, if at all.
Op       == {"read", "checkOut", "checkIn", "edit"}
LedgerOp == {"checkOut", "checkIn"}

\* An IdentifierType or an asset to edit; a Path with its site; a Path without
\* its site or an asset without its id.
Form  == {"id", "path", "lacking"}
Ident == [asset : Asset, form : Form]

VARIABLES
  chains,  \* every chain created: its index and its nodes
  first,   \* chains[first..] are the registered ones (Operations._chains)
  held,    \* the groups of chains that calls have returned to the script
  ledger,  \* cmstypes.ALL_CHECKOUT_ASSETS
  call     \* the call being executed, if any

vars == <<chains, first, held, ledger, call>>

Idle == [active |-> FALSE, op |-> "read", todo |-> <<>>, made |-> {}]

Init ==
  /\ chains = <<>>
  /\ first = 1
  /\ held = {}
  /\ ledger = {}
  /\ call = Idle

\* resolve_identifier: a Path without a site has no URL; edit() refuses an asset
\* without an id.
Resolves(ident) == ident.form # "lacking"

\* A list of identifiers fans out; a payload, a list of assets too, is one chain's.
Takes(op, idents) ==
  op = "edit" => Len(idents) = 1 /\ idents[1].form # "path"

Node(op, ident) == [op |-> op, key |-> ident]

(***************************************************************************)
(* The ledger: set_checkedout toggles the key of the identifier, once per  *)
(* checkOut or checkIn queued.                                             *)
(***************************************************************************)
AddOrDiscard(op, ident, times) ==
  CASE op = "checkOut" -> ledger \cup {ident}
    [] op = "checkIn"  -> ledger \ {ident}
    [] OTHER           -> ledger

KeyWithOperation(op, ident, times) ==
  IF op \in LedgerOp THEN ledger \cup {Node(op, ident)} ELSE ledger

Toggled(op, ident, times) ==
  IF op \notin LedgerOp \/ times % 2 = 0 THEN ledger
  ELSE IF ident \in ledger THEN ledger \ {ident} ELSE ledger \cup {ident}

(***************************************************************************)
(* Operations.<op>: a new chain per identifier, registered before the      *)
(* operation resolves its identifier or its payload.                       *)
(***************************************************************************)
SessionIndex == Len(chains) + 1
NextIndex    == (Len(chains) + 1) - first + 1

Register(nodes) == chains' = Append(chains, [index |-> NextIndex, nodes |-> nodes])

Call(op, idents) ==
  /\ ~call.active
  /\ Takes(op, idents)
  /\ Len(chains) + Len(idents) <= MaxChains
  /\ call' = [active |-> TRUE, op |-> op, todo |-> idents, made |-> {}]
  /\ UNCHANGED <<chains, first, held, ledger>>

StartChain ==
  LET ident == Head(call.todo)
  IN  /\ call.active /\ call.todo # <<>>
      /\ Resolves(ident)
      /\ Register(<<Node(call.op, ident)>>)
      /\ ledger' = Toggled(call.op, ident, 1)
      /\ call' = [call EXCEPT !.todo = Tail(@), !.made = @ \cup {Len(chains) + 1}]
      /\ UNCHANGED <<first, held>>

\* resolve_identifier raises, before the ledger and before the node; the chain
\* is registered by then, and the call returns nothing.
CallRaises ==
  /\ call.active /\ call.todo # <<>>
  /\ ~Resolves(Head(call.todo))
  /\ Register(<<>>)
  /\ call' = Idle
  /\ UNCHANGED <<first, held, ledger>>

CallReturns ==
  /\ call.active /\ call.todo = <<>>
  /\ held' = held \cup {call.made}
  /\ call' = Idle
  /\ UNCHANGED <<chains, first, ledger>>

(***************************************************************************)
(* OperationChain.<op>, and ChainGroup.<op> on every chain of a group.     *)
(* Nothing tells the script that a chain was submitted already.            *)
(***************************************************************************)
Extend(group, op, ident) ==
  /\ ~call.active
  /\ group \in held
  /\ Takes(op, <<ident>>)
  /\ Resolves(ident)
  /\ \A k \in group : Len(chains[k].nodes) < MaxNodes
  /\ chains' = [k \in DOMAIN chains |->
                  IF k \in group
                  THEN [chains[k] EXCEPT !.nodes = Append(@, Node(op, ident))]
                  ELSE chains[k]]
  /\ ledger' = Toggled(op, ident, Cardinality(group))
  /\ UNCHANGED <<first, held, call>>

\* submit_requests(): the registered chains run and the registry is cleared.
Submit ==
  /\ ~call.active
  /\ first <= Len(chains)
  /\ first' = Len(chains) + 1
  /\ UNCHANGED <<chains, held, ledger, call>>

Done == ~call.active /\ Len(chains) = MaxChains /\ UNCHANGED vars

Lists == UNION { [1..n -> Ident] : n \in 1..MaxList }

Next ==
  \/ \E op \in Op, idents \in Lists : Call(op, idents)
  \/ StartChain
  \/ CallRaises
  \/ CallReturns
  \/ \E group \in held, op \in Op, ident \in Ident : Extend(group, op, ident)
  \/ Submit
  \/ Done

Spec == Init /\ [][Next]_vars

-----------------------------------------------------------------------------
Chain == [index : Nat, nodes : Seq([op : Op, key : Ident])]

\* The kinds of values the variables take.
TypeOK ==
  /\ chains \in Seq(Chain)
  /\ first \in 1..(Len(chains) + 1)
  /\ held \subseteq SUBSET DOMAIN chains
  /\ ledger \subseteq Ident
  /\ call.active \in BOOLEAN /\ call.op \in Op /\ call.todo \in Seq(Ident)
  /\ call.made \subseteq DOMAIN chains

Queued(key) ==
  UNION { {k} \X { n \in DOMAIN chains[k].nodes :
                     chains[k].nodes[n].key = key /\ chains[k].nodes[n].op \in LedgerOp } :
          k \in DOMAIN chains }

\* The ledger holds the keys for which an odd number of checkOut and checkIn
\* operations has been queued, by whatever calls and in whatever order, and a
\* call that raises leaves no trace in it (set_checkedout: "Called once per
\* checkIn/checkOut operation queued").
LedgerParity ==
  \A key \in Ident : key \in ledger <=> Cardinality(Queued(key)) % 2 = 1

\* The number a registered chain carries into its failure record is its place
\* in the results of its batch, whatever was built, raised or submitted before.
IndexIsPlace ==
  \A k \in first..Len(chains) : chains[k].index = k - first + 1

\* A chain that is registered for the next batch is one the script has been
\* given (README: "One result per chain, in the order the chains were built").
RegisteredIsHeld ==
  ~call.active => \A k \in first..Len(chains) : \E group \in held : k \in group
=============================================================================
