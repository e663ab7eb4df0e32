--------------------------- MODULE BuildingProofs ---------------------------
(***************************************************************************)
(* Theorems about how a script builds chains, for any assets, any number   *)
(* of chains, nodes and identifiers, and any calls in any order.           *)
(***************************************************************************)
EXTENDS Building, TLAPS, SequenceTheorems, FiniteSetTheorems

NodeType == [op : Op, key : Ident]

TypeInv ==
  /\ chains \in Seq(Chain)
  /\ first \in 1..(Len(chains) + 1)
  /\ held \subseteq SUBSET (1..Len(chains))
  /\ ledger \subseteq Ident
  /\ call \in [active : BOOLEAN, op : Op, todo : Seq(Ident), made : SUBSET (1..Len(chains))]

LEMMA ChainFacts ==
  ASSUME TypeInv
  PROVE  /\ Len(chains) \in Nat /\ DOMAIN chains = 1..Len(chains)
         /\ \A k \in 1..Len(chains) :
              /\ chains[k] \in Chain
              /\ chains[k].nodes \in Seq(NodeType)
              /\ Len(chains[k].nodes) \in Nat
              /\ DOMAIN chains[k].nodes = 1..Len(chains[k].nodes)
<1>1. chains \in Seq(Chain)
  BY DEF TypeInv
<1>2. Len(chains) \in Nat /\ DOMAIN chains = 1..Len(chains)
  BY <1>1, LenProperties
<1>3. ASSUME NEW k \in 1..Len(chains)
      PROVE  /\ chains[k] \in Chain
             /\ chains[k].nodes \in Seq(NodeType)
             /\ Len(chains[k].nodes) \in Nat
             /\ DOMAIN chains[k].nodes = 1..Len(chains[k].nodes)
  <2>1. chains[k] \in Chain
    BY <1>1, <1>3, ElementOfSeq
  <2>2. chains[k].nodes \in Seq(NodeType)
    BY <2>1 DEF Chain, NodeType
  <2> QED
    BY <2>1, <2>2, LenProperties
<1> QED
  BY <1>2, <1>3

LEMMA ToggledType ==
  ASSUME TypeInv, NEW op, NEW ident \in Ident, NEW times
  PROVE  Toggled(op, ident, times) \subseteq Ident
BY DEF Toggled, TypeInv

\* A chain is registered behind the others, with the place after them.
LEMMA Registered ==
  ASSUME TypeInv, NEW new \in Seq(NodeType), Register(new)
  PROVE  /\ chains' \in Seq(Chain)
         /\ Len(chains') = Len(chains) + 1
         /\ DOMAIN chains' = DOMAIN chains \cup {Len(chains) + 1}
         /\ Len(chains) + 1 \notin DOMAIN chains
         /\ \A k \in DOMAIN chains : chains'[k] = chains[k]
         /\ chains'[Len(chains) + 1].nodes = new
         /\ chains'[Len(chains) + 1].index = (Len(chains) + 1) - first + 1
<1> DEFINE chain == [index |-> NextIndex, nodes |-> new]
<1>1. NextIndex \in Nat /\ NextIndex = (Len(chains) + 1) - first + 1
  BY ChainFacts DEF NextIndex, TypeInv
<1>2. chain \in Chain /\ chain.nodes = new /\ chain.index = NextIndex
  BY <1>1 DEF Chain, NodeType
<1>3. chains' = Append(chains, chain)
  BY DEF Register
<1> HIDE DEF chain
<1>4. /\ chains' \in Seq(Chain) /\ Len(chains') = Len(chains) + 1
      /\ \A k \in 1..Len(chains) : chains'[k] = chains[k]
      /\ chains'[Len(chains) + 1] = chain
  BY <1>2, <1>3, AppendProperties DEF TypeInv
<1>5. DOMAIN chains' = 1..(Len(chains) + 1)
  BY <1>4, LenProperties
<1> QED
  BY <1>1, <1>2, <1>4, <1>5, ChainFacts

\* The chains of the group get one node more, the others stay.
LEMMA Extended ==
  ASSUME TypeInv, NEW group \in held, NEW op \in Op, NEW ident \in Ident,
         Extend(group, op, ident)
  PROVE  /\ chains' \in Seq(Chain) /\ Len(chains') = Len(chains)
         /\ group \subseteq 1..Len(chains)
         /\ \A k \in 1..Len(chains) : chains'[k].index = chains[k].index
         /\ \A k \in 1..Len(chains) : k \notin group => chains'[k] = chains[k]
         /\ \A k \in group : chains'[k].nodes = Append(chains[k].nodes, Node(op, ident))
<1> DEFINE longer(k) == [chains[k] EXCEPT !.nodes = Append(@, Node(op, ident))]
<1>1. Node(op, ident) \in NodeType
  BY DEF Node, NodeType
<1>2. group \subseteq 1..Len(chains)
  BY DEF TypeInv
<1>3. ASSUME NEW k \in 1..Len(chains)
      PROVE  /\ longer(k) \in Chain /\ longer(k).index = chains[k].index
             /\ longer(k).nodes = Append(chains[k].nodes, Node(op, ident))
  <2>1. chains[k] \in Chain /\ chains[k].nodes \in Seq(NodeType)
    BY <1>3, ChainFacts
  <2>2. Append(chains[k].nodes, Node(op, ident)) \in Seq(NodeType)
    BY <1>1, <2>1, AppendProperties
  <2> QED
    BY <2>1, <2>2 DEF Chain, NodeType
<1>4. chains' = [k \in 1..Len(chains) |-> IF k \in group THEN longer(k) ELSE chains[k]]
  BY ChainFacts DEF Extend
<1> HIDE DEF longer
<1>5. chains' \in Seq(Chain)
  BY <1>3, <1>4, ChainFacts, IsASeq
<1>6. Len(chains') = Len(chains)
  BY <1>4, <1>5, ChainFacts, LenProperties
<1> QED
  BY <1>2, <1>3, <1>4, <1>5, <1>6

LEMMA InitType == Init => TypeInv
BY EmptySeq DEF Init, TypeInv, Idle, Op

LEMMA StepType ==
  ASSUME TypeInv, [Next]_vars
  PROVE  TypeInv'
<1>0. Len(chains) \in Nat
  BY ChainFacts
<1>1. ASSUME NEW op \in Op, NEW idents \in Lists, Call(op, idents)
      PROVE  TypeInv'
  <2>1. idents \in Seq(Ident)
    BY BuildingAssumption DEF Lists
  <2> QED
    BY <1>1, <2>1 DEF Call, TypeInv
<1>2. CASE StartChain
  <2>1. /\ call.op \in Op /\ call.todo \in Seq(Ident) /\ call.todo # <<>>
        /\ call.made \subseteq 1..Len(chains)
    BY <1>2 DEF StartChain, TypeInv
  <2>2. Head(call.todo) \in Ident /\ Tail(call.todo) \in Seq(Ident)
    BY <2>1, HeadTailProperties
  <2>3. <<Node(call.op, Head(call.todo))>> \in Seq(NodeType)
    BY <2>1, <2>2 DEF Node, NodeType
  <2>4. chains' \in Seq(Chain) /\ Len(chains') = Len(chains) + 1
    BY <1>2, <2>3, Registered DEF StartChain
  <2>5. 1..Len(chains) \subseteq 1..Len(chains') /\ Len(chains) + 1 \in 1..Len(chains')
    BY <1>0, <2>4
  <2>6. ledger' \subseteq Ident
    BY <1>2, <2>2, ToggledType DEF StartChain
  <2>7. call' \in [active : BOOLEAN, op : Op, todo : Seq(Ident), made : SUBSET (1..Len(chains'))]
    <3> DEFINE rest == [call EXCEPT !.todo = Tail(@)]
    <3>1. call \in [active : BOOLEAN, op : Op, todo : Seq(Ident), made : SUBSET (1..Len(chains'))]
      BY <2>5 DEF TypeInv
    <3>2. rest \in [active : BOOLEAN, op : Op, todo : Seq(Ident), made : SUBSET (1..Len(chains'))]
      BY <2>2, <3>1
    <3>3. call' = [rest EXCEPT !.made = @ \cup {Len(chains) + 1}]
      BY <1>2 DEF StartChain
    <3> HIDE DEF rest
    <3> QED
      BY <2>5, <3>2, <3>3
  <2>8. first' \in 1..(Len(chains') + 1) /\ held' \subseteq SUBSET (1..Len(chains'))
    BY <1>0, <1>2, <2>4, <2>5 DEF StartChain, TypeInv
  <2> QED
    BY <2>4, <2>6, <2>7, <2>8 DEF TypeInv
<1>3. CASE CallRaises
  <2>1. chains' \in Seq(Chain) /\ Len(chains') = Len(chains) + 1
    BY <1>3, Registered, EmptySeq DEF CallRaises
  <2>2. 1..Len(chains) \subseteq 1..Len(chains')
    BY <1>0, <2>1
  <2>3. call' \in [active : BOOLEAN, op : Op, todo : Seq(Ident), made : SUBSET (1..Len(chains'))]
    BY <1>3, EmptySeq DEF CallRaises, Idle, Op
  <2>4. first' \in 1..(Len(chains') + 1) /\ held' \subseteq SUBSET (1..Len(chains'))
    BY <1>0, <1>3, <2>1, <2>2 DEF CallRaises, TypeInv
  <2> QED
    BY <1>3, <2>1, <2>3, <2>4 DEF CallRaises, TypeInv
<1>4. CASE CallReturns
  <2>1. call' \in [active : BOOLEAN, op : Op, todo : Seq(Ident), made : SUBSET (1..Len(chains'))]
    BY <1>4, EmptySeq DEF CallReturns, Idle, Op
  <2>2. held' \subseteq SUBSET (1..Len(chains))
    BY <1>4 DEF CallReturns, TypeInv
  <2> QED
    BY <1>4, <2>1, <2>2 DEF CallReturns, TypeInv
<1>5. ASSUME NEW group \in held, NEW op \in Op, NEW ident \in Ident, Extend(group, op, ident)
      PROVE  TypeInv'
  <2>1. chains' \in Seq(Chain) /\ Len(chains') = Len(chains)
    BY <1>5, Extended
  <2>2. ledger' \subseteq Ident
    BY <1>5, ToggledType DEF Extend
  <2> QED
    BY <1>5, <2>1, <2>2 DEF Extend, TypeInv
<1>6. CASE Submit
  BY <1>0, <1>6 DEF Submit, TypeInv
<1>7. CASE UNCHANGED vars
  BY <1>7 DEF vars, TypeInv
<1> QED
  BY <1>1, <1>2, <1>3, <1>4, <1>5, <1>6, <1>7 DEF Next, Done

LEMMA TypeInvariant == Spec => []TypeInv
BY InitType, StepType, PTL DEF Spec

\* The values are of the kinds the module says.
THEOREM Typing == Spec => []TypeOK
<1>1. TypeInv => TypeOK
  BY ChainFacts DEF TypeInv, TypeOK
<1> QED
  BY <1>1, TypeInvariant, PTL

\* The number a registered chain carries is its place in the results of its
\* batch: it is counted from where the last submit_requests() cleared the registry.
THEOREM IndicesArePlaces == Spec => []IndexIsPlace
<1>1. Init => IndexIsPlace
  BY DEF Init, IndexIsPlace
<1>2. ASSUME TypeInv, IndexIsPlace, [Next]_vars
      PROVE  IndexIsPlace'
  <2>0. Len(chains) \in Nat /\ first \in Nat \ {0} /\ DOMAIN chains = 1..Len(chains)
    BY <1>2, ChainFacts DEF TypeInv
  <2>1. ASSUME NEW new \in Seq(NodeType), Register(new), first' = first
        PROVE  IndexIsPlace'
    <3> SUFFICES ASSUME NEW k \in first..(Len(chains) + 1)
                 PROVE  chains'[k].index = k - first + 1
      BY <1>2, <2>1, Registered DEF IndexIsPlace
    <3>1. CASE k = Len(chains) + 1
      <4>1. chains'[Len(chains) + 1].index = (Len(chains) + 1) - first + 1
        BY <1>2, <2>1, Registered
      <4> QED
        BY <3>1, <4>1, Zenon
    <3>2. CASE k \in first..Len(chains)
      <4>1. k \in DOMAIN chains
        BY <2>0, <3>2
      <4> QED
        BY <1>2, <2>1, <3>2, <4>1, Registered DEF IndexIsPlace
    <3>3. k = Len(chains) + 1 \/ k \in first..Len(chains)
      BY <2>0
    <3> QED
      BY <3>1, <3>2, <3>3
  <2>2. CASE StartChain
    <3>1. call.op \in Op /\ call.todo \in Seq(Ident) /\ call.todo # <<>>
      BY <1>2, <2>2 DEF StartChain, TypeInv
    <3>2. <<Node(call.op, Head(call.todo))>> \in Seq(NodeType)
      BY <3>1, HeadTailProperties DEF Node, NodeType
    <3> QED
      BY <2>1, <2>2, <3>2 DEF StartChain
  <2>3. CASE CallRaises
    BY <2>1, <2>3, EmptySeq DEF CallRaises
  <2>4. ASSUME NEW group \in held, NEW op \in Op, NEW ident \in Ident, Extend(group, op, ident)
        PROVE  IndexIsPlace'
    <3>1. /\ Len(chains') = Len(chains) /\ first' = first
          /\ \A k \in 1..Len(chains) : chains'[k].index = chains[k].index
      BY <1>2, <2>4, Extended DEF Extend
    <3>2. first..Len(chains) \subseteq 1..Len(chains)
      BY <1>2, <2>0 DEF TypeInv
    <3> QED
      BY <1>2, <3>1, <3>2 DEF IndexIsPlace
  <2>5. CASE Submit
    BY <2>0, <2>5 DEF Submit, IndexIsPlace
  <2>6. ASSUME UNCHANGED <<chains, first>>
        PROVE  IndexIsPlace'
    BY <1>2, <2>6 DEF IndexIsPlace
  <2> QED
    BY <1>2, <2>2, <2>3, <2>4, <2>5, <2>6 DEF Next, Call, CallReturns, Done, vars
<1>3. TypeInv /\ IndexIsPlace /\ [Next]_vars => IndexIsPlace'
  BY <1>2
<1> QED
  BY <1>1, <1>3, TypeInvariant, PTL DEF Spec

(***************************************************************************)
(* The ledger.  Every step adds to the queued operations on a key as many  *)
(* as it toggles the key: none, one, or one per chain of a group.          *)
(***************************************************************************)
Parity ==
  \A key \in Ident :
    IsFiniteSet(Queued(key)) /\ (key \in ledger <=> Cardinality(Queued(key)) % 2 = 1)

LEMMA InQueued ==
  ASSUME NEW key, NEW p
  PROVE  p \in Queued(key) <=>
           \E k \in DOMAIN chains : \E n \in DOMAIN chains[k].nodes :
             p = <<k, n>> /\ chains[k].nodes[n].key = key /\ chains[k].nodes[n].op \in LedgerOp
BY DEF Queued

LEMMA ParityOfSum ==
  ASSUME NEW a \in Nat, NEW b \in Nat
  PROVE  (a + b) % 2 = 1 <=> IF b % 2 = 0 THEN a % 2 = 1 ELSE a % 2 # 1
OBVIOUS

\* An operation on ident is queued once for every element of `more'.
LEMMA QueuedGrows ==
  ASSUME Parity, NEW op \in Op, NEW ident \in Ident, NEW more, IsFiniteSet(more),
         ledger' = Toggled(op, ident, Cardinality(more)),
         \A key \in Ident :
           Queued(key)' = Queued(key) \cup IF op \in LedgerOp /\ key = ident THEN more ELSE {},
         more \cap Queued(ident) = {}
  PROVE  Parity'
<1>1. ASSUME NEW key \in Ident
      PROVE  /\ IsFiniteSet(Queued(key)')
             /\ key \in ledger' <=> Cardinality(Queued(key)') % 2 = 1
  <2>1. IsFiniteSet(Queued(key)) /\ (key \in ledger <=> Cardinality(Queued(key)) % 2 = 1)
    BY DEF Parity
  <2>2. CASE op \in LedgerOp /\ key = ident
    <3>1. Queued(key)' = Queued(key) \cup more /\ Queued(key) \cap more = {}
      BY <2>2
    <3>2. /\ IsFiniteSet(Queued(key) \cup more)
          /\ Cardinality(Queued(key) \cup more)
               = Cardinality(Queued(key)) + Cardinality(more) - Cardinality(Queued(key) \cap more)
      BY <2>1, FS_Union
    <3>3. Cardinality(Queued(key) \cap more) = 0
      BY <3>1, FS_EmptySet
    <3>4. PICK a \in Nat : a = Cardinality(Queued(key))
      BY <2>1, FS_CardinalityType
    <3>5. PICK b \in Nat : b = Cardinality(more)
      BY FS_CardinalityType
    <3>6. Cardinality(Queued(key)') = a + b
      BY <3>1, <3>2, <3>3, <3>4, <3>5
    <3>7. key \in ledger' <=> IF b % 2 = 0 THEN key \in ledger ELSE key \notin ledger
      BY <2>2, <3>5 DEF Toggled
    <3>8. (a + b) % 2 = 1 <=> IF b % 2 = 0 THEN a % 2 = 1 ELSE a % 2 # 1
      BY ParityOfSum
    <3> QED
      BY <2>1, <3>1, <3>2, <3>4, <3>6, <3>7, <3>8
  <2>3. CASE ~(op \in LedgerOp /\ key = ident)
    <3>1. Queued(key)' = Queued(key)
      BY <2>3
    <3>2. key \in ledger' <=> key \in ledger
      BY <2>3 DEF Toggled
    <3> QED
      BY <2>1, <3>1, <3>2
  <2> QED
    BY <2>2, <2>3
<1> QED
  BY <1>1, Zenon DEF Parity

LEMMA StartQueues ==
  ASSUME TypeInv, Parity, StartChain
  PROVE  Parity'
<1> DEFINE ident == Head(call.todo)
           op    == call.op
           place == Len(chains) + 1
<1>1. op \in Op /\ ident \in Ident
  <2>1. call.todo \in Seq(Ident) /\ call.todo # <<>> /\ call.op \in Op
    BY DEF StartChain, TypeInv
  <2> QED
    BY <2>1, HeadTailProperties
<1>2. /\ Register(<<Node(op, ident)>>) /\ ledger' = Toggled(op, ident, 1)
  BY DEF StartChain
<1> HIDE DEF ident, op
<1>3. <<Node(op, ident)>> \in Seq(NodeType)
  BY <1>1 DEF Node, NodeType
<1>4. /\ Len(chains) \in Nat /\ DOMAIN chains' = DOMAIN chains \cup {place}
      /\ \A k \in DOMAIN chains : chains'[k] = chains[k]
      /\ chains'[place].nodes = <<Node(op, ident)>> /\ place \notin DOMAIN chains
  BY <1>2, <1>3, Registered, ChainFacts
<1> HIDE DEF place
<1>5. ASSUME NEW key \in Ident
      PROVE  Queued(key)' = Queued(key) \cup
                              IF op \in LedgerOp /\ key = ident THEN {<<place, 1>>} ELSE {}
  <2>1. ASSUME NEW p
        PROVE  p \in Queued(key)' <=>
                 p \in Queued(key) \/ (p = <<place, 1>> /\ op \in LedgerOp /\ key = ident)
    <3>1. p \in Queued(key)' <=>
            \E k \in DOMAIN chains' : \E n \in DOMAIN chains'[k].nodes :
              /\ p = <<k, n>> /\ chains'[k].nodes[n].key = key
              /\ chains'[k].nodes[n].op \in LedgerOp
      BY DEF Queued
    <3>2. /\ DOMAIN chains'[place].nodes = {1}
          /\ chains'[place].nodes[1].key = ident /\ chains'[place].nodes[1].op = op
      BY <1>4 DEF Node
    <3> QED
      BY <1>4, <3>1, <3>2, InQueued
  <2> QED
    BY <2>1
<1>6. {<<place, 1>>} \cap Queued(ident) = {}
  BY <1>4, InQueued
<1>7. IsFiniteSet({<<place, 1>>}) /\ Cardinality({<<place, 1>>}) = 1
  BY FS_Singleton
<1> QED
  BY <1>1, <1>2, <1>5, <1>6, <1>7, QueuedGrows

LEMMA ExtendQueues ==
  ASSUME TypeInv, Parity, NEW group \in held, NEW op \in Op, NEW ident \in Ident,
         Extend(group, op, ident)
  PROVE  Parity'
<1> DEFINE last(k) == Len(chains[k].nodes) + 1
           more    == { <<k, last(k)>> : k \in group }
<1>1. group \subseteq DOMAIN chains /\ DOMAIN chains' = DOMAIN chains
  BY Extended, ChainFacts, LenProperties
<1>2. \A k \in DOMAIN chains : k \notin group => chains'[k] = chains[k]
  BY Extended, ChainFacts
<1>3. ASSUME NEW k \in group
      PROVE  /\ DOMAIN chains'[k].nodes = DOMAIN chains[k].nodes \cup {last(k)}
             /\ last(k) \notin DOMAIN chains[k].nodes
             /\ \A n \in DOMAIN chains[k].nodes : chains'[k].nodes[n] = chains[k].nodes[n]
             /\ chains'[k].nodes[last(k)] = Node(op, ident)
  <2>1. k \in 1..Len(chains) /\ chains'[k].nodes = Append(chains[k].nodes, Node(op, ident))
    BY <1>1, Extended, ChainFacts
  <2>2. /\ chains[k].nodes \in Seq(NodeType) /\ Len(chains[k].nodes) \in Nat
        /\ DOMAIN chains[k].nodes = 1..Len(chains[k].nodes)
    BY <2>1, ChainFacts
  <2>3. Node(op, ident) \in NodeType
    BY DEF Node, NodeType
  <2> QED
    BY <2>1, <2>2, <2>3, AppendProperties, LenProperties
<1> HIDE DEF last
<1>4. ASSUME NEW key \in Ident
      PROVE  Queued(key)' = Queued(key) \cup IF op \in LedgerOp /\ key = ident THEN more ELSE {}
  <2>1. ASSUME NEW p
        PROVE  p \in Queued(key)' <=>
                 p \in Queued(key) \/ (p \in more /\ op \in LedgerOp /\ key = ident)
    <3>1. p \in Queued(key)' <=>
            \E k \in DOMAIN chains : \E n \in DOMAIN chains'[k].nodes :
              /\ p = <<k, n>> /\ chains'[k].nodes[n].key = key
              /\ chains'[k].nodes[n].op \in LedgerOp
      BY <1>1 DEF Queued
    <3>2. ASSUME NEW k \in DOMAIN chains
          PROVE  (\E n \in DOMAIN chains'[k].nodes :
                    /\ p = <<k, n>> /\ chains'[k].nodes[n].key = key
                    /\ chains'[k].nodes[n].op \in LedgerOp)
                 <=> \/ \E n \in DOMAIN chains[k].nodes :
                          /\ p = <<k, n>> /\ chains[k].nodes[n].key = key
                          /\ chains[k].nodes[n].op \in LedgerOp
                     \/ k \in group /\ p = <<k, last(k)>> /\ op \in LedgerOp /\ key = ident
      <4>1. CASE k \in group
        BY <1>3, <4>1 DEF Node
      <4>2. CASE k \notin group
        BY <1>2, <4>2
      <4> QED
        BY <4>1, <4>2
    <3>3. p \in more <=> \E k \in group : p = <<k, last(k)>>
      OBVIOUS
    <3> HIDE DEF more
    <3> QED
      BY <1>1, <3>1, <3>2, <3>3, InQueued
  <2> QED
    BY <2>1
<1>5. more \cap Queued(ident) = {}
  BY <1>3, InQueued
<1>6. IsFiniteSet(more) /\ Cardinality(more) = Cardinality(group)
  <2>1. IsFiniteSet(group)
    <3>1. Len(chains) \in Nat /\ DOMAIN chains = 1..Len(chains)
      BY ChainFacts
    <3>2. IsFiniteSet(1..Len(chains))
      BY <3>1, FS_Interval
    <3> QED
      BY <1>1, <3>1, <3>2, FS_Subset
  <2> DEFINE f == [k \in group |-> <<k, last(k)>>]
  <2>2. f \in Bijection(group, more)
    BY DEF Bijection, Injection, Surjection, IsInjective
  <2>3. ExistsBijection(group, more)
    BY <2>2 DEF ExistsBijection
  <2> QED
    BY <2>1, <2>3, FS_Bijection
<1>7. ledger' = Toggled(op, ident, Cardinality(more))
  BY <1>6 DEF Extend
<1> HIDE DEF more
<1> QED
  BY <1>4, <1>5, <1>6, <1>7, QueuedGrows

\* The ledger holds the keys on which an odd number of checkOut and checkIn
\* operations has been queued, by whatever calls and in whatever order.
THEOREM LedgerCountsParity == Spec => []LedgerParity
<1>1. Init => Parity
  <2>1. ASSUME Init, NEW key \in Ident
        PROVE  IsFiniteSet(Queued(key)) /\ (key \in ledger <=> Cardinality(Queued(key)) % 2 = 1)
    <3>1. Queued(key) = {} /\ ledger = {}
      BY <2>1 DEF Init, Queued
    <3>2. IsFiniteSet({}) /\ Cardinality({}) = 0
      BY FS_EmptySet
    <3> QED
      BY <3>1, <3>2
  <2> QED
    BY <2>1 DEF Parity
<1>2. ASSUME TypeInv, Parity, [Next]_vars
      PROVE  Parity'
  <2>1. ASSUME \A key \in Ident : Queued(key)' = Queued(key), ledger' = ledger
        PROVE  Parity'
    BY <1>2, <2>1 DEF Parity
  <2>2. CASE CallRaises
    <3>1. /\ Len(chains) \in Nat /\ DOMAIN chains' = DOMAIN chains \cup {Len(chains) + 1}
          /\ \A k \in DOMAIN chains : chains'[k] = chains[k]
          /\ chains'[Len(chains) + 1].nodes = <<>>
      BY <1>2, <2>2, Registered, EmptySeq, ChainFacts DEF CallRaises
    <3>2. ASSUME NEW key \in Ident
          PROVE  Queued(key)' = Queued(key)
      <4>1. ASSUME NEW p
            PROVE  p \in Queued(key)' <=> p \in Queued(key)
        <5>1. p \in Queued(key)' <=>
                \E k \in DOMAIN chains' : \E n \in DOMAIN chains'[k].nodes :
                  /\ p = <<k, n>> /\ chains'[k].nodes[n].key = key
                  /\ chains'[k].nodes[n].op \in LedgerOp
          BY DEF Queued
        <5> QED
          BY <3>1, <5>1, InQueued
      <4> QED
        BY <4>1
    <3> QED
      BY <2>1, <2>2, <3>2 DEF CallRaises
  <2>3. ASSUME UNCHANGED <<chains, ledger>>
        PROVE  Parity'
    BY <2>1, <2>3 DEF Queued
  <2> QED
    BY <1>2, <2>2, <2>3, StartQueues, ExtendQueues
       DEF Next, Call, CallReturns, Submit, Done, vars
<1>3. TypeInv /\ Parity /\ [Next]_vars => Parity'
  BY <1>2
<1>4. Parity => LedgerParity
  BY DEF Parity, LedgerParity
<1> QED
  BY <1>1, <1>3, <1>4, TypeInvariant, PTL DEF Spec

(***************************************************************************)
(* How far RegisteredIsHeld reaches (run ghost).  A call that raises leaves *)
(* a chain without a node, which no group ever gets; the chains that no    *)
(* group holds are those and the ones the same calls made before them.     *)
(***************************************************************************)
Held(k)  == \E group \in held : k \in group
Empty(k) == chains[k].nodes = <<>>

Given ==
  \A k \in 1..Len(chains) :
    /\ Held(k) \/ k \in call.made \/ \E j \in k..Len(chains) : Empty(j)
    /\ Empty(k) => ~Held(k) /\ k \notin call.made

\* A new chain stands behind the others, which it leaves as they are.
Behind(n, new) ==
  /\ n \in Nat /\ n = Len(chains) + 1 /\ Len(chains') = n
  /\ \A k \in 1..n : k \in 1..Len(chains) \/ k = n
  /\ \A k \in 1..Len(chains) :
       /\ k # n /\ chains'[k] = chains[k]
       /\ \A j \in k..Len(chains) : j \in 1..Len(chains) /\ j \in k..n
  /\ \A k \in 1..n : n \in k..n
  /\ chains'[n].nodes = new

LEMMA NewBehind ==
  ASSUME TypeInv, NEW new \in Seq(NodeType), Register(new)
  PROVE  \E n \in Nat : Behind(n, new)
<1>1. PICK n \in Nat : n = Len(chains) + 1
  BY ChainFacts
<1>2. /\ Len(chains) \in Nat /\ DOMAIN chains = 1..Len(chains)
      /\ Len(chains') = n /\ chains'[n].nodes = new
      /\ \A k \in DOMAIN chains : chains'[k] = chains[k]
  BY <1>1, Registered, ChainFacts
<1>3. /\ \A k \in 1..n : n \in k..n /\ (k \in 1..Len(chains) \/ k = n)
      /\ \A k \in 1..Len(chains) :
           k # n /\ \A j \in k..Len(chains) : j \in 1..Len(chains) /\ j \in k..n
  BY <1>1, <1>2
<1> QED
  BY <1>1, <1>2, <1>3 DEF Behind

LEMMA GivenStart ==
  ASSUME TypeInv, Given, StartChain
  PROVE  Given'
<1> DEFINE new == <<Node(call.op, Head(call.todo))>>
<1>1. new \in Seq(NodeType) /\ new # <<>>
  <2>1. call.op \in Op /\ call.todo \in Seq(Ident) /\ call.todo # <<>>
    BY DEF StartChain, TypeInv
  <2> QED
    BY <2>1, HeadTailProperties DEF Node, NodeType
<1>2. Register(new)
  BY DEF StartChain
<1> HIDE DEF new
<1>3. PICK n \in Nat : Behind(n, new)
  BY <1>1, <1>2, NewBehind
<1>4. held' = held /\ call'.made = call.made \cup {n}
  BY <1>3 DEF StartChain, TypeInv, Behind
<1>5. /\ \A k \in 1..Len(chains) : (Empty(k)' <=> Empty(k)) /\ (Held(k)' <=> Held(k)) /\ k # n
      /\ ~Empty(n)'
  BY <1>1, <1>3, <1>4 DEF Empty, Held, Behind
<1>6. ASSUME NEW k \in 1..n
      PROVE  /\ Held(k)' \/ k \in call'.made \/ \E j \in k..n : Empty(j)'
             /\ Empty(k)' => ~Held(k)' /\ k \notin call'.made
  <2>1. CASE k = n
    BY <1>4, <1>5, <2>1
  <2>2. CASE k \in 1..Len(chains)
    <3>1. /\ Held(k) \/ k \in call.made \/ \E j \in k..Len(chains) : Empty(j)
          /\ Empty(k) => ~Held(k) /\ k \notin call.made
      BY <2>2 DEF Given
    <3>2. \A j \in k..Len(chains) : j \in 1..Len(chains) /\ j \in k..n
      BY <1>3, <2>2 DEF Behind
    <3> QED
      BY <1>4, <1>5, <2>2, <3>1, <3>2
  <2> QED
    BY <1>3, <2>1, <2>2 DEF Behind
<1>7. Len(chains') = n
  BY <1>3 DEF Behind
<1> QED
  BY <1>6, <1>7 DEF Given, Empty, Held

LEMMA GivenRaises ==
  ASSUME TypeInv, Given, CallRaises
  PROVE  Given'
<1>1. PICK n \in Nat : Behind(n, <<>>)
  BY NewBehind, EmptySeq DEF CallRaises
<1>2. held' = held /\ call'.made = {}
  BY DEF CallRaises, Idle
<1>3. ~Held(n)
  <2>1. n \notin 1..Len(chains)
    BY <1>1 DEF Behind
  <2> QED
    BY <2>1 DEF Held, TypeInv
<1>4. /\ \A k \in 1..Len(chains) : (Empty(k)' <=> Empty(k)) /\ (Held(k)' <=> Held(k))
      /\ Empty(n)' /\ ~Held(n)'
  BY <1>1, <1>2, <1>3 DEF Empty, Held, Behind
<1>5. ASSUME NEW k \in 1..n
      PROVE  /\ \E j \in k..n : Empty(j)'
             /\ Empty(k)' => ~Held(k)'
  <2>1. \E j \in k..n : Empty(j)'
    BY <1>1, <1>4 DEF Behind
  <2>2. CASE k = n
    BY <1>4, <2>1, <2>2
  <2>3. CASE k \in 1..Len(chains)
    BY <1>4, <2>1, <2>3 DEF Given
  <2> QED
    BY <1>1, <2>2, <2>3 DEF Behind
<1>6. Len(chains') = n
  BY <1>1 DEF Behind
<1> QED
  BY <1>2, <1>5, <1>6 DEF Given, Empty, Held

LEMMA GivenExtended ==
  ASSUME TypeInv, Given, NEW group \in held, NEW op \in Op, NEW ident \in Ident,
         Extend(group, op, ident)
  PROVE  Given'
<1>1. /\ Len(chains') = Len(chains) /\ held' = held /\ call' = call
      /\ group \subseteq 1..Len(chains)
      /\ \A k \in 1..Len(chains) : k \notin group => chains'[k] = chains[k]
  BY Extended DEF Extend
<1>2. ASSUME NEW k \in group
      PROVE  ~Empty(k) /\ ~Empty(k)'
  <2>1. k \in 1..Len(chains) /\ Held(k)
    BY <1>1 DEF Held
  <2>2. chains[k].nodes \in Seq(NodeType) /\ chains'[k].nodes = Append(chains[k].nodes, Node(op, ident))
    BY <1>1, <2>1, Extended, ChainFacts
  <2>3. Node(op, ident) \in NodeType
    BY DEF Node, NodeType
  <2>4. Append(chains[k].nodes, Node(op, ident)) # <<>>
    BY <2>2, <2>3, AppendProperties
  <2> QED
    BY <2>1, <2>2, <2>4 DEF Given, Empty
<1>3. \A k \in 1..Len(chains) : (Empty(k)' <=> Empty(k)) /\ (Held(k)' <=> Held(k))
  BY <1>1, <1>2 DEF Empty, Held
<1>4. \A k \in 1..Len(chains) : \A j \in k..Len(chains) : j \in 1..Len(chains)
  BY ChainFacts
<1> QED
  BY <1>1, <1>3, <1>4 DEF Given, Empty, Held

\* Between calls a chain that no group holds was left behind by a call that
\* raised at it or at a chain made after it, which has no node and which no
\* group holds either (Operations.<op> on a list).
GhostsAreOfRaises ==
  ~call.active =>
    \A k \in 1..Len(chains) :
      /\ Held(k) \/ \E j \in k..Len(chains) : Empty(j)
      /\ Empty(k) => ~Held(k)

THEOREM OnlyRaisesLeaveGhosts == Spec => []GhostsAreOfRaises
<1> DEFINE Rest == ~call.active => call.made = {}
<1>1. Init => Given /\ Rest
  BY DEF Init, Given, Idle
<1>2. ASSUME TypeInv, Given, Rest, [Next]_vars
      PROVE  Given' /\ Rest'
  <2>1. ASSUME NEW op \in Op, NEW idents \in Lists, Call(op, idents)
        PROVE  Given' /\ Rest'
    BY <1>2, <2>1 DEF Call, Given, Held, Empty
  <2>2. CASE StartChain
    <3>1. call'.active = call.active
      BY <1>2, <2>2 DEF StartChain, TypeInv
    <3> QED
      BY <1>2, <2>2, <3>1, GivenStart DEF StartChain
  <2>3. CASE CallRaises
    BY <1>2, <2>3, GivenRaises DEF CallRaises, Idle
  <2>4. CASE CallReturns
    <3>1. \A k : Held(k)' <=> Held(k) \/ k \in call.made
      BY <2>4 DEF CallReturns, Held
    <3>2. \A k : Empty(k)' <=> Empty(k)
      BY <2>4 DEF CallReturns, Empty
    <3> QED
      BY <1>2, <2>4, <3>1, <3>2 DEF CallReturns, Given, Idle, Empty
  <2>5. ASSUME NEW group \in held, NEW op \in Op, NEW ident \in Ident, Extend(group, op, ident)
        PROVE  Given' /\ Rest'
    BY <1>2, <2>5, GivenExtended DEF Extend
  <2>6. CASE Submit \/ UNCHANGED vars
    BY <1>2, <2>6 DEF Submit, vars, Given, Held, Empty
  <2> QED
    BY <1>2, <2>1, <2>2, <2>3, <2>4, <2>5, <2>6 DEF Next, Done
<1>3. TypeInv /\ Given /\ Rest /\ [Next]_vars => Given' /\ Rest'
  BY <1>2
<1>4. Given /\ Rest => GhostsAreOfRaises
  BY DEF Given, GhostsAreOfRaises
<1> QED
  BY <1>1, <1>3, <1>4, TypeInvariant, PTL DEF Spec
=============================================================================
